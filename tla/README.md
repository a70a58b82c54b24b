# Smokemap backend: models and proofs of its concurrent services

This directory holds a TLA+ model of the Django backend in `src/backend/`: what
happens to a contributor's photo from its reservation to its publication or
deletion, to a place proposal from draft to review, to the tags that proposals
share, to what the public sees, to a family of refresh tokens, to what waits for
the periodic job or a moderator, and to the rows while migrations are applied
and reversed. Every action is translated from the source lines that
`PROJECT.json` names. TLC checks the modules on small instances; TLAPS proves
theorems that hold for every value of the constants.

The backend is a set of synchronous request handlers over PostgreSQL (READ
COMMITTED, row locks by `select_for_update`), a private S3-compatible object
store, and a periodic job. The interesting behaviour is what several handlers do
to the same rows and objects at once. A handler usually takes its locks parent
first: the submission's `Request` row, the actor's `CustomUser` row, the
`MediaUploadIntent` rows, the `Image` rows. No lock is held across a storage
request, so that every handler with storage work is two transactions with object
store steps in between.

## Inventory

| Part | State | Operations | What makes it hard | What must hold |
|---|---|---|---|---|
| Media intents (`media.py`) | one row per reservation: state, cleanup claim and lease, retry times, source-cleanup schedule; three object keys; the `Image` of an attachment; idempotency rows | create, issue, verify, attach, remove, expire, owner cleanup, system cleanup, source cleanup, stale-seal cleanup, rendition backfill | storage between two transactions; claims with leases; claims that override claims; crashes; failed requests that were carried out; the client writes the store by itself | kept media keeps its objects; retirement is final; what is retired is deleted; nothing is left behind |
| Private object store (`media_storage.py`) | the objects | get, put, delete, stat, presign | failures, lost answers | modelled as the environment of the intents |
| Submission media set (`media.py`, `submissions.py`) | the slots of one draft, attachment positions, digests | create, attach, remove, reorder, finalize readiness | slots are reserved long before they are attached; several handlers renumber or reuse them | never more than the limit, no two in one place, no duplicate content |
| Submissions and review (`submissions.py`, `moderation.py`) | proposals, their state, idempotency records, lifecycle events, public places | create, edit, finalize, withdraw, approve, reject, hard delete | likeness found by reads of unlocked rows under an advisory lock; approval in two phases; retries | one place per approval, no two like places nearby, an unbroken audit trail, nobody reviews their own |
| Draft expiry (`submission_expiry.py`) | activity times | list candidates, recheck and expire each | candidates are listed without locks, in bounded batches; the owner may be active meanwhile | no active draft expires, every idle one does |
| Public media (`public_media.py`, `moderation.py`, `views.py`) | published renditions, places, revocation records, deletion audits | publish, retrieve, revoke, erase, hard-delete a place, edit a place | bytes are read before the authorization; two lock orders that cross | what is revoked is not served and is erased; what is published stays whole; everyone is answered |
| Refresh tokens (`tokens.py`) | families and credentials | issue, rotate, revoke | the same credential presented twice; lock order inside a family | one working credential per family; reuse kills the family |
| Tags (`tagging.py`, `moderation.py`) | the shared vocabulary | accept a list, get or create, promote | uncommitted rows of others; opposite orders; renames of what others have made public | links resolve; a public tag was reviewed and is final |
| Moderation queue (`moderation_queue.py`) | a cursor | keyset pages | rows enter and leave between two pages and share their date | nothing pending throughout is skipped |
| Schema migrations (`migrations/`) | the schema and all rows | apply, reverse | reversal over rows that only a newer release writes | no record lost, no submission misread, no tag published |
| Periodic command (`process_media_cleanup.py`) | - | one bounded run of every job | failures that come back in every run | every one gets its turn |
| GraphQL and REST layer, settings, authentication, statistics, search and viewport | none of their own | translation, authorization decorators, queries | - | see "Not modelled" |

The parts interact through rows and objects only: finalization and approval read
the media set; withdrawal, rejection and draft expiry hand every intent to
cleanup; approval runs the rendition backfill, publishes the renditions and
promotes the tags; revocation of public media retires the intent; the periodic
job does what nobody waited for.

## Modules

| Module | Models | Lines of state |
|---|---|---|
| `MediaObject` | what an intent promises about its private media | abstract, implemented by `MediaIntent` |
| `UploadLife` | the life of one upload row and its submission | abstract, implemented by `MediaIntent` and by every upload of `DraftMedia` |
| `SubmissionService` | every call on a submission, served at one moment | abstract, implemented by `Submissions` |
| `PublicCatalogue` | what the public sees, changed at one moment | abstract, implemented by `PublicMedia` |
| `Vocabulary` | the tags without transactions: lists accepted as a whole | abstract, implemented by `TagVocabulary` |
| `TokenFamily` | one family without rows and locks | abstract, implemented by `RefreshTokens` |
| `MediaIntent` | one intent, its objects, and every call that touches them; instantiates `MediaObject` | row, store, calls |
| `DraftMedia` | all uploads of one submission: slots, positions, contents, review | rows |
| `Submissions` | several submissions, the public places, retries, roles, expiry, hard deletion | rows, calls and their locks |
| `PublicMedia` | places and public renditions after the approval | rows, objects, calls and their locks |
| `TagVocabulary` | the tags that several submissions name and approvals make public | rows, uncommitted rows, calls |
| `RefreshTokens` | one family of credentials, each row lock a step | rows, calls and their locks |
| `Backlog` | bounded batches of the job and pages of the queue | rows, one job, one reader |
| `Migrations` | migrations 1 to 17, forwards and backwards, between releases that write | kinds of rows |

`MC...` modules give the constants of a module their values for TLC and declare
symmetry; `...Proofs` modules hold the theorems about it. Definitions called
`X_Something` before a definition `X` are mutated forms of it, a plausible bug
each; `PROJECT.json` says which property refuses which one.

The media modules look at the same rows at different scales. `MediaIntent` has
one upload with every object, claim and lease; `DraftMedia` has all uploads of a
submission but only the state of each row; `Submissions` has several submissions
and lets the media be ready or not; `PublicMedia` begins where they were; in
`Backlog` an upload is a thing to be deleted. What each leaves out is
nondeterministic in it, so that what holds there does not rely on it. That the
first two agree is checked and proved: both implement `UploadLife`.

### The abstract specifications

The detailed modules say in one property what their component is for: it
implements a specification without locks, second looks or storage steps. Of the
services it says that a request is asked, takes effect at one moment or is refused
for a reason that holds at one, and is answered. The refinement mappings are definitions at
the end of the detailed modules:

- `Submissions` implements `SubmissionService` (`ServedAtOnce`). `asked` shows a
  call as what was asked, whether the address it read has moved since and, once it
  has one, its answer; the locks and the places of a call are hidden, the rows are the
  same. The moment of an approval is its second transaction.
- `RefreshTokens` implements `TokenFamily` (`AnsweredAtOnce`). `works` is the
  credential that is live, `spent` those that were, and `asked` hides an answer
  that a request has decided on but not committed. The moment is the commit.
- `PublicMedia` implements `PublicCatalogue` (`TakesEffectAtOnce`). `shown` is
  the state of each rendition, erased once its object is gone, and `asked` the
  request and whether it is being served, without its locks; the moment of a retrieval is its authorization, under the lock, after
  the bytes were read.
- `TagVocabulary` implements `Vocabulary` (`ListsAreWhole`). `Committed` shows a
  tag only when the transaction that inserted it has committed, so that a list
  appears with all its new tags or not at all.
- `MediaIntent` implements `MediaObject` (`KeepsPromise`, below), and both
  `MediaIntent` and `DraftMedia` implement `UploadLife` (`LivesAsUpload`,
  `UploadsLiveAlike`): `inspected` is whether some call is between the two
  transactions of a verification or a backfill. Only such a call verifies a row or
  takes it back from deleted.

### MediaIntent

The state is one row (`intent`, the fields of `models.MediaUploadIntent` that
control anything), the managed `image`, the `submission` it belongs to, whether
its owner's account is `active`, the client's authorization (`presign`), the
`store` under the three keys of the row's binding (upload, sealed, rendition),
the idempotency keys `recorded`, and where each running `call` is. Clock times
became what the code asks of them: a lease is `none`, `live` or `over`, a retry
time `none`, `waiting` or `due`, and separate actions let each one pass.

A transaction is one action, since the code takes the `Request`, intent and
image rows before it looks at anything. The storage requests between two
transactions are actions of their own (`ReadSource`, `Seal`, `CheckSealed`,
`Render`, `CheckRendition`, `DeleteObject`, `CheckAbsent`) and so interleave with
every transaction of every other call. `Fault` fails a request, before or after
it was carried out; `Crash` ends a call anywhere.

Calls are split by what they may run: `Verifiers` (`verify_upload`), `Owners`
(`cleanup_media_object`), `Sweepers` (workers of `process_media_cleanup`) and
`Approvers` (`approve_submission` with its backfill). Any of them goes on to a
stale-seal cleanup when it finds that it wrote objects it may not keep.

`KeepsPromise` is the refinement of `MediaObject`: an upload is retained, then
given up, then gone, and never the other way round; its sealed object is erased
only after it was given up.

### DraftMedia

`intent` has the rows (state, reserved slot, digest), `position` the place of the
managed `Image` of each, `running` how many verifications are between their two
transactions. Every other handler locks the submission first and is one action.
The hazard of this part is the distance between a check and what relies on it:
the limit and the slot are checked when an upload is reserved, the place is
taken when it is attached, and in between images are removed, reordered and
attached. `CommitVerify` has the late verification that reopens a deleted row to
reclaim its objects, even when the submission is under review by then.

### Submissions

`request`, `event`, `place` and `record` are the rows of the models of those
names, `account` the standing of each user, `idle` the drafts past the
inactivity limit and `due` a candidate the expiry job has read, `call` the
requests in progress. A call waits for the submission's row (`LockRow`), for the
actor's (`Proceed`) and for the advisory lock of the name (`CheckName`); the
locks follow from where a call is (`HoldsRow`, `HoldsUser`, `HoldsName`) and go
when it ends. An approval passes through `LockRow` and `Proceed` twice, with the
backfill in between and nothing locked. Names are already canonical and spots
are near or not (`Near`, which need not be transitive). A key is one the client
uses again; a fresh key needs no record, since nothing can ever find it.

`stale` is PostgreSQL's rule for a locking query that has joined a row it does
not lock: after waiting it evaluates the join once more with the new version of
the locked row and the old version of the other one. `create_submission` locks
one row and is one step; the expiry job skips locked rows and is one step.

`HardDelete` is `hard_delete_submission`: an administrator removes a row that no
event and no record speaks of, which only one from before migration 6 can be
(`Legacy`, which may start pending without history). A row that is gone when a
call comes to it is answered like one that was never there.

### PublicMedia

A retrieval reads the binding without a lock (`Retrieve`), then the whole object
(`ReadObject`), and only then takes the submission and authorizes (`Authorize`);
`Serve` sends. Writers take the submission and the actor (`LockRequest`, then
`Publish`, `Unpublish` or `Decline`), a hard deletion of a place takes the place,
the actor and a submission that matches the place (`LockPlace`, `LockActor`,
`HardDelete`). The two orders cross, so `Blocks` says who waits for whom and
`Abort` is PostgreSQL's way out of a circle. `Save` is the edit of a place by
PUT or PATCH, which writes back an instance it read without a lock. `Erase` and
`FinishCleanup` stand for the cleanup that `MediaIntent` has in detail.

### TagVocabulary

`tag` has the row of each canonical form, with the transaction that inserts it
until that commits (`by`), `older` the order of the primary keys. `Attach` is one
`get_or_create`: it waits for an uncommitted row of the same form, because the
unique index makes PostgreSQL wait, and then links the row or inserts its own.
`Check` is the deferred foreign key at the commit, which locks the tags again.
An approval locks its tags in the order of their keys (`Lock`) and makes them
public under the spelling its submission gave them (`Promote`). `Rollback` may
end any transaction and takes its rows with it.

### RefreshTokens

`rotate_refresh_token` selects a credential with its family `FOR UPDATE`; the
database locks the rows one after the other, so `LockCredential` and `LockFamily`
are two steps and a request may wait between them. A revocation then updates all
credentials of the family, which needs their locks as well: the rows found by
the update (`targets`) are fixed when it starts, the lock wait comes after. Two
requests can wait for each other here, and `Abort` is PostgreSQL's way out.

### Backlog

`order` is the order of `date_updated`, which every save of a row changes;
`recent` says which evidence of activity a draft has. The job reads a batch of
candidates and works it off one transaction at a time, skipping what is locked;
then it does the same with the uploads to be deleted, failed ones first because
NULL sorts last. A moderator reads pages behind a cursor of date and key.

### Migrations

`level` is the last migration applied. `Up` and `Down` apply or reverse the next
one as a whole or not at all; `Change` says what each refuses and what it does to
the rows. Between them the release of the time writes what the schema admits.
Rows are kept as far as some migration tells them apart: states and owners per
submission, tags per submission and form, and for evidence and intents only
which kinds there are. A kind of evidence is the names that the first release took
from clients, the moderation audit, the events and records of one group of
operations, or the comments of events. A reversal takes away the kinds whose
tables or columns it drops, whether it has checked for them (6, 7) or not (the
audit by 2, comments by 14; forwards, 2 clears the names); where instead a
constraint is restored (10, 12, 17) or one that the rows may violate is added (the
area of images, 8), the migration refuses. Deleting rows is left to `Submissions`
and `PublicMedia`; here an administrator's deletion leaves its audit.

## Runs

| Run | Question | Instance |
|---|---|---|
| `media_verify` | do two verifications of one intent keep each other's objects, with the periodic job in between | 2 verifiers with own keys, 1 sweeper, 1 fault |
| `media_backfill` | is an approved attachment servable after two concurrent approvals of migrated media | 2 approvers, 1 owner call, 1 fault, 1 crash, account switched off |
| `media_live` | is everything retired deleted, and does the intent implement `MediaObject` and `UploadLife` | 1 verifier, 1 sweeper, 1 crash, account switched off, fairness |
| `draft_media` | do limit, positions and contents hold, does review see what was submitted, does each upload implement `UploadLife` | 3 uploads, 2 contents, 2 slots, 1 verification each, fairness |
| `publishing` | are no two like places public and no two like proposals of one owner under review | 2 calls, 2 people who review each other, 2 submissions, 2 proposals, 1 key |
| `review` | is the history whole, the decision a moderator's, and is every call served as if at one moment | 2 calls, 1 submission that may be a legacy one, 2 spots of one name, 1 key, roles lost, drafts aging |
| `submission_found` | violation: an owner's finalization is told that the submission does not exist | 2 calls, 1 submission |
| `tokens` | does every request take effect as if at one moment, and is every one answered | 2 requests, 3 credentials, fairness |
| `public_media` | is what was revoked never served and always erased, the published whole, and every change as if at one moment | 2 calls, 1 account, 1 new and 1 legacy place, 2 renditions, 1 key, fairness |
| `tags` | do links resolve, is the public vocabulary reviewed and final, and is a list accepted as a whole | 3 calls, 3 submissions, 2 new tags in 3 spellings and 1 legacy tag, 6 inputs |
| `migrations` | do all paths up and down keep rows readable and records | 2 submissions, 2 tags, all 17 migrations |
| `backlog` | is nothing skipped or held off for ever | 3 submissions, 2 of one date, 2 uploads of which one fails always, batches of 2, pages of 1, 3 operations, fairness |

### What the passing runs show

- `media_verify`: what a verification keeps is there (`KeptObjectsPresent`), a
  row that says deleted has nothing behind it but what a writer under way or a
  dead process put there (`DeletedIsEmpty`), the source stays watched while the
  client may write it (`SourceWatched`), and a claim is taken over only when its
  lease has ended or what was sealed must go (`ClaimTakenOverDuly`).
- `media_backfill`: whatever is approved can be served (`PublishedIsServable`).
- `media_live`: nothing of a closed submission stays retained
  (`ClosedRetainsNothing`), every source is settled (`SourceSettled`), and the
  intent implements `MediaObject`, liveness included (`KeepsPromise`), and
  `UploadLife` (`LivesAsUpload`).
- `draft_media`: `WithinLimit`, `ImagesApart`, `ReviewedAsSubmitted`, every
  upload implements `UploadLife` (`UploadsLiveAlike`), and `PendingIsReadyAgain`: a late verification can make an approval fail with
  `MEDIA_NOT_READY`, but only until the next cleanup.
- `publishing`: `PlacesApart`, `PendingApart` and `KeyUsedOnce` rest on three
  different locks: of the name, of the name together with the actor, and of the
  actor.
- `review`: `OnePlaceEach`, `EventsTellHistory` (a hard deletion never takes a
  row with a history), `DecidedByModerator` (although a role
  is lost between the two transactions of an approval) and `ServedAtOnce`: a call
  that is refused, is refused for a reason that holds while it runs. That a retry
  is told it was done only when it was, and that a draft expires only when idle,
  is part of that.
- `tokens`: `AnsweredAtOnce` and `EveryCallAnswered`. That one credential works
  at most, none once the family is revoked, and that an answered reuse has revoked
  it, follows from `TokenFamily` alone (`PromiseSuffices`).
- `public_media`: `PublicationWhole`, `RevokedOnce`, `TakesEffectAtOnce` (nothing
  is served but what is published at that moment), `RevokedIsErased`,
  `EveryCallAnswered` through deadlocks of hard deletions with approvals and
  revocations.
- `tags`: `TagsResolve`, `PublicWasReviewed`, `ListsAreWhole` (a public tag keeps
  its name, and nobody sees half a list), and `ApprovalsNeverDeadlock`. Proposals that add new tags in opposite orders do
  deadlock, and PostgreSQL aborts one (`Rollback`).
- `migrations`: `RowsFit` (each refusal of 8, 10, 11, 12 and 17 is needed for it),
  `EvidenceKept` (once operations leave records, no sequence of migrations discards
  a record, and none discards the audit, which the checks of 6 and 7 keep out of
  the reach of the unchecked reversal of 2; comments are the exception),
  `SubmissionsKept`, `TagsNotPublished`.
- `backlog`: `PassComplete`, `IdleExpires`, `GivenUpIsDeleted`.

### Bounds, and why they are enough

Two calls of one kind on one target meet in every pair of their steps; a third
actor is there where the code has one (the sweeper, the second waiter for a
tag). One fault or crash is one more than none: a second one meets a state that
some single one has left. In `DraftMedia` two slots and three uploads make the
limit bind while one upload waits for a slot, and two contents make duplicates
and distinct ones. In `Submissions` two submissions are what the pairwise
properties speak of; the two proposals of `publishing` differ in name and spot,
those of `review` share the name and are near each other; one edit of each
submission (`MaxEdits`) reaches every order of an edit with another call, and
`Retried` limits the reuse of the key to the operation of interest. `Standings =
{"user"}` takes the role away from either reviewer at any time. In
`RefreshTokens` three credentials make one rotation after another. In
`PublicMedia` one place has evidence and one has none, which is all that a hard
deletion asks. In `TagVocabulary` the inputs name the new tags in both orders, in
two spellings, twice, not at all and beyond the limit. In `Backlog` a batch of
two is less than the three drafts and a page of one less than the queue;
`MaxActivity` bounds what owners and moderators do, so that `IdleExpires` and
`GivenUpIsDeleted` are about owners who stop in the end: one who locks a draft in
front of every run of the job holds it off for ever, and so do at least a batch
of deletions that always fail.

`CHECK_DEADLOCK FALSE` is in every cfg because the system does come to rest: when
all uploads are deleted, all submissions decided or the credentials used up,
nothing is left to happen. Symmetry is used in runs without liveness only.

### Fairness

The repository says that deployments must schedule `process_media_cleanup`
periodically (README.md 84): the steps of sweepers in `MediaIntent`, the cleanup
in `DraftMedia` and `PublicMedia` and the steps of the job in `Backlog` are fair,
and a started call goes on unless it crashes. Clock times of `MediaIntent` come.
Where a step needs a row lock that others take again and again the fairness is
strong (requests of `RefreshTokens` and `PublicMedia`, `FinishCleanup`), since
PostgreSQL queues the waiters of a row. In `Backlog` the owner's transactions end
(`Unlock`). Nothing is fair about clients, owners, reviewers or moderators.

## What is proved

TLAPS checks, without bounds on calls, uploads, submissions or credentials:

- `MediaIntentProofs`: `RowsConsistent`, `KeptPresent`, `PublishedServable`,
  `ClosedEmpty`, `DeletedEmpty`, `SourceStaysWatched`, `RetirementFinal`,
  `ClaimsTakenOverDuly`, `PromiseSteps`, the safety half of the refinement of
  `MediaObject`, and `RowLives`, the refinement of `UploadLife`. None of the invariants is inductive: that an object is there depends on who is deleting,
  and that it is gone on who is writing. The invariant says what a call in the
  deleting loops may touch and under which claim (`CallInv`), what a writer that
  has not committed can rely on (`StoreInv`), and that a key seen empty is empty
  still or some writer answers for it (`ClaimInv`, `DeletedInv`).
- `SubmissionsProofs`: `PlacesStayApart`, `PendingStayApart`, `OnePlaceForEach`,
  `EventsTellAll`, `KeysUsedOnce`, `ModeratorsDecide` and
  `OnlyIdleDraftsExpire`, and `CallsServedAtOnce`, the refinement of
  `SubmissionService`. What a call read is still true when it writes because
  no two calls hold one lock (`LockInv`): hence the state of its row, its
  authority and the absence of its key (`HeldInv`), and that nothing like its
  proposal has become public or pending since it looked (`CheckedInv`). The
  refinement adds that what is shown as asked is what the call is doing
  (`AskInv`): a call that goes on was allowed and timely when it took its row and
  still is, so that its commit is the moment, and one that declines finds the
  reason in the rows it holds.
- `PublicMediaProofs`: `PublicWhole`, `OneRevocation`, `ServedWhilePublic`, and
  `CatalogueImplemented`, the refinement of `PublicCatalogue`. The
  invariant adds what a hard deletion has found with its locks (`Found`) and that
  an image is whole until it is revoked (`Intact`). For the refinement, a deletion
  that holds its place finds it there still (`Deleting`), because no other one can
  hold it (`Alone`).
- `RefreshTokensProofs`: an inductive invariant (`LocksProtect`) and from it
  `AtMostOneLive`, `DeadOnceRevoked`, `SuccessorsInLine`, `ReuseAnsweredRevokes`,
  and `RequestsAnsweredAtOnce`, the refinement of `TokenFamily`.
  `OneLive` alone is not inductive: what a request has decided is still true when
  it writes only because it holds the rows it read, so the invariant says which
  rows a request holds at each point (`Holding`), that what it read is what is
  there (`Fresh`), and that successors are issued once and in line.
- `DraftMediaProofs`: `LimitKept`, `SlotsReservedOnce`, `AttachmentsDistinct`,
  `RowsMatchImages`, `ReviewedUnchanged`, and `EachUploadLives`, the refinement of
  `UploadLife` by every upload. The invariant adds to the properties
  that every reservation has a slot (`ReservationsPlaced`): only then is a new
  attachment an image at a place, and only with all of them together do the two
  sets exchange an upload without growing (`AttachStep`) and are the positions
  counted from zero places within the limit (`ReorderStep`).
- `TagVocabularyProofs`: `LinksResolve`, `NamesReviewed`, `PublicTagsStay`,
  `NoDeadlock` and `ListsAcceptedWhole`, the refinement of `Vocabulary`. A call that waited is sure of a row (`CallFits`), because only the
  transaction that inserted a row can take it back. The keys order the tags
  (`KeysOrder`): every set of tags has a first and a last one, so an approval has
  a next lock, and a circle of approvals would have a last lock, whose holder
  waits for a later one. For the refinement, an uncommitted row is one of the
  list of a proposal at work (`OwnRow`) that was accepted (`ListFits`), so that its
  commit adds just the tags of the list that nobody had.
- `BacklogProofs`: `PassIsComplete`. What a pass has shown goes up in the order of
  the queue, and what has waited since it began is shown or behind the cursor
  (`NotPassedBy`).
- `MigrationsProofs`: `ReleasesCanRead`, `AlwaysSealed`, `RecordedIsKept`,
  `MeaningsKept`, `TagsStayPrivate`, from the invariant that the rows fit the
  schema. It tells that there are no records below migration 6 (`NoRecordsBefore`),
  so that the reversal of 2, which drops the audit, never meets any
  (`RecordsProtect`).

That the abstract specifications say enough is proved of them alone, by invariants
that know no locks: `PromiseSuffices` (`OneLive`, `RevokedFamilyIsDead`,
`ReuseIsAnswered`), `ServiceSuffices` (`PlacesApart`, `PendingApart`,
`OnePlaceEach`, `EventsTellHistory`, `KeyUsedOnce`, `OnlyIdleExpires`),
`CatalogueSuffices` (`ServedAsPublished`) and `ListsSuffice` (`TagsResolve`,
`PublicWasReviewed`, and of `PublicIsFinal` what is seen of a tag). So the runs
`tokens`, `review`, `public_media` and `tags` check the refinement in place of
`OneLive`, `RevokedFamilyIsDead`, `ReuseIsAnswered`, `OnlyIdleExpires`,
`ServedAsPublished` and `PublicIsFinal`; these stay theorems of the detailed
specifications too.

All of these modules but `BacklogProofs` prove type correctness as well: the order
of the drafts and the batches of `Backlog` are made by `SelectSeq`, and what that
recursion returns takes an induction over sequences. Assumptions: the named
`ASSUME`s of the modules (a limit is a natural number, nearness is symmetric,
`None` is none of the values, calls of different kinds are apart, and the like);
TLC evaluates them in every run.

Only model-checked: all liveness (out of the prover's reach), among it that of
`KeepsPromise`.

## Findings

`submission_found`: a finalization or withdrawal that waits for an edit with a
new address answers NOT_FOUND for a submission that is there. A retry works. The
repository's own race test keeps the address and does not meet it.

## Known limits

What the code does not prevent, met while modelling; where it is modelled the
properties are stated around it.

- Bytes that a client sends under an authorization that outlives the deletion of
  its intent are never collected (media.py 1714; moderation.py 506 relies on
  there being none). `DeletedIsEmpty` is about the other two objects.
- Bytes sent between the last absence check of the source cleanup and the
  transaction that settles it stay (media.py 1822, although media.py 999 wants a
  final cleanup).
- A reuse that is detected while the live credential is being refreshed
  deadlocks with that refresh; if PostgreSQL aborts the reuse, the family stays
  good and the client gets an error (tokens.py 155; README.md 363).
- A reordering during a verification may give the reserved slot to another image;
  the attachment is then refused with `MEDIA_SLOT_CONFLICT` until that image is
  moved or removed (media.py 1364).
- An edit of a place that read it before a hard deletion inserts it again,
  without its map row (views.py 246).
- Reversing migration 5 keeps the tags that only submissions name, and applying
  it again makes them public. Reversing 17 drops what was published, 14 the
  comments of events (the last one stays on the submission), 2 the owners and the
  audit of moderation, without a check; `EvidenceKept` says when the audit is safe
  from that.
- As many deletions that always fail as a batch holds keep every other deletion
  from being tried (media.py 1901).
- The queue without a cursor, kept for old clients, shows its first page only.
- Two like submissions that were both pending before migration 6 stay so
  (`PendingApart` leaves them out), and places approved before there was evidence
  are in `PublicMedia` only.

## Not modelled, and why

Validation and normalization of input other than tags, hashes and response texts
are data that no property here tells apart. The GraphQL and REST layers,
serializers and settings keep no state; the preview authorization and the
redaction of expired upload authorizations change nothing another step reads.
Edits of tags, categories and places in the Django admin and the creation of
places by POST are unguarded single writes of trusted staff. Search, viewport
and statistics are read-only SQL, whose plan is what matters. Seeding, account
commands and health checks run outside of the service. Signatures, digests and
JWTs are taken to do what they are for.

## Plan

Done: all modules above and their proofs, the refinements of the abstract
specifications and what these imply among them. What could follow: what is left of
the properties of `PublicMedia` (`RevokedOnce`) and `Submissions`
(`DecidedByModerator`) proved of their abstract specifications;
the composition of `Submissions` with `DraftMedia` in one module, so that the
readiness of the media is a state there and no choice.

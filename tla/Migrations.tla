----------------------------- MODULE Migrations -----------------------------
(***************************************************************************)
(* The migrations of the database, forwards and backwards, with releases   *)
(* of the application in service between them (backend/migrations/).       *)
(*                                                                         *)
(* A migration is one transaction: it is applied as a whole or refuses.    *)
(* Forwards it refuses what it cannot translate, backwards what it would   *)
(* lose, by a check of its own or by a constraint that it restores and     *)
(* the rows violate; three drop something without either.  Between         *)
(* migrations the application may write whatever the schema of the time    *)
(* admits.  Rows that administrators delete are left out: what remains is  *)
(* a database in which there never were any, but for the audit.            *)
(***************************************************************************)
EXTENDS Naturals

CONSTANTS
    Requests,  \* the submissions
    Tags       \* canonical forms of tags

VARIABLES
    level,      \* the number of the last migration applied
    categories, \* "initial" while they are those of the first migration
    owned,      \* the submissions whose owner is known
    state,      \* of each submission; "off" and "on" are the flag of the first
                \* releases, "absent" is no row
    tags,       \* the tags each request names, in either representation
    legible,    \* every legacy tag array can be translated
    tag,        \* the Tag rows; before 5 all of them are public
    narrow,     \* address labels and place names are set and distinct, and
                \* descriptions are set
    evidence,   \* the kinds of evidence of what was done that there are
    intents,    \* the kinds of media upload intents there are
    published   \* there are public renditions

rows == <<owned, state, tags, legible, tag, narrow>>
media == <<intents, published>>
vars == <<level, categories, rows, evidence, media>>

-----------------------------------------------------------------------------
States == {"draft", "pending", "withdrawn", "expired", "approved", "rejected"}
Flags == {"off", "on"}

\* The migrations since which there is evidence of a kind: the names of the
\* first release, which nobody vouches for; the audit of moderators; the events
\* and records of operations on submissions, of expiry by a user until expiry by
\* the system replaced it, of media, their removal and reordering, and the
\* revocation of what was published; the comments of the events.
Since == [names |-> 1, audit |-> 2, submission |-> 6, user_expiry |-> 6,
          media |-> 7, edit |-> 10, system_expiry |-> 11, arrange |-> 12,
          comment |-> 14, revoke |-> 17]
Kinds == DOMAIN Since
Operations == Kinds \ {"names", "audit", "comment"}
Admitted(k) == {o \in Kinds : /\ Since[o] <= k
                              /\ o = "names" => k < 2
                              /\ o = "user_expiry" => k < 11}

\* Intents that hold no image yet, that keep it under the key the client can
\* write, there with an area over the limit of migration 8, and that keep it
\* sealed.
Intents == {"open", "unsealed", "large", "sealed"}

TypeOK ==
    /\ level \in 1..17
    /\ categories \in {"initial", "other"}
    /\ owned \subseteq Requests
    /\ state \in [Requests -> States \cup Flags \cup {"absent"}]
    /\ tags \in [Requests -> SUBSET Tags]
    /\ tag \in [Tags -> {"none", "private", "public"}]
    /\ legible \in BOOLEAN
    /\ narrow \in BOOLEAN
    /\ evidence \subseteq Kinds
    /\ intents \subseteq Intents
    /\ published \in BOOLEAN

\* A new database, with rows of the first release.
Init ==
    /\ level = 1
    /\ categories = "initial"
    /\ owned = {}
    /\ state \in [Requests -> Flags \cup {"absent"}]
    /\ tags \in [Requests -> SUBSET Tags]
    /\ \A r \in Requests : state[r] = "absent" => tags[r] = {}
    /\ tag \in [Tags -> {"none", "public"}]
    /\ legible \in BOOLEAN
    /\ narrow = TRUE
    /\ evidence \in SUBSET {"names"}
    /\ intents = {}
    /\ published = FALSE

There == {r \in Requests : state[r] # "absent"}

-----------------------------------------------------------------------------
\* The migrations

NoRowChanges == UNCHANGED <<categories, rows, evidence, media>>

\* Submissions get an owner, whom nobody knows yet, the names that nobody vouches
\* for are cleared, and there is an audit.  Backwards owners and audit are
\* dropped, without a check.
Ownership(dir) ==
    /\ owned' = {}
    /\ evidence' = evidence \ {IF dir = "up" THEN "names" ELSE "audit"}
    /\ UNCHANGED <<categories, state, tags, legible, tag, narrow, media>>

\* The tables of sessions: not among these rows.
Sessions == NoRowChanges

\* Slugs are issued to the initial categories, only if there are no others.
Slugs(dir) ==
    /\ dir = "up" => categories = "initial"
    /\ NoRowChanges

\* Mutant: the rows made for the arrays are public like those before them.
TagsUp_Public ==
    /\ legible
    /\ tag' = [t \in Tags |->
                  IF \E r \in Requests : t \in tags[r] THEN "public" ELSE tag[t]]
    /\ UNCHANGED <<categories, owned, state, tags, legible, narrow, evidence, media>>

\* The tags that are there are public; those that only requests name become
\* private rows.
TagsUp ==
    /\ legible
    /\ tag' = [t \in Tags |->
                  IF tag[t] = "none" /\ \E r \in Requests : t \in tags[r]
                  THEN "private" ELSE tag[t]]
    /\ UNCHANGED <<categories, owned, state, tags, legible, narrow, evidence, media>>

\* Each request gets its array back; the private rows stay and nothing tells
\* them from the others.
TagsDown ==
    /\ tag' = [t \in Tags |-> IF tag[t] = "private" THEN "public" ELSE tag[t]]
    /\ UNCHANGED <<categories, owned, state, tags, legible, narrow, evidence, media>>

\* Mutant: the flag is not looked at.
StatesUp_Pending ==
    /\ There \subseteq owned
    /\ state' = [r \in Requests |-> IF r \in There THEN "pending" ELSE "absent"]
    /\ UNCHANGED <<categories, owned, tags, legible, tag, narrow, evidence, media>>

\* Submissions without an owner are refused, the others get a state, with
\* which a constraint then keeps the flag in step.
StatesUp ==
    /\ There \subseteq owned
    /\ state' = [r \in Requests |-> CASE state[r] = "on"  -> "approved"
                                      [] state[r] = "off" -> "pending"
                                      [] OTHER            -> "absent"]
    /\ UNCHANGED <<categories, owned, tags, legible, tag, narrow, evidence, media>>

\* Mutant: only the states are looked at.
Lossless_States ==
    /\ \A r \in There : state[r] \in {"pending", "approved"}
    /\ narrow

\* assert_reverse_is_lossless, and the descriptions that must be set again.
Lossless ==
    /\ evidence \cap Operations = {}
    /\ \A r \in There : state[r] \in {"pending", "approved"}
    /\ narrow

\* The state column and the tables of events and records go.
StatesDown ==
    /\ Lossless
    /\ state' = [r \in Requests |-> CASE state[r] = "approved" -> "on"
                                      [] state[r] = "pending"  -> "off"
                                      [] OTHER                 -> "absent"]
    /\ evidence' = evidence \ Operations
    /\ UNCHANGED <<categories, owned, tags, legible, tag, narrow, media>>

\* Backwards, the intents and the column that ties records to them go; there
\* must be none.
OwnedMedia(dir) ==
    IF dir = "up" THEN NoRowChanges
    ELSE /\ intents = {} /\ "media" \notin evidence
         /\ intents' = {} /\ evidence' = evidence \ {"media"}
         /\ UNCHANGED <<categories, rows, published>>

\* No image may be larger than the limit, those that are there included.
AreaLimit(dir) ==
    /\ dir = "up" => "large" \notin intents
    /\ NoRowChanges

\* Every intent gets a key for its sealed copy; a migration of the database
\* cannot seal the images taken before, and refuses them.
SealedMedia(dir) ==
    /\ IF dir = "up" THEN intents \subseteq {"open"} ELSE intents = {}
    /\ NoRowChanges

\* Mutant: the reversal checks the states of the submissions only.
DraftEdit_Unchecked(dir) == NoRowChanges

\* refuse_lossy_edit_reverse
DraftEdit(dir) ==
    /\ dir = "down" => "edit" \notin evidence
    /\ NoRowChanges

\* Expiry is the system's: evidence of the other kind is refused either way.
SystemExpiry(dir) ==
    /\ (IF dir = "up" THEN "user_expiry" ELSE "system_expiry") \notin evidence
    /\ NoRowChanges

\* Backwards, the constraint on operations is restored and the records of the
\* newer ones violate it.
Arranging(dir) ==
    /\ dir = "down" => "arrange" \notin evidence
    /\ NoRowChanges

\* Backwards, the column of the comments goes without a check.
Comments(dir) ==
    /\ evidence' = IF dir = "up" THEN evidence ELSE evidence \ {"comment"}
    /\ UNCHANGED <<categories, rows, media>>

\* What audits and events refer to cannot be deleted any more.
Protection == NoRowChanges

\* Indexes of the queue and of the search, which no row can violate.
Indexes == NoRowChanges

\* Renditions get keys but no bytes; backwards their table goes, and with it
\* whatever was published.
Renditions(dir) ==
    /\ dir = "down" => "revoke" \notin evidence
    /\ published' = FALSE
    /\ UNCHANGED <<categories, rows, evidence, intents>>

Change(k, dir) ==
    CASE k = 2  -> Ownership(dir)
      [] k = 3  -> Sessions
      [] k = 4  -> Slugs(dir)
      [] k = 5  -> IF dir = "up" THEN TagsUp ELSE TagsDown
      [] k = 6  -> IF dir = "up" THEN StatesUp ELSE StatesDown
      [] k = 7  -> OwnedMedia(dir)
      [] k = 8  -> AreaLimit(dir)
      [] k = 9  -> SealedMedia(dir)
      [] k = 10 -> DraftEdit(dir)
      [] k = 11 -> SystemExpiry(dir)
      [] k = 12 -> Arranging(dir)
      [] k = 14 -> Comments(dir)
      [] k = 15 -> Protection
      [] k = 17 -> Renditions(dir)
      [] OTHER  -> Indexes

Up == level < 17 /\ level' = level + 1 /\ Change(level + 1, "up")
Down == level > 1 /\ level' = level - 1 /\ Change(level, "down")

-----------------------------------------------------------------------------
\* The application, as far as the schema of the time admits

\* A submission is made; with states it is a draft and leaves evidence.  The
\* first release takes its owner's name from the client.
Submit(r) ==
    /\ r \notin There
    /\ owned' = IF level < 2 THEN owned ELSE owned \cup {r}
    /\ state' = [state EXCEPT ![r] = IF level < 6 THEN "off" ELSE "draft"]
    /\ evidence' = evidence \cup (CASE level < 2  -> {"names"}
                                   [] level >= 6 -> {"submission"}
                                   [] OTHER      -> {})
    /\ UNCHANGED <<level, categories, tags, legible, tag, narrow, media>>

\* An administrator adds a category, or tells whose a submission is.
AddCategory ==
    /\ categories' = "other"
    /\ UNCHANGED <<level, rows, evidence, media>>
Adopt(r) ==
    /\ level >= 2 /\ r \in There
    /\ owned' = owned \cup {r}
    /\ UNCHANGED <<level, categories, state, tags, legible, tag, narrow, evidence, media>>

\* A submission not reviewed yet names other tags.  The arrays of the first
\* releases hold anything.
Retag(r, named) ==
    /\ state[r] \in {"off", "draft"}
    /\ tags' = [tags EXCEPT ![r] = named]
    /\ IF level < 5
       THEN legible' \in BOOLEAN /\ UNCHANGED tag
       ELSE /\ tag' = [t \in Tags |-> IF t \in named /\ tag[t] = "none"
                                      THEN "private" ELSE tag[t]]
            /\ UNCHANGED legible
    /\ UNCHANGED <<level, categories, owned, state, narrow, evidence, media>>

\* An approval makes the tags public; without states it is a flag, and of the
\* moderator there is a name or an audit.
Promoted(r) == [t \in Tags |-> IF t \in tags[r] THEN "public" ELSE tag[t]]
Approve(r) ==
    /\ state[r] = "off"
    /\ state' = [state EXCEPT ![r] = "on"]
    /\ tag' = Promoted(r)
    /\ evidence' = evidence \cup {IF level < 2 THEN "names" ELSE "audit"}
    /\ UNCHANGED <<level, categories, owned, tags, legible, narrow, media>>

\* With states, every change is one the constraint on events knows, and
\* leaves an event, with a comment if a reviewer gives one.
Transitions == [draft |-> {"pending", "withdrawn", "expired"},
                pending |-> {"withdrawn", "approved", "rejected"}]
Kind(to) == IF to # "expired" THEN "submission"
            ELSE IF level < 11 THEN "user_expiry" ELSE "system_expiry"
Given(to) == IF level >= 14 /\ to \in {"approved", "rejected"}
             THEN {{}, {"comment"}} ELSE {{}}
Move(r, to) ==
    /\ state[r] \in DOMAIN Transitions
    /\ to \in Transitions[state[r]]
    /\ state' = [state EXCEPT ![r] = to]
    /\ tag' = IF to = "approved" THEN Promoted(r) ELSE tag
    /\ \E comment \in Given(to) : evidence' = evidence \cup {Kind(to)} \cup comment
    /\ UNCHANGED <<level, categories, owned, tags, legible, narrow, media>>

\* The other operations on drafts leave records, and a revocation of what was
\* published leaves an audit as well.
Drafting == \E r \in Requests : state[r] = "draft"
Record(o) ==
    /\ o \in Admitted(level)
    /\ o \in {"edit", "arrange"} /\ Drafting
    /\ evidence' = evidence \cup {o}
    /\ UNCHANGED <<level, categories, rows, media>>
Revoke ==
    /\ level = 17 /\ published
    /\ evidence' = evidence \cup {"revoke", "audit"}
    /\ UNCHANGED <<level, categories, rows, media>>

\* An administrator deletes a submission or a place.
Audit ==
    /\ level >= 2
    /\ evidence' = evidence \cup {"audit"}
    /\ UNCHANGED <<level, categories, rows, media>>

\* An address, a place or a submission gets or loses what the first releases
\* require.
Label ==
    /\ level >= 6
    /\ narrow' \in BOOLEAN
    /\ UNCHANGED <<level, categories, owned, state, tags, legible, tag, evidence, media>>

\* A client reserves an upload; its image is taken, since migration 8 only if its
\* area is within the limit; it is published.
Reserve ==
    /\ level >= 7 /\ Drafting
    /\ evidence' = evidence \cup {"media"}
    /\ intents' = intents \cup {"open"}
    /\ UNCHANGED <<level, categories, rows, published>>
Verify ==
    /\ "open" \in intents
    /\ \E taken \in CASE level < 8 -> {"unsealed", "large"}
                       [] level = 8 -> {"unsealed"}
                       [] OTHER     -> {"sealed"} : intents' = intents \cup {taken}
    /\ UNCHANGED <<level, categories, rows, evidence, published>>
Publish ==
    /\ level = 17 /\ "sealed" \in intents
    /\ published' = TRUE
    /\ UNCHANGED <<level, categories, rows, evidence, intents>>

Next ==
    \/ Up \/ Down
    \/ AddCategory \/ Audit \/ Label \/ Revoke \/ Reserve \/ Verify \/ Publish
    \/ \E r \in Requests :
          \/ Submit(r) \/ Adopt(r) \/ Approve(r)
          \/ \E named \in SUBSET Tags : Retag(r, named)
          \/ \E to \in States : Move(r, to)
    \/ \E o \in Operations : Record(o)

Spec == Init /\ [][Next]_vars

-----------------------------------------------------------------------------
\* What a migration may never do

\* Whatever was applied and reversed in between, the rows that are there fit
\* the schema, so that the release that goes with it can read them: every
\* submission with states has its owner, and no reversal leaves the evidence of
\* a newer operation behind.
RowsFit ==
    /\ evidence \subseteq Admitted(level)
    /\ IF level < 6
       THEN narrow /\ \A r \in There : state[r] \in Flags
       ELSE There \subseteq owned /\ \A r \in There : state[r] \in States
    /\ level < 7 => intents = {}
    /\ level >= 8 => "large" \notin intents

\* Once there are records of operations, no sequence of migrations discards a
\* record, nor the audit that the reversal of 2 drops without a check: the checks
\* in between never let it get there.  Only the comments of events can go, when 14
\* is reversed.
EvidenceKept ==
    [][level' # level /\ evidence \cap Operations # {}
           => evidence \ {"comment"} \subseteq evidence']_vars

\* A submission means the same before and after a migration: what was approved
\* is approved, what awaited review awaits it, and nothing else appears.
Meaning(r) == CASE state[r] = "on"  -> "approved"
                [] state[r] = "off" -> "pending"
                [] OTHER            -> state[r]
SubmissionsKept == [][level' # level => \A r \in Requests : Meaning(r)' = Meaning(r)]_vars

\* Migrating forwards publishes no tag that only submissions named.
TagsNotPublished ==
    [][level' > level => \A t \in Tags : tag'[t] = "public" => tag[t] = "public"]_vars

\* Since images are sealed, none is kept where its client can still write.
SealedOrAbsent == level >= 9 => intents \subseteq {"open", "sealed"}
=============================================================================

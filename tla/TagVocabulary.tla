--------------------------- MODULE TagVocabulary ---------------------------
(***************************************************************************)
(* The tags all submissions share: a proposal names tags, new ones are     *)
(* private, and the approval of a proposal makes its tags public under the *)
(* spelling it gave them (tagging.py, submissions.py, moderation.py).      *)
(*                                                                         *)
(* Two proposals that add one new tag, and an approval of either, work on  *)
(* one row.  A row that a transaction inserted is invisible to the others  *)
(* until it commits, and the unique canonical form makes them wait for it; *)
(* the foreign keys are checked at the commit and lock the tags once more. *)
(* Each wait is a step.  A call begins when it has its submission's row.   *)
(***************************************************************************)
EXTENDS Naturals, Sequences

CONSTANTS
    Calls,      \* requests in progress at once
    Requests,   \* the submissions
    Tags,       \* canonical forms
    Displays,   \* spellings, in Unicode normal form and trimmed
    Canonical,  \* the case-folded form of each
    Inputs,     \* the lists of spellings that clients send
    MaxTags,    \* MAX_SUBMISSION_TAGS
    Legacy,     \* the names of the tags from before, in the order of their keys
    None

ASSUME CanonicalAssumption == Canonical \in [Displays -> Tags]
ASSUME InputsAssumption == Inputs \subseteq Seq(Displays)
ASSUME LegacyAssumption ==
    /\ Legacy \in Seq(Displays)
    /\ \A i, j \in DOMAIN Legacy :
           Canonical[Legacy[i]] = Canonical[Legacy[j]] => i = j
ASSUME NoneAssumption ==
    MaxTags \in Nat /\ None \notin Displays \cup Calls \cup Requests

VARIABLES
    tag,      \* the Tag row of each canonical form, if any
    older,    \* the order of their primary keys, as pairs
    request,  \* the Request rows with their RequestTag rows
    place,    \* the tags of the Place each submission became
    call

vars == <<tag, older, request, place, call>>

-----------------------------------------------------------------------------
Row == [name: Displays \cup {None},  \* None: there is no such row
        public: BOOLEAN,
        by: Calls \cup {None}]       \* the transaction that inserts it
Request == [state: {"none", "draft", "pending", "approved", "closed"},
            links: Seq(Displays)]
\* What a request works on, tag by tag, and how far it has come.
Call == [pc: {"idle", "attach", "check", "lock"},
         request: Requests \cup {None},
         links: Seq(Displays),  \* the tags it works on, as spelled
         done: SUBSET Tags]     \* those it has found, checked or locked

TypeOK ==
    /\ tag \in [Tags -> Row]
    /\ older \subseteq Tags \X Tags
    /\ request \in [Requests -> Request]
    /\ place \in [Requests -> SUBSET Tags]
    /\ call \in [Calls -> Call]

Existing == {t \in Tags : tag[t].name # None}
TagsOf(links) == {Canonical[links[i]] : i \in DOMAIN links}

Idle == [pc |-> "idle", request |-> None, links |-> <<>>, done |-> {}]
Absent == [name |-> None, public |-> FALSE, by |-> None]

\* The migration that introduced private tags made every tag there was public.
Init ==
    /\ tag = [t \in Tags |->
                 IF t \in TagsOf(Legacy)
                 THEN [name |-> CHOOSE d \in Displays :
                                    \E i \in DOMAIN Legacy :
                                        d = Legacy[i] /\ Canonical[d] = t,
                       public |-> TRUE, by |-> None]
                 ELSE Absent]
    /\ older = {pair \in Tags \X Tags :
                    \E i, j \in DOMAIN Legacy :
                        i < j /\ pair = <<Canonical[Legacy[i]],
                                         Canonical[Legacy[j]]>>}
    /\ request = [r \in Requests |-> [state |-> "none", links |-> <<>>]]
    /\ place = [r \in Requests |-> {}]
    /\ call = [c \in Calls |-> Idle]

-----------------------------------------------------------------------------
\* Locks

At(c, pc) == call[c].pc = pc
Todo(c) == TagsOf(call[c].links) \ call[c].done

\* Attaching and the checks at the commit go by the order of the input.
NextLink(c) ==
    call[c].links[CHOOSE i \in DOMAIN call[c].links :
                      /\ Canonical[call[c].links[i]] \in Todo(c)
                      /\ \A j \in 1..(i - 1) :
                             Canonical[call[c].links[j]] \notin Todo(c)]

\* Mutant: an approval locks its tags in the order of its links.
NextLock_Links(c) == Canonical[NextLink(c)]

\* An approval locks its tags in the order of their keys.
NextLock(c) ==
    CHOOSE t \in Todo(c) : \A u \in Todo(c) : <<u, t>> \notin older

NextTag(c) == IF At(c, "lock") THEN NextLock(c) ELSE Canonical[NextLink(c)]

\* Whether d makes c wait: by a row that it inserted and has not committed, or
\* by a lock on it, FOR UPDATE in an approval and FOR KEY SHARE at a commit.
Blocks(d, c) ==
    /\ d # c /\ Todo(c) # {}
    /\ \/ At(c, "attach") /\ tag[NextTag(c)].by = d
       \/ /\ At(c, "check") /\ At(d, "lock")
          /\ NextTag(c) \in call[d].done
       \/ /\ At(c, "lock") /\ call[d].pc \in {"lock", "check"}
          /\ NextTag(c) \in call[d].done

Free(c) == \A d \in Calls : ~Blocks(d, c)

RequestFree(r) == \A c \in Calls : call[c].request # r

Begin(c, pc, r, links) ==
    /\ At(c, "idle") /\ RequestFree(r)
    /\ call' = [call EXCEPT ![c] = [pc |-> pc, request |-> r, links |-> links,
                                    done |-> {}]]
    /\ UNCHANGED <<tag, older, request, place>>

\* The call has dealt with its next tag.
Did(c) == call' = [call EXCEPT ![c].done = @ \cup {NextTag(c)}]

End(c) == call' = [call EXCEPT ![c] = Idle]

-----------------------------------------------------------------------------
\* Proposals

\* normalize_submission_tags
Accepted(input) ==
    /\ Len(input) <= MaxTags
    /\ \A i, j \in DOMAIN input :
           Canonical[input[i]] = Canonical[input[j]] => i = j

\* create_submission and edit_submission, which drops the tags there were.
Propose(c, r, input) ==
    /\ request[r].state \in {"none", "draft"} /\ Accepted(input)
    /\ Begin(c, "attach", r, input)

\* Mutant: a row counts as soon as it is inserted.
Attach_Uncommitted(c) ==
    LET t == NextTag(c) IN
    /\ At(c, "attach") /\ Todo(c) # {}
    /\ IF tag[t].name = None
       THEN /\ tag' = [tag EXCEPT ![t] = [name |-> NextLink(c), public |-> FALSE,
                                          by |-> c]]
            /\ older' = older \cup (Existing \X {t})
       ELSE UNCHANGED <<tag, older>>
    /\ Did(c)
    /\ UNCHANGED <<request, place>>

\* get_or_create of the next tag.
Attach(c) ==
    LET t == NextTag(c) IN
    /\ At(c, "attach") /\ Todo(c) # {} /\ Free(c)
    /\ IF tag[t].name = None
       THEN /\ tag' = [tag EXCEPT ![t] = [name |-> NextLink(c), public |-> FALSE,
                                          by |-> c]]
            /\ older' = older \cup (Existing \X {t})
       ELSE UNCHANGED <<tag, older>>
    /\ Did(c)
    /\ UNCHANGED <<request, place>>

\* Every link is written: the commit begins.
Attached(c) ==
    /\ At(c, "attach") /\ Todo(c) = {}
    /\ call' = [call EXCEPT ![c].pc = "check", ![c].done = {}]
    /\ UNCHANGED <<tag, older, request, place>>

\* The deferred foreign key of the next link.
Check(c) ==
    /\ At(c, "check") /\ Todo(c) # {} /\ Free(c)
    /\ Did(c)
    /\ UNCHANGED <<tag, older, request, place>>

Commit(c) ==
    /\ At(c, "check") /\ Todo(c) = {}
    /\ request' = [request EXCEPT ![call[c].request] =
                       [state |-> "draft", links |-> call[c].links]]
    /\ tag' = [t \in Tags |-> IF tag[t].by = c THEN [tag[t] EXCEPT !.by = None]
                                               ELSE tag[t]]
    /\ End(c)
    /\ UNCHANGED <<older, place>>

\* finalize_submission; withdrawal, rejection and expiry.
Move(r, from, to) ==
    /\ request[r].state \in from /\ RequestFree(r)
    /\ request' = [request EXCEPT ![r].state = to]
    /\ UNCHANGED <<tag, older, place, call>>
Finalize(r) == Move(r, {"draft"}, "pending")
Close(r) == Move(r, {"draft", "pending"}, "closed")

-----------------------------------------------------------------------------
\* Approval

Approve(c, r) ==
    /\ request[r].state = "pending"
    /\ Begin(c, "lock", r, request[r].links)

Lock(c) ==
    /\ At(c, "lock") /\ Todo(c) # {} /\ Free(c)
    /\ Did(c)
    /\ UNCHANGED <<tag, older, request, place>>

\* Mutant: a tag that is public already is renamed as well.
Promoted_Always(row, d) == [row EXCEPT !.name = d, !.public = TRUE]

\* Mutant: the tag keeps the spelling of whoever added it.
Promoted_FirstName(row, d) == [row EXCEPT !.public = TRUE]

Promoted(row, d) ==
    IF row.public THEN row ELSE [row EXCEPT !.name = d, !.public = TRUE]

Promote(c) ==
    LET r == call[c].request
        links == call[c].links
    IN
    /\ At(c, "lock") /\ Todo(c) = {}
    /\ tag' = [t \in Tags |->
                  IF t \in TagsOf(links)
                  THEN Promoted(tag[t], CHOOSE d \in Displays :
                                            \E i \in DOMAIN links :
                                                d = links[i] /\ Canonical[d] = t)
                  ELSE tag[t]]
    /\ place' = [place EXCEPT ![r] = TagsOf(links)]
    /\ request' = [request EXCEPT ![r].state = "approved"]
    /\ End(c)
    /\ UNCHANGED older

\* A transaction that fails, is lost or is chosen to break a deadlock takes its
\* rows with it.
Rollback(c) ==
    /\ ~At(c, "idle")
    /\ tag' = [t \in Tags |-> IF tag[t].by = c THEN Absent ELSE tag[t]]
    /\ older' = {pair \in older : tag[pair[1]].by # c /\ tag[pair[2]].by # c}
    /\ End(c)
    /\ UNCHANGED <<request, place>>

-----------------------------------------------------------------------------
Next ==
    \/ \E c \in Calls :
           \/ \E r \in Requests :
                  Approve(c, r) \/ \E input \in Inputs : Propose(c, r, input)
           \/ Attach(c) \/ Attached(c) \/ Check(c) \/ Commit(c)
           \/ Lock(c) \/ Promote(c) \/ Rollback(c)
    \/ \E r \in Requests : Finalize(r) \/ Close(r)

Spec == Init /\ [][Next]_vars

-----------------------------------------------------------------------------
\* What refers to a tag refers to a row that stays, although the call that
\* inserted it might have failed, and public places have public tags
\* (attach_request_tags, _promote_tags_and_materialize_place).
TagsResolve ==
    \A r \in Requests :
        /\ \A t \in TagsOf(request[r].links) : tag[t].name # None /\ tag[t].by = None
        /\ \A t \in place[r] : tag[t].public
        /\ request[r].state = "approved" => place[r] = TagsOf(request[r].links)

\* A tag is public under a name that was reviewed: that of a legacy tag, or
\* the spelling of an approved submission, whoever typed it first.
PublicWasReviewed ==
    \A t \in Tags : tag[t].public =>
        /\ Canonical[tag[t].name] = t /\ tag[t].by = None
        /\ \/ \E i \in DOMAIN Legacy : Legacy[i] = tag[t].name
           \/ \E r \in Requests :
                  /\ request[r].state = "approved"
                  /\ \E i \in DOMAIN request[r].links :
                         request[r].links[i] = tag[t].name

\* What everybody sees of the tags: the rows that are committed.
Committed ==
    [t \in Tags |-> IF tag[t].by = None THEN tag[t].name ELSE None]

Shared == INSTANCE Vocabulary
              WITH name <- Committed, public <- {t \in Tags : tag[t].public}

\* Although a proposal inserts and links its tags one after the other, next to
\* others that insert the same ones, and may fail anywhere, its list is accepted
\* as a whole or not at all, and so are the tags of an approval
\* (attach_request_tags, _promote_tags_and_materialize_place).
ListsAreWhole == Shared!Spec

\* A public tag is never renamed or withdrawn by what others propose later.
PublicIsFinal ==
    [][\A t \in Tags : tag[t].public => tag'[t] = tag[t]]_vars

\* Approvals never wait for each other in a circle, whatever tags they share
\* (the locks are taken in the order of the keys).
ApprovalsNeverDeadlock ==
    \A cycle \in SUBSET {c \in Calls : At(c, "lock")} :
        cycle # {} => \E c \in cycle : \A d \in cycle : ~Blocks(d, c)
=============================================================================

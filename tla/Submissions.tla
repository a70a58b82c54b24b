---------------------------- MODULE Submissions ----------------------------
(***************************************************************************)
(* The life of the submissions and of what becomes public of them:         *)
(* creation, edits, finalization, withdrawal, review, the expiry of idle   *)
(* drafts and the deletion of a row that left no evidence (submissions.py, *)
(* moderation.py, submission_expiry.py).                                   *)
(*                                                                         *)
(* A call takes the row of the submission, then the row of its actor,      *)
(* then, to finalize or approve, the advisory lock of the place's name;    *)
(* each is a step, and the locks go when the transaction ends.  What the   *)
(* media of a submission allow is DraftMedia's: here they may be ready or  *)
(* not.                                                                    *)
(***************************************************************************)
EXTENDS Naturals, Sequences

CONSTANTS
    Calls,            \* requests in progress at once
    Accounts,
    Subs,             \* the submissions ever created: a bound
    Legacy,           \* those that may be older than lifecycle events
    Proposals,        \* what can be proposed: records with a name and a spot
    Near,             \* the pairs of spots within 25 metres
    Keys,             \* idempotency keys that clients use again
    Ops,              \* the operations that are called
    Retried,          \* those that are called with keys in Keys
    Standings,        \* what accounts are made meanwhile
    DraftsAge,        \* whether drafts become idle and expire
    MaxEdits,         \* bound on the edits of a submission: none begins after
    None

Standing == {"inactive", "user", "moderator", "admin"}

ASSUME StandingsAssumption == Standings \subseteq Standing
ASSUME LegacyAssumption == Legacy \subseteq Subs
ASSUME NearAssumption == \A pair \in Near : <<pair[2], pair[1]>> \in Near

VARIABLES
    request,    \* the Request rows
    event,      \* the SubmissionLifecycleEvent rows of each, in order
    place,      \* the Place rows, each with the submission it came from
    record,     \* the SubmissionIdempotency rows under keys in Keys
    account,    \* what each CustomUser may do
    idle,       \* the drafts without activity for thirty days
    due,        \* one that the expiry job has found and not yet come to
    call        \* the requests in progress

rows == <<request, event, place, record>>
drafts == <<idle, due>>
vars == <<rows, account, drafts, call>>

-----------------------------------------------------------------------------
Reviews == {"approve", "reject"}
Named == {"finalize", "approve"}
Open == {"draft", "pending"}
State == Open \cup {"none", "withdrawn", "expired", "approved", "rejected",
                   "removed"}
Moderators == {"moderator", "admin"}

\* The states an operation is for, and the state it leads to.
From == [edit |-> {"draft"}, finalize |-> {"draft"}, withdraw |-> Open,
         approve |-> {"pending"}, reject |-> {"pending"},
         delete |-> State \ {"none", "approved", "removed"}]
To == [edit |-> "draft", finalize |-> "pending", withdraw |-> "withdrawn",
       approve |-> "approved", reject |-> "rejected", delete |-> "removed"]

ASSUME OpsAssumption == Ops \subseteq DOMAIN From

Answers == {"done", "replayed", "conflict", "refused", "denied", "missing",
            "not_ready", "duplicate"}

Request == [state: State, owner: Accounts \cup {None},
            proposal: Proposals \cup {None}]
Record == [actor: Accounts, op: (DOMAIN From) \cup {"create"}, key: Keys, sub: Subs,
           input: Proposals \cup {None}]
Call == [pc: {"idle", "row", "user", "backfill", "name", "commit", "answered"},
         op: (DOMAIN From) \cup {None}, actor: Accounts \cup {None},
         sub: Subs \cup {None}, key: Keys \cup {None},
         input: Proposals \cup {None},
         first: BOOLEAN,   \* in the first transaction of an approval
         stale: BOOLEAN,   \* the address it has read is no longer the row's
         answer: Answers \cup {None}]

TypeOK ==
    /\ request \in [Subs -> Request]
    /\ event \in [Subs -> Seq([from: State, to: State])]
    /\ place \subseteq [proposal: Proposals, source: Subs]
    /\ record \subseteq Record
    /\ account \in [Accounts -> Standing]
    /\ idle \subseteq Subs /\ due \in Subs \cup {None}
    /\ call \in [Calls -> Call]

Idle == [pc |-> "idle", op |-> None, actor |-> None, sub |-> None,
         key |-> None, input |-> None, first |-> FALSE, stale |-> FALSE,
         answer |-> None]

\* What is seen of a call from outside.
Asked == [op: DOMAIN From, actor: Accounts, sub: Subs, key: Keys \cup {None},
          input: Proposals \cup {None}, moved: BOOLEAN,
          answer: Answers \cup {None}]
Seen(r) == IF r.pc = "idle" THEN None
           ELSE [op |-> r.op, actor |-> r.actor, sub |-> r.sub, key |-> r.key,
                 input |-> r.input, moved |-> r.stale, answer |-> r.answer]

ASSUME NoneAssumption == None \notin Answers /\ None \notin Asked

asked == [c \in Calls |-> Seen(call[c])]

\* No row yet, or one that was waiting for review when migration 6 came.
Absent == [state |-> "none", owner |-> None, proposal |-> None]
Inherited == [state : {"pending"}, owner : Accounts, proposal : Proposals]

Init ==
    /\ request \in [Subs -> {Absent} \cup Inherited]
    /\ \A s \in Subs \ Legacy : request[s] = Absent
    /\ event = [s \in Subs |-> <<>>]
    /\ place = {}
    /\ record = {}
    /\ account = [a \in Accounts |-> "admin"]
    /\ idle = {} /\ due = None
    /\ call = [c \in Calls |-> Idle]

-----------------------------------------------------------------------------
\* Locks: held from the step that takes them to the end of the transaction

HoldsRow(c) == call[c].pc \in {"user", "name", "commit"}
HoldsUser(c) == call[c].pc \in {"name", "commit"}
HoldsName(c) == call[c].pc = "commit"

Target(c) == request[call[c].sub]
RowFree(s) == \A c \in Calls : HoldsRow(c) => call[c].sub # s
UserFree(a) == \A c \in Calls : HoldsUser(c) => call[c].actor # a
NameFree(name) ==
    \A c \in Calls : HoldsName(c) => Target(c).proposal.name # name

\* Same name, and within 25 metres of each other.
Alike(p, q) == p.name = q.name /\ <<p.spot, q.spot>> \in Near

Event(s, from, to) ==
    event' = [event EXCEPT ![s] = Append(@, [from |-> from, to |-> to])]

Goto(c, pc) == call' = [call EXCEPT ![c].pc = pc]
Answer(c, answer) ==
    call' = [call EXCEPT ![c].pc = "answered", ![c].answer = answer]

-----------------------------------------------------------------------------
\* The beginning of a call

\* create_submission takes its actor's row and nothing else, so it is one
\* step.  With a key that was used it changes nothing.
Create(a, s, p, key) ==
    /\ request[s].state = "none"
    /\ account[a] # "inactive" /\ UserFree(a)
    /\ key # None => "create" \in Retried
    /\ ~\E r \in record : r.actor = a /\ r.op = "create" /\ r.key = key
    /\ request' = [request EXCEPT ![s] = [state |-> "draft", owner |-> a,
                                          proposal |-> p]]
    /\ Event(s, "none", "draft")
    /\ record' = IF key = None THEN record
                 ELSE record \cup {[actor |-> a, op |-> "create", key |-> key,
                                    sub |-> s, input |-> p]}
    /\ UNCHANGED <<place, account, drafts, call>>

\* Every service but create_submission: its first statement reads the
\* submission with its address and waits for its row.  Others' submissions
\* are not found by an owner's operations, reviews are for moderators, the
\* deletion, which has no key, for administrators.
Start(c, op, a, s, key, input) ==
    /\ call[c].pc = "idle" /\ request[s].state \notin {"none", "removed"}
    /\ account[a] # "inactive"
    /\ CASE op \in Reviews -> account[a] \in Moderators
         [] op = "delete"  -> account[a] = "admin"
         [] OTHER          -> request[s].owner = a
    /\ (op = "edit") = (input # None) /\ (key # None => op \in Retried)
    /\ op = "edit" => Len(event[s]) <= MaxEdits
    /\ call' = [call EXCEPT ![c] =
                   [Idle EXCEPT !.pc = "row", !.op = op, !.actor = a,
                                !.sub = s, !.key = key, !.input = input,
                                !.first = (op = "approve")]]
    /\ UNCHANGED <<rows, account, drafts>>

\* _locked_owned_submission and _locked_submission join the address.  When the
\* row has another one by the time it is locked, PostgreSQL finds that the row
\* it has read joins no longer, and returns none, as for a row deleted since.
LockRow(c) ==
    /\ call[c].pc = "row" /\ RowFree(call[c].sub)
    /\ IF call[c].stale \/ Target(c).state = "removed"
       THEN Answer(c, "missing") ELSE Goto(c, "user")
    /\ UNCHANGED <<rows, account, drafts>>

-----------------------------------------------------------------------------
\* With the rows of the submission and the actor

\* Mutant: an approval was authorized by its first transaction.
Authorized_Once(c) ==
    /\ account[call[c].actor] # "inactive"
    /\ call[c].op = "reject" \/ call[c].first =>
           /\ account[call[c].actor] \in Moderators
           /\ Target(c).owner # call[c].actor

\* The actor is active, and a reviewer a moderator and not the owner.
Authorized(c) ==
    /\ account[call[c].actor] # "inactive"
    /\ call[c].op \in Reviews => /\ account[call[c].actor] \in Moderators
                                 /\ Target(c).owner # call[c].actor
    /\ call[c].op = "delete" => account[call[c].actor] = "admin"

\* The record of an earlier call with this key, and this call's own.
Earlier(c) == {r \in record : /\ r.actor = call[c].actor
                              /\ r.op = call[c].op
                              /\ r.key = call[c].key}
Own(c) == [actor |-> call[c].actor, op |-> call[c].op, key |-> call[c].key,
           sub |-> call[c].sub, input |-> call[c].input]

Match(c) == Earlier(c) = {Own(c)}

\* Mutant: an approval relies on what its first transaction has found.
Permitted_Once(c) == \/ Target(c).state \in From[call[c].op]
                     \/ call[c].op = "approve" /\ ~call[c].first

Permitted(c) == Target(c).state \in From[call[c].op]

\* Mutant: the actor is read without a lock.
HasUser_Unlocked(c) == call[c].pc = "user"

HasUser(c) == call[c].pc = "user" /\ UserFree(call[c].actor)

Proceeds(c) ==
    HasUser(c) /\ Authorized(c) /\ Earlier(c) = {} /\ Permitted(c)

\* A call that ends here: denied, answered with an earlier result, or not
\* for this state.
Decline(c) ==
    /\ HasUser(c)
    /\ \/ ~Authorized(c) /\ Answer(c, "denied")
       \/ /\ Authorized(c) /\ Earlier(c) # {}
          /\ Answer(c, IF Match(c) THEN "replayed" ELSE "conflict")
       \/ /\ Authorized(c) /\ Earlier(c) = {} /\ ~Permitted(c)
          /\ Answer(c, "refused")
    /\ UNCHANGED <<rows, account, drafts>>

\* The end of the first transaction of an approval; renditions are made.
Precheck(c) ==
    /\ Proceeds(c) /\ call[c].first
    /\ Goto(c, "backfill")
    /\ UNCHANGED <<rows, account, drafts>>

\* backfill_attached_renditions is done, or has failed.
Backfill(c) ==
    /\ call[c].pc = "backfill"
    /\ \/ call' = [call EXCEPT ![c].pc = "row", ![c].first = FALSE]
       \/ Answer(c, "not_ready")
    /\ UNCHANGED <<rows, account, drafts>>

\* The rows that any completed operation writes.
Complete(c) ==
    /\ Event(call[c].sub, Target(c).state, To[call[c].op])
    /\ record' = IF call[c].key = None THEN record ELSE record \cup {Own(c)}

\* Withdrawal and rejection: nothing else is needed.
Close(c) ==
    /\ Proceeds(c) /\ call[c].op \in {"withdraw", "reject"}
    /\ request' = [request EXCEPT ![call[c].sub].state = To[call[c].op]]
    /\ Complete(c)
    /\ Answer(c, "done")
    /\ idle' = idle \ {call[c].sub}
    /\ UNCHANGED <<place, account, due>>

\* hard_delete_submission, of a row that no event or record speaks of and
\* whose media are cleaned up.
HardDelete(c) ==
    /\ Proceeds(c) /\ call[c].op = "delete"
    /\ \/ /\ event[call[c].sub] = <<>>
          /\ \A r \in record : r.sub # call[c].sub
          /\ request' = [request EXCEPT ![call[c].sub].state = "removed"]
          /\ Answer(c, "done")
       \/ Answer(c, "refused") /\ UNCHANGED request
    /\ UNCHANGED <<event, place, record, account, drafts>>

\* Mutant: an edit does not look at the state.
Edit_AnyState(c) ==
    /\ HasUser(c) /\ Authorized(c) /\ Earlier(c) = {} /\ call[c].op = "edit"
    /\ request' = [request EXCEPT ![call[c].sub].proposal = call[c].input]
    /\ Complete(c)
    /\ Answer(c, "done")
    /\ idle' = idle \ {call[c].sub}
    /\ UNCHANGED <<place, account, due>>

\* edit_submission.  A new spot is a new address, which the calls that wait
\* for the row have not read.
Edit(c) ==
    /\ Proceeds(c) /\ call[c].op = "edit"
    /\ request' = [request EXCEPT ![call[c].sub].proposal = call[c].input]
    /\ Complete(c)
    /\ call' = [d \in Calls |->
                   IF d = c
                   THEN [call[c] EXCEPT !.pc = "answered", !.answer = "done"]
                   ELSE IF /\ call[d].pc = "row"
                           /\ call[d].sub = call[c].sub
                           /\ call[c].input.spot # Target(c).proposal.spot
                        THEN [call[d] EXCEPT !.stale = TRUE]
                        ELSE call[d]]
    /\ idle' = idle \ {call[c].sub}
    /\ UNCHANGED <<place, account, due>>

\* Finalization has its media, and both go for the name.
SeekName(c) ==
    /\ Proceeds(c) /\ call[c].op \in Named /\ ~call[c].first
    /\ \/ Goto(c, "name")
       \/ call[c].op = "finalize" /\ Answer(c, "not_ready")
    /\ UNCHANGED <<rows, account, drafts>>

-----------------------------------------------------------------------------
\* With the lock of the name

\* Mutant: the owner's submissions under review are not looked at.
OwnAlike_DraftsOnly(c) ==
    \E s \in Subs \ {call[c].sub} :
        /\ request[s].owner = call[c].actor /\ request[s].state = "draft"
        /\ Alike(request[s].proposal, Target(c).proposal)

\* The owner's other drafts and pending submissions, for a finalization.
OwnAlike(c) ==
    \E s \in Subs \ {call[c].sub} :
        /\ request[s].owner = call[c].actor /\ request[s].state \in Open
        /\ Alike(request[s].proposal, Target(c).proposal)

PublicAlike(c) == \E p \in place : Alike(p.proposal, Target(c).proposal)

\* Mutant: there is no lock of the name.
CheckName_Unlocked(c) ==
    /\ call[c].pc = "name"
    /\ IF PublicAlike(c) \/ (call[c].op = "finalize" /\ OwnAlike(c))
       THEN Answer(c, "duplicate") ELSE Goto(c, "commit")
    /\ UNCHANGED <<rows, account, drafts>>

\* acquire_canonical_name_lock and _assert_no_duplicate.  Its two queries are
\* one step: only holders of the name add to what they read.
CheckName(c) ==
    /\ call[c].pc = "name" /\ NameFree(Target(c).proposal.name)
    /\ IF PublicAlike(c) \/ (call[c].op = "finalize" /\ OwnAlike(c))
       THEN Answer(c, "duplicate") ELSE Goto(c, "commit")
    /\ UNCHANGED <<rows, account, drafts>>

\* The end of finalize_submission and of an approval, which also looks at the
\* media and materializes the place.
Commit(c) ==
    /\ call[c].pc = "commit"
    /\ \/ /\ request' = [request EXCEPT ![call[c].sub].state = To[call[c].op]]
          /\ place' = IF call[c].op = "finalize" THEN place
                      ELSE place \cup {[proposal |-> Target(c).proposal,
                                        source |-> call[c].sub]}
          /\ Complete(c)
          /\ Answer(c, "done")
          /\ idle' = idle \ {call[c].sub}
       \/ /\ call[c].op = "approve" /\ Answer(c, "not_ready")
          /\ UNCHANGED <<rows, idle>>
    /\ UNCHANGED <<account, due>>

-----------------------------------------------------------------------------
\* The end of a call, the accounts, time and the expiry job

\* The response arrives, or is lost.
Return(c) ==
    /\ call[c].pc = "answered"
    /\ call' = [call EXCEPT ![c] = Idle]
    /\ UNCHANGED <<rows, account, drafts>>

\* The process or its connection dies, and the transaction with it.
Die(c) ==
    /\ call[c].pc \notin {"idle", "answered"}
    /\ call' = [call EXCEPT ![c] = Idle]
    /\ UNCHANGED <<rows, account, drafts>>

\* An administrator saves a user, which needs the user's row.
SetAccount(a, standing) ==
    /\ UserFree(a) /\ standing # account[a]
    /\ account' = [account EXCEPT ![a] = standing]
    /\ UNCHANGED <<rows, drafts, call>>

\* Thirty days without activity.
Age(s) ==
    /\ DraftsAge /\ request[s].state = "draft" /\ s \notin idle
    /\ idle' = idle \cup {s}
    /\ UNCHANGED <<rows, account, due, call>>

\* A media operation of the owner, or a reordering.
MediaActivity(s) ==
    /\ request[s].state = "draft" /\ s \in idle
    /\ RowFree(s) /\ UserFree(request[s].owner)
    /\ account[request[s].owner] # "inactive"
    /\ idle' = idle \ {s}
    /\ UNCHANGED <<rows, account, due, call>>

\* _due_candidate_ids reads without locks.  The candidates of a batch have
\* nothing to do with each other: one stands for all.
Scan(s) ==
    /\ due = None /\ s \in idle
    /\ due' = s
    /\ UNCHANGED <<rows, account, idle, call>>

\* Mutant: the activity is not looked at again.
StillDue_DraftOnly(s) == request[s].state = "draft" /\ RowFree(s)

\* What _expire_submission_if_due finds with the row, if it is not locked.
StillDue(s) == request[s].state = "draft" /\ RowFree(s) /\ s \in idle

Expire(s) ==
    /\ s = due
    /\ due' = None
    /\ IF StillDue(s)
       THEN /\ request' = [request EXCEPT ![s].state = "expired"]
            /\ Event(s, "draft", "expired")
            /\ idle' = idle \ {s}
       ELSE UNCHANGED <<request, event, idle>>
    /\ UNCHANGED <<place, record, account, call>>

-----------------------------------------------------------------------------
\* What a call does once it has both rows.
Proceed(c) ==
    Decline(c) \/ Precheck(c) \/ Close(c) \/ HardDelete(c) \/ Edit(c) \/
    SeekName(c)

Serve(c) ==
    LockRow(c) \/ Proceed(c) \/ Backfill(c) \/ CheckName(c) \/ Commit(c) \/
    Return(c)

Next ==
    \/ \E a \in Accounts, s \in Subs, p \in Proposals, key \in Keys \cup {None} :
           Create(a, s, p, key)
    \/ \E c \in Calls, op \in Ops, a \in Accounts, s \in Subs,
          key \in Keys \cup {None}, input \in Proposals \cup {None} :
              Start(c, op, a, s, key, input)
    \/ \E c \in Calls : Serve(c) \/ Die(c)
    \/ \E a \in Accounts, standing \in Standings : SetAccount(a, standing)
    \/ \E s \in Subs : Age(s) \/ MediaActivity(s) \/ Scan(s) \/ Expire(s)

Spec == Init /\ [][Next]_vars

-----------------------------------------------------------------------------
\* No two public places are the same: however two approvals of like
\* proposals, by different reviewers, run at once.
PlacesApart ==
    \A p, q \in place : p # q => ~Alike(p.proposal, q.proposal)

\* No owner has two like proposals under review, although any number of them
\* may be drafts, and are edited; but for two that are older than the check.
PendingApart ==
    \A s, t \in Subs :
        /\ s # t /\ ~({s, t} \subseteq Legacy)
        /\ request[s].owner = request[t].owner
        /\ request[s].state = "pending" /\ request[t].state = "pending"
        => ~Alike(request[s].proposal, request[t].proposal)

\* An approved submission has exactly one place, as it was proposed, and no
\* other submission has any.
OnePlaceEach ==
    place = {[proposal |-> request[s].proposal, source |-> s] :
                 s \in {t \in Subs : request[t].state = "approved"}}

\* The lifecycle events of a submission tell its whole history: each begins
\* where the one before ended, the last where the submission is, and nothing
\* follows the end of its life.  Only a row without any is ever deleted.
EventsTellHistory ==
    \A s \in Subs :
        LET e == event[s]
            old == IF s \in Legacy THEN {"pending"} ELSE {}
        IN /\ IF e # <<>> THEN request[s].state = e[Len(e)].to
              ELSE request[s].state \in {"none", "removed"} \cup old
           /\ \A n \in DOMAIN e :
                  /\ IF n = 1 THEN e[n].from \in {"none"} \cup old
                     ELSE e[n].from = e[n - 1].to
                  /\ e[n].from \in Open \cup {"none"}

\* A key is recorded once for an actor and an operation: the unique constraint
\* unique_submission_idempotency_scope never fails a call.
KeyUsedOnce ==
    \A r, t \in record :
        r.actor = t.actor /\ r.op = t.op /\ r.key = t.key => r = t

\* Whoever decides on a submission is then a moderator, whatever has become
\* of the role since the call began, and is not the owner.
DecidedByModerator ==
    [][\A c \in Calls :
           /\ call[c].op \in Reviews
           /\ call[c].answer # "done" /\ call'[c].answer = "done"
           => /\ account[call[c].actor] \in Moderators
              /\ Target(c).owner # call[c].actor]_vars

\* Only a draft that has no activity expires, however long ago the job found
\* it.
OnlyIdleExpires ==
    [][\A s \in Subs :
           /\ request[s].state # "expired" /\ request'[s].state = "expired"
           => s \in idle]_vars

\* The locks, the second looks and the two transactions of an approval do not
\* show: every call is as if it were served at one moment between being asked
\* and answered, and is refused only for a reason that holds at that moment.
Service == INSTANCE SubmissionService
ServedAtOnce == Service!Spec

\* "hide every submission this actor cannot see" (submissions.py 586): and no
\* other; an owner's call on a submission of the owner's finds it.
OwnSubmissionFound == \A c \in Calls : call[c].answer # "missing"
=============================================================================

------------------------- MODULE SubmissionService -------------------------
(***************************************************************************)
(* What the submission services promise, with no locks, transactions or    *)
(* second looks: a call takes effect, or is refused, at one moment between *)
(* its being asked and its answer, for a reason that holds at that moment. *)
(* What is answered "done" is done, once; any other answer changes nothing. *)
(***************************************************************************)
EXTENDS Naturals, Sequences

CONSTANTS Calls, Accounts, Subs, Legacy, Proposals, Near, Keys, None

VARIABLES
    request,    \* the submissions
    event,      \* the history of each
    place,      \* what is public, each with the submission it came from
    record,     \* the keys that were used, each with what was done
    account,    \* what each user may do
    idle,       \* the drafts without activity for thirty days
    asked       \* what is asked in each call, and the answer

vars == <<request, event, place, record, account, idle, asked>>

-----------------------------------------------------------------------------
Open == {"draft", "pending"}
From == [edit |-> {"draft"}, finalize |-> {"draft"}, withdraw |-> Open,
         approve |-> {"pending"}, reject |-> {"pending"},
         delete |-> {"draft", "pending", "withdrawn", "expired", "rejected"}]

Moderates(a) == account[a] \in {"moderator", "admin"}

\* Owners change what is theirs, others decide on it, and administrators
\* delete.
Allowed(q) ==
    /\ account[q.actor] # "inactive"
    /\ q.op \in {"edit", "finalize", "withdraw"} =>
           request[q.sub].owner = q.actor
    /\ q.op \in {"approve", "reject"} =>
           Moderates(q.actor) /\ request[q.sub].owner # q.actor
    /\ q.op = "delete" => account[q.actor] = "admin"

\* What was done under the key of q, and what would be done now.
Earlier(q) ==
    {r \in record : r.actor = q.actor /\ r.op = q.op /\ r.key = q.key}
Own(q) == [actor |-> q.actor, op |-> q.op, key |-> q.key, sub |-> q.sub,
           input |-> q.input]

Timely(q) == request[q.sub].state \in From[q.op]

Alike(p, q) == p.name = q.name /\ <<p.spot, q.spot>> \in Near

\* To finalize or to approve q would make two alike.
Duplicate(q) ==
    LET like(p) == Alike(p, request[q.sub].proposal)
    IN \/ \E p \in place : like(p.proposal)
       \/ /\ q.op = "finalize"
          /\ \E s \in Subs \ {q.sub} : /\ request[s].owner = q.actor
                                       /\ request[s].state \in Open
                                       /\ like(request[s].proposal)

-----------------------------------------------------------------------------
\* The effects

Tell(s, state) ==
    event' = [event EXCEPT
                 ![s] = Append(@, [from |-> request[s].state, to |-> state])]

Keep(q) == record' = IF q.key = None THEN record ELSE record \cup {Own(q)}

\* The submission of q moves on, and is active.
Move(q, state) ==
    /\ request' = [request EXCEPT ![q.sub].state = state]
    /\ Tell(q.sub, state) /\ Keep(q)
    /\ idle' = idle \ {q.sub}

Edit(q) ==
    /\ request' = [request EXCEPT ![q.sub].proposal = q.input]
    /\ Tell(q.sub, "draft") /\ Keep(q)
    /\ idle' = idle \ {q.sub}
    /\ UNCHANGED place

Finalize(q) == ~Duplicate(q) /\ Move(q, "pending") /\ UNCHANGED place

Withdraw(q) == Move(q, "withdrawn") /\ UNCHANGED place

Approve(q) ==
    /\ ~Duplicate(q) /\ Move(q, "approved")
    /\ place' = place \cup {[proposal |-> request[q.sub].proposal,
                             source |-> q.sub]}

Reject(q) == Move(q, "rejected") /\ UNCHANGED place

\* Nothing tells of the submission.
Delete(q) ==
    /\ event[q.sub] = <<>> /\ \A r \in record : r.sub # q.sub
    /\ request' = [request EXCEPT ![q.sub].state = "removed"]
    /\ UNCHANGED <<event, place, record, idle>>

Effect(q) == CASE q.op = "edit"     -> Edit(q)
               [] q.op = "finalize" -> Finalize(q)
               [] q.op = "withdraw" -> Withdraw(q)
               [] q.op = "approve"  -> Approve(q)
               [] q.op = "reject"   -> Reject(q)
               [] q.op = "delete"   -> Delete(q)

-----------------------------------------------------------------------------
\* The calls

Ask(c) ==
    /\ asked[c] = None /\ asked'[c] # None
    /\ \E op \in DOMAIN From, a \in Accounts, s \in Subs,
          key \in Keys \cup {None}, input \in Proposals \cup {None} :
           /\ request[s].state \notin {"none", "removed"}
           /\ op = "edit" => input \in Proposals
           /\ asked' = [asked EXCEPT
                            ![c] = [op |-> op, actor |-> a, sub |-> s,
                                    key |-> key, input |-> input,
                                    moved |-> FALSE, answer |-> None]]
    /\ UNCHANGED <<request, event, place, record, account, idle>>

Waits(c) == asked[c] # None /\ asked[c].answer = None

\* An edit that moves the submission is noticed by calls on it, or not.
Do(c) ==
    LET q == asked[c]
    IN /\ Waits(c) /\ Allowed(q) /\ Earlier(q) = {} /\ Timely(q)
       /\ Effect(q)
       /\ \E D \in SUBSET Calls :
              /\ \A d \in D : /\ q.op = "edit" /\ Waits(d)
                              /\ asked[d].sub = q.sub
                              /\ q.input.spot # request[q.sub].proposal.spot
              /\ asked' = [d \in Calls |->
                              IF d = c THEN [q EXCEPT !.answer = "done"]
                              ELSE IF d \in D THEN [asked[d] EXCEPT !.moved = TRUE]
                              ELSE asked[d]]
       /\ UNCHANGED account

\* The reasons for any other answer.
Excuse(q, answer) ==
    CASE answer = "missing"   -> q.moved \/ request[q.sub].state = "removed"
      [] answer = "denied"    -> ~Allowed(q)
      [] answer = "replayed"  -> Allowed(q) /\ Earlier(q) = {Own(q)}
      [] answer = "conflict"  -> Allowed(q) /\ Earlier(q) \notin {{}, {Own(q)}}
      [] answer = "refused"   -> /\ Allowed(q) /\ Earlier(q) = {}
                                 /\ Timely(q) => q.op = "delete"
      [] answer = "duplicate" -> /\ Allowed(q) /\ Earlier(q) = {}
                                 /\ Timely(q) /\ Duplicate(q)
      [] answer = "not_ready" -> q.op \in {"finalize", "approve"}

Refuse(c) ==
    /\ Waits(c)
    /\ \E answer \in {"missing", "denied", "replayed", "conflict", "refused",
                      "duplicate", "not_ready"} :
           /\ Excuse(asked[c], answer)
           /\ asked' = [asked EXCEPT ![c].answer = answer]
    /\ UNCHANGED <<request, event, place, record, account, idle>>

\* The answer arrives, or the call fails before or after it took effect.
Leave(c) ==
    /\ asked[c] # None
    /\ asked' = [asked EXCEPT ![c] = None]
    /\ UNCHANGED <<request, event, place, record, account, idle>>

-----------------------------------------------------------------------------
\* The rest

Create(a, s, p, key) ==
    /\ request[s].state = "none" /\ account[a] # "inactive"
    /\ \A r \in record : ~(r.actor = a /\ r.op = "create" /\ r.key = key)
    /\ request' = [request EXCEPT ![s] = [state |-> "draft", owner |-> a,
                                          proposal |-> p]]
    /\ Tell(s, "draft")
    /\ Keep([actor |-> a, op |-> "create", key |-> key, sub |-> s, input |-> p])
    /\ UNCHANGED <<place, account, idle, asked>>

SetAccount(a, standing) ==
    /\ account' = [account EXCEPT ![a] = standing]
    /\ UNCHANGED <<request, event, place, record, idle, asked>>

\* Thirty days go by, or the owner works on the images.
Age(s) ==
    /\ request[s].state = "draft"
    /\ idle' = idle \cup {s}
    /\ UNCHANGED <<request, event, place, record, account, asked>>

MediaActivity(s) ==
    /\ request[s].state = "draft" /\ account[request[s].owner] # "inactive"
    /\ idle' = idle \ {s}
    /\ UNCHANGED <<request, event, place, record, account, asked>>

Expire(s) ==
    /\ request[s].state = "draft" /\ s \in idle
    /\ request' = [request EXCEPT ![s].state = "expired"]
    /\ Tell(s, "expired")
    /\ idle' = idle \ {s}
    /\ UNCHANGED <<place, record, account, asked>>

-----------------------------------------------------------------------------
\* A submission that is older than this service is under review.
New == [state: {"none"}, owner: {None}, proposal: {None}]
Old == [state: {"pending"}, owner: Accounts, proposal: Proposals]

Init ==
    /\ request \in [Subs -> New \cup Old]
    /\ \A s \in Subs \ Legacy : request[s] \in New
    /\ event = [s \in Subs |-> <<>>]
    /\ place = {} /\ record = {} /\ idle = {}
    /\ asked = [c \in Calls |-> None]

Next ==
    \/ \E c \in Calls : Ask(c) \/ Do(c) \/ Refuse(c) \/ Leave(c)
    \/ \E a \in Accounts, s \in Subs, p \in Proposals, key \in Keys \cup {None} :
           Create(a, s, p, key)
    \/ \E a \in Accounts,
          standing \in {"inactive", "user", "moderator", "admin"} :
              SetAccount(a, standing)
    \/ \E s \in Subs : Age(s) \/ MediaActivity(s) \/ Expire(s)

Spec == Init /\ [][Next]_vars
=============================================================================

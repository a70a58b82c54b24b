------------------------- MODULE SubmissionsProofs -------------------------
(***************************************************************************)
(* Proofs about Submissions for any calls, accounts, submissions and       *)
(* proposals.  What a call has read under its locks is still true when it  *)
(* writes: the row of the submission keeps its state and proposal, the row *)
(* of the actor keeps the role, the actor's other submissions and the keys *)
(* that were used, and the name keeps other likenesses from becoming       *)
(* public.  That is HeldInv and CheckedInv; LockInv is why.                *)
(***************************************************************************)
EXTENDS Submissions, TLAPS

-----------------------------------------------------------------------------
\* The inductive invariant

\* A submission that exists has an owner and a proposal.
RowInv == \A s \in Subs : request[s].state # "none" =>
              request[s].owner \in Accounts /\ request[s].proposal \in Proposals

CallInv(c) == call[c].pc # "idle" =>
    /\ call[c].op \in DOMAIN From
    /\ call[c].actor \in Accounts
    /\ call[c].sub \in Subs
    /\ Target(c).state # "none"
    /\ call[c].op \notin Reviews \cup {"delete"}
           => Target(c).owner = call[c].actor
    /\ call[c].op = "edit" => call[c].input \in Proposals

\* No two calls hold the same lock.
LockInv(c, d) == c # d =>
    /\ HoldsRow(c) /\ HoldsRow(d) => call[c].sub # call[d].sub
    /\ HoldsUser(c) /\ HoldsUser(d) => call[c].actor # call[d].actor
    /\ HoldsName(c) /\ HoldsName(d)
           => Target(c).proposal.name # Target(d).proposal.name

\* What a finalization or approval has found with both rows stays true.
HeldInv(c) == HoldsUser(c) =>
    /\ call[c].op \in Named
    /\ Permitted(c)
    /\ Authorized(c)
    /\ Earlier(c) = {}

\* And with the name, that nothing is like its proposal.
CheckedInv(c) == HoldsName(c) =>
    ~PublicAlike(c) /\ (call[c].op = "finalize" => ~OwnAlike(c))

\* No event leads back to where there was none.
EventInv == \A s \in Subs : \A n \in DOMAIN event[s] : event[s][n].to # "none"

\* Whoever was told that it is done already has its record.
ReplayInv == \A c \in Calls : call[c].answer = "replayed" => \E r \in record : r = Own(c)

Inv == /\ TypeOK
       /\ RowInv
       /\ EventInv
       /\ \A c \in Calls : CallInv(c) /\ HeldInv(c) /\ CheckedInv(c)
       /\ \A c, d \in Calls : LockInv(c, d)
       /\ PlacesApart
       /\ PendingApart
       /\ OnePlaceEach
       /\ KeyUsedOnce
       /\ EventsTellHistory
       /\ ReplayInv

\* What it says of the submissions themselves.
RowsInv == /\ request \in [Subs -> Request]
           /\ event \in [Subs -> Seq([from: State, to: State])]
           /\ RowInv /\ EventInv
           /\ PlacesApart /\ PendingApart /\ OnePlaceEach
           /\ KeyUsedOnce /\ EventsTellHistory

LEMMA InvRows == Inv => RowsInv
BY DEF Inv, RowsInv, TypeOK

-----------------------------------------------------------------------------
\* Helpers

Become(c, s) == call' = [call EXCEPT ![c] = s]

LEMMA GotoBecome ==
    ASSUME TypeOK, NEW c \in Calls, NEW pc, Goto(c, pc)
    PROVE  Become(c, [call[c] EXCEPT !.pc = pc])
BY DEF Goto, Become, TypeOK

LEMMA AnswerBecome ==
    ASSUME TypeOK, NEW c \in Calls, NEW a, Answer(c, a)
    PROVE  Become(c, [call[c] EXCEPT !.pc = "answered", !.answer = a])
BY DEF Answer, Become, TypeOK

\* The calls that a step of c makes of c.
LEMMA CallTypes ==
    ASSUME TypeOK, NEW c \in Calls
    PROVE  /\ Idle \in Call
           /\ \A pc \in {"idle", "row", "user", "backfill", "name", "commit",
                         "answered"} : [call[c] EXCEPT !.pc = pc] \in Call
           /\ \A a \in Answers :
                  [call[c] EXCEPT !.pc = "answered", !.answer = a] \in Call
           /\ [call[c] EXCEPT !.pc = "row", !.first = FALSE] \in Call
           /\ [call[c] EXCEPT !.stale = TRUE] \in Call
<1>1. call[c] \in Call
  BY DEF TypeOK
<1>2. Idle \in Call
  BY DEF Idle, Call
<1>3. ASSUME NEW pc \in {"idle", "row", "user", "backfill", "name", "commit",
                         "answered"}
      PROVE  [call[c] EXCEPT !.pc = pc] \in Call
  BY <1>1 DEF Call
<1>4. ASSUME NEW a \in Answers
      PROVE  [call[c] EXCEPT !.pc = "answered", !.answer = a] \in Call
  BY <1>1 DEF Call
<1>5. [call[c] EXCEPT !.pc = "row", !.first = FALSE] \in Call
  BY <1>1 DEF Call
<1>6. [call[c] EXCEPT !.stale = TRUE] \in Call
  BY <1>1 DEF Call
<1> QED BY <1>2, <1>3, <1>4, <1>5, <1>6

LEMMA AlikeSymmetric ==
    ASSUME NEW p, NEW q, Alike(p, q) PROVE Alike(q, p)
BY NearAssumption DEF Alike

\* The operations, and the states they are for.
LEMMA Operations ==
    /\ DOMAIN From = {"edit", "finalize", "withdraw", "approve", "reject",
                      "delete"}
    /\ From["edit"] = {"draft"} /\ From["finalize"] = {"draft"}
    /\ From["withdraw"] = Open /\ From["approve"] = {"pending"}
    /\ From["reject"] = {"pending"}
    /\ To["edit"] = "draft" /\ To["finalize"] = "pending"
    /\ To["withdraw"] = "withdrawn" /\ To["approve"] = "approved"
    /\ To["reject"] = "rejected"
BY DEF From, To

-----------------------------------------------------------------------------
\* Init

LEMMA InitInv == Init => Inv
<1> SUFFICES ASSUME Init PROVE Inv
  OBVIOUS
<1>1. /\ \A s \in Subs : request[s] \in {Absent} \cup Inherited
      /\ \A s \in Subs \ Legacy : request[s] = Absent
      /\ event = [s \in Subs |-> <<>>]
      /\ \A s \in Subs : event[s] = <<>>
      /\ place = {} /\ record = {}
      /\ \A c \in Calls : call[c] = Idle
  BY DEF Init
<1>2. Absent \in Request /\ Inherited \subseteq Request
  BY DEF Absent, Inherited, Request, State, Open
<1>3. Idle \in Call
  BY DEF Idle, Call
<1>4. TypeOK
  BY <1>1, <1>2, <1>3 DEF Init, TypeOK, Standing
<1>5. \A s \in Subs : /\ request[s].state \in {"none", "pending"}
                      /\ request[s].state # "none" =>
                             /\ s \in Legacy /\ request[s].owner \in Accounts
                             /\ request[s].proposal \in Proposals
  BY <1>1 DEF Absent, Inherited
<1>6. \A c \in Calls : call[c].pc = "idle" /\ call[c].answer = None
  <2>1. Idle.pc = "idle" /\ Idle.answer = None
    BY DEF Idle
  <2> QED BY <1>1, <2>1
<1>7. RowInv /\ PendingApart
  BY <1>5 DEF RowInv, PendingApart
<1>8. EventInv /\ EventsTellHistory
  <2>1. \A s \in Subs : DOMAIN event[s] = {}
    BY <1>1
  <2>2. EventInv
    BY <2>1 DEF EventInv
  <2>3. EventsTellHistory
    BY <1>1, <1>5, <2>1 DEF EventsTellHistory
  <2> QED BY <2>2, <2>3
<1>9. \A c, d \in Calls : CallInv(c) /\ HeldInv(c) /\ CheckedInv(c)
                           /\ LockInv(c, d)
  BY <1>6 DEF CallInv, HeldInv, CheckedInv, LockInv, HoldsRow, HoldsUser,
              HoldsName
<1>10. PlacesApart /\ OnePlaceEach /\ KeyUsedOnce
  BY <1>1, <1>5 DEF PlacesApart, OnePlaceEach, KeyUsedOnce
<1>11. ReplayInv
  BY <1>6, NoneAssumption DEF ReplayInv, Answers
<1> QED BY <1>4, <1>7, <1>8, <1>9, <1>10, <1>11 DEF Inv

-----------------------------------------------------------------------------
\* A step that changes one call and no row

LEMMA LockSymmetric ==
    ASSUME NEW c, NEW d, LockInv(c, d)' PROVE LockInv(d, c)'
BY DEF LockInv

LEMMA CallStepInv ==
    ASSUME Inv, NEW c \in Calls, NEW s \in Call, Become(c, s),
           UNCHANGED <<rows, account, drafts>>,
           CallInv(c)', HeldInv(c)', CheckedInv(c)',
           \A d \in Calls \ {c} : LockInv(c, d)',
           s.answer = "replayed" => Own(c)' \in record
    PROVE  Inv'
<1>1. UNCHANGED <<request, event, place, record, account, idle, due>>
  BY DEF rows, drafts
<1>2. /\ call'[c] = s /\ call' \in [Calls -> Call]
      /\ \A d \in Calls \ {c} : call'[d] = call[d]
  BY DEF Inv, TypeOK, Become
<1>3. TypeOK'
  BY <1>1, <1>2 DEF Inv, TypeOK
<1>4. /\ RowInv' /\ EventInv' /\ PlacesApart' /\ PendingApart' /\ OnePlaceEach'
      /\ KeyUsedOnce' /\ EventsTellHistory'
  BY <1>1 DEF Inv, RowInv, EventInv, PlacesApart, PendingApart, OnePlaceEach,
              KeyUsedOnce, EventsTellHistory
<1>5. ASSUME NEW d \in Calls \ {c}
      PROVE  CallInv(d)' /\ HeldInv(d)' /\ CheckedInv(d)'
  <2>1. Target(d)' = Target(d) /\ Earlier(d)' = Earlier(d)
    BY <1>1, <1>2 DEF Target, Earlier
  <2>2. CallInv(d)'
    BY <1>1, <1>2, <2>1 DEF Inv, CallInv
  <2>3. HeldInv(d)'
    BY <1>1, <1>2, <2>1 DEF Inv, HeldInv, HoldsUser, Permitted, Authorized
  <2>4. CheckedInv(d)'
    BY <1>1, <1>2, <2>1
    DEF Inv, CheckedInv, HoldsName, PublicAlike, OwnAlike
  <2> QED BY <2>2, <2>3, <2>4
<1>6. ASSUME NEW d \in Calls, NEW e \in Calls PROVE LockInv(d, e)'
  <2>1. CASE d # c /\ e # c
    <3>1. Target(d)' = Target(d) /\ Target(e)' = Target(e)
      BY <1>1, <1>2, <2>1 DEF Target
    <3> QED BY <1>2, <2>1, <3>1
            DEF Inv, LockInv, HoldsRow, HoldsUser, HoldsName
  <2>2. CASE d = e
    BY <2>2 DEF LockInv
  <2>3. CASE d # e /\ (d = c \/ e = c)
    BY <2>3, LockSymmetric
  <2> QED BY <2>1, <2>2, <2>3
<1>7. ReplayInv'
  <2>1. ASSUME NEW d \in Calls, d # c, call'[d].answer = "replayed"
        PROVE  Own(d)' \in record'
    BY <1>1, <1>2, <2>1 DEF Inv, ReplayInv, Own
  <2> QED BY <1>1, <1>2, <2>1 DEF ReplayInv
<1> QED BY <1>3, <1>4, <1>5, <1>6, <1>7 DEF Inv

\* A call that goes on is for what it was.
LEMMA SameCall ==
    ASSUME Inv, NEW c \in Calls, NEW s, Become(c, s), UNCHANGED rows,
           call[c].pc # "idle", s.op = call[c].op, s.actor = call[c].actor,
           s.sub = call[c].sub, s.key = call[c].key, s.input = call[c].input
    PROVE  /\ call'[c] = s /\ CallInv(c)' /\ Own(c)' = Own(c)
           /\ Target(c)' = Target(c) /\ Earlier(c)' = Earlier(c)
           /\ \A d \in Calls \ {c} : call'[d] = call[d]
<1>1. call'[c] = s /\ \A d \in Calls \ {c} : call'[d] = call[d]
  BY DEF Inv, TypeOK, Become
<1>2. UNCHANGED <<request, record>>
  BY DEF rows
<1>3. Target(c)' = Target(c) /\ Earlier(c)' = Earlier(c) /\ Own(c)' = Own(c)
  BY <1>1, <1>2 DEF Target, Earlier, Own
<1>4. CallInv(c)'
  BY <1>1, <1>3 DEF Inv, CallInv
<1> QED BY <1>1, <1>3, <1>4

\* A call that holds no lock after the step.
LEMMA ReleaseInv ==
    ASSUME Inv, NEW c \in Calls, NEW s \in Call, Become(c, s),
           UNCHANGED <<rows, account, drafts>>,
           s.pc \notin {"user", "name", "commit"}, CallInv(c)',
           s.answer = "replayed" => Own(c)' \in record
    PROVE  Inv'
<1>1. call'[c] = s
  BY DEF Inv, TypeOK, Become
<1>2. ~HoldsRow(c)' /\ ~HoldsUser(c)' /\ ~HoldsName(c)'
  BY <1>1 DEF HoldsRow, HoldsUser, HoldsName
<1>3. HeldInv(c)' /\ CheckedInv(c)' /\ \A d \in Calls \ {c} : LockInv(c, d)'
  BY <1>2 DEF HeldInv, CheckedInv, LockInv
<1> QED BY <1>3, CallStepInv

LEMMA IdleInv ==
    ASSUME Inv, NEW c \in Calls, Become(c, Idle),
           UNCHANGED <<rows, account, drafts>>
    PROVE  Inv'
<1>1. Idle \in Call /\ Idle.pc = "idle" /\ Idle.answer = None
  BY CallTypes DEF Inv, Idle
<1>2. Idle.answer # "replayed"
  BY <1>1, NoneAssumption DEF Answers
<1>3. CallInv(c)'
  BY <1>1 DEF CallInv, Become, Inv, TypeOK
<1> QED BY <1>1, <1>2, <1>3, ReleaseInv

LEMMA AnswerInv ==
    ASSUME Inv, NEW c \in Calls, NEW a \in Answers, Answer(c, a),
           call[c].pc # "idle", UNCHANGED <<rows, account, drafts>>,
           a = "replayed" => Own(c) \in record
    PROVE  Inv'
<1> DEFINE s == [call[c] EXCEPT !.pc = "answered", !.answer = a]
<1>1. Become(c, s) /\ s \in Call
  BY AnswerBecome, CallTypes DEF Inv
<1>2. /\ s.pc = "answered" /\ s.answer = a
      /\ s.op = call[c].op /\ s.actor = call[c].actor /\ s.sub = call[c].sub
      /\ s.key = call[c].key /\ s.input = call[c].input
  BY DEF Inv, TypeOK, Call
<1>3. CallInv(c)' /\ Own(c)' = Own(c)
  BY <1>1, <1>2, SameCall
<1> QED BY <1>1, <1>2, <1>3, ReleaseInv

LEMMA GotoInv ==
    ASSUME Inv, NEW c \in Calls,
           NEW pc \in {"row", "user", "backfill", "name", "commit"},
           Goto(c, pc), call[c].pc # "idle",
           UNCHANGED <<rows, account, drafts>>,
           HeldInv(c)', CheckedInv(c)',
           \A d \in Calls \ {c} : LockInv(c, d)'
    PROVE  Inv'
<1> DEFINE s == [call[c] EXCEPT !.pc = pc]
<1>1. Become(c, s) /\ s \in Call
  BY GotoBecome, CallTypes DEF Inv
<1>2. /\ s.op = call[c].op /\ s.actor = call[c].actor /\ s.sub = call[c].sub
      /\ s.key = call[c].key /\ s.input = call[c].input
      /\ s.answer = call[c].answer
  BY DEF Inv, TypeOK, Call
<1>3. CallInv(c)' /\ Own(c)' = Own(c)
  BY <1>1, <1>2, SameCall
<1>4. s.answer = "replayed" => Own(c)' \in record
  BY <1>2, <1>3 DEF Inv, ReplayInv
<1> QED BY <1>1, <1>3, <1>4, CallStepInv

\* What Goto makes of the call and leaves of the others.
LEMMA GotoFacts ==
    ASSUME Inv, NEW c \in Calls, NEW pc, Goto(c, pc), call[c].pc # "idle",
           UNCHANGED <<rows, account>>
    PROVE  /\ call'[c].pc = pc
           /\ call'[c].op = call[c].op /\ call'[c].actor = call[c].actor
           /\ call'[c].sub = call[c].sub /\ call'[c].key = call[c].key
           /\ \A d \in Calls \ {c} : call'[d] = call[d]
           /\ UNCHANGED <<request, place, record, account>>
<1>1. Become(c, [call[c] EXCEPT !.pc = pc])
  BY GotoBecome DEF Inv
<1> QED BY <1>1 DEF Inv, TypeOK, Call, Become, rows

LEMMA LockRowInv == ASSUME Inv, NEW c \in Calls, LockRow(c) PROVE Inv'
<1>1. call[c].pc = "row" /\ UNCHANGED <<rows, account, drafts>>
  BY DEF LockRow
<1>2. CASE Answer(c, "missing")
  BY <1>1, <1>2, AnswerInv DEF Answers
<1>3. CASE Goto(c, "user")
  <2>1. /\ call'[c].pc = "user" /\ call'[c].sub = call[c].sub
        /\ \A d \in Calls \ {c} : call'[d] = call[d]
    BY <1>1, <1>3, GotoFacts
  <2>2. ~HoldsUser(c)' /\ ~HoldsName(c)'
    BY <2>1 DEF HoldsUser, HoldsName
  <2>3. \A d \in Calls \ {c} : HoldsRow(d)' => call'[c].sub # call'[d].sub
    BY <2>1 DEF LockRow, RowFree, HoldsRow
  <2>4. HeldInv(c)' /\ CheckedInv(c)' /\ \A d \in Calls \ {c} : LockInv(c, d)'
    BY <2>2, <2>3 DEF HeldInv, CheckedInv, LockInv
  <2> QED BY <1>1, <1>3, <2>4, GotoInv
<1> QED BY <1>2, <1>3 DEF LockRow

LEMMA DeclineInv == ASSUME Inv, NEW c \in Calls, Decline(c) PROVE Inv'
<1>1. call[c].pc = "user" /\ UNCHANGED <<rows, account, drafts>>
  BY DEF Decline, HasUser
<1>2. PICK a \in Answers : Answer(c, a) /\ (a = "replayed" => Match(c))
  BY DEF Decline, Answers
<1>3. Match(c) => Own(c) \in record
  BY DEF Match, Earlier
<1> QED BY <1>1, <1>2, <1>3, AnswerInv

LEMMA PrecheckInv == ASSUME Inv, NEW c \in Calls, Precheck(c) PROVE Inv'
<1>1. /\ call[c].pc = "user" /\ Goto(c, "backfill")
      /\ UNCHANGED <<rows, account, drafts>>
  BY DEF Precheck, Proceeds, HasUser
<1>2. ~HoldsRow(c)' /\ ~HoldsUser(c)' /\ ~HoldsName(c)'
  BY <1>1, GotoFacts DEF HoldsRow, HoldsUser, HoldsName
<1>3. HeldInv(c)' /\ CheckedInv(c)' /\ \A d \in Calls \ {c} : LockInv(c, d)'
  BY <1>2 DEF HeldInv, CheckedInv, LockInv
<1> QED BY <1>1, <1>3, GotoInv

LEMMA BackfillInv == ASSUME Inv, NEW c \in Calls, Backfill(c) PROVE Inv'
<1>1. call[c].pc = "backfill" /\ UNCHANGED <<rows, account, drafts>>
  BY DEF Backfill
<1>2. CASE Answer(c, "not_ready")
  BY <1>1, <1>2, AnswerInv DEF Answers
<1>3. CASE call' = [call EXCEPT ![c].pc = "row", ![c].first = FALSE]
  <2> DEFINE s == [call[c] EXCEPT !.pc = "row", !.first = FALSE]
  <2>1. Become(c, s) /\ s \in Call
    BY <1>3, CallTypes DEF Inv, TypeOK, Become
  <2>2. /\ s.pc = "row" /\ s.answer = call[c].answer
        /\ s.op = call[c].op /\ s.actor = call[c].actor
        /\ s.sub = call[c].sub /\ s.key = call[c].key
        /\ s.input = call[c].input
    BY DEF Inv, TypeOK, Call
  <2>3. CallInv(c)' /\ Own(c)' = Own(c)
    BY <1>1, <2>1, <2>2, SameCall
  <2>4. s.answer = "replayed" => Own(c)' \in record
    BY <2>2, <2>3 DEF Inv, ReplayInv
  <2> QED BY <1>1, <2>1, <2>2, <2>3, <2>4, ReleaseInv
<1> QED BY <1>2, <1>3 DEF Backfill

LEMMA SeekNameInv == ASSUME Inv, NEW c \in Calls, SeekName(c) PROVE Inv'
<1>1. /\ call[c].pc = "user" /\ UNCHANGED <<rows, account, drafts>>
      /\ Proceeds(c) /\ call[c].op \in Named /\ UserFree(call[c].actor)
  BY DEF SeekName, Proceeds, HasUser
<1>2. CASE Answer(c, "not_ready")
  BY <1>1, <1>2, AnswerInv DEF Answers
<1>3. CASE Goto(c, "name")
  <2>1. /\ call'[c].pc = "name" /\ call'[c].sub = call[c].sub
        /\ call'[c].actor = call[c].actor /\ call'[c].op = call[c].op
        /\ call'[c].key = call[c].key
        /\ \A d \in Calls \ {c} : call'[d] = call[d]
        /\ UNCHANGED <<request, record, account>>
    BY <1>1, <1>3, GotoFacts
  <2>2. ~HoldsName(c)' /\ HoldsRow(c) /\ HoldsRow(c)'
    BY <1>1, <2>1 DEF HoldsName, HoldsRow
  <2>3. HeldInv(c)'
    <3>1. Target(c)' = Target(c) /\ Earlier(c)' = Earlier(c)
      BY <2>1 DEF Target, Earlier
    <3> QED BY <1>1, <2>1, <3>1 DEF Proceeds, HeldInv, Permitted, Authorized
  <2>4. \A d \in Calls \ {c} : LockInv(c, d)'
    <3> SUFFICES ASSUME NEW d \in Calls \ {c} PROVE LockInv(c, d)'
      OBVIOUS
    <3>1. HoldsRow(d)' => call'[c].sub # call'[d].sub
      BY <2>1, <2>2 DEF Inv, LockInv, HoldsRow
    <3>2. HoldsUser(d)' => call'[c].actor # call'[d].actor
      BY <1>1, <2>1 DEF UserFree, HoldsUser
    <3> QED BY <2>2, <3>1, <3>2 DEF LockInv
  <2>5. CheckedInv(c)'
    BY <2>2 DEF CheckedInv
  <2> QED BY <1>1, <1>3, <2>3, <2>4, <2>5, GotoInv
<1> QED BY <1>2, <1>3 DEF SeekName

LEMMA CheckNameInv == ASSUME Inv, NEW c \in Calls, CheckName(c) PROVE Inv'
<1>1. call[c].pc = "name" /\ UNCHANGED <<rows, account, drafts>>
  BY DEF CheckName
<1>2. CASE Answer(c, "duplicate")
  BY <1>1, <1>2, AnswerInv DEF Answers
<1>3. CASE /\ Goto(c, "commit")
           /\ ~PublicAlike(c) /\ (call[c].op = "finalize" => ~OwnAlike(c))
  <2>1. /\ call'[c].pc = "commit" /\ call'[c].sub = call[c].sub
        /\ call'[c].actor = call[c].actor /\ call'[c].op = call[c].op
        /\ call'[c].key = call[c].key
        /\ \A d \in Calls \ {c} : call'[d] = call[d]
        /\ UNCHANGED <<request, place, record, account>>
    BY <1>1, <1>3, GotoFacts
  <2>2. Target(c)' = Target(c) /\ Earlier(c)' = Earlier(c)
    BY <2>1 DEF Target, Earlier
  <2>3. HoldsRow(c) /\ HoldsUser(c)
    BY <1>1 DEF HoldsRow, HoldsUser
  <2>4. HeldInv(c)'
    BY <2>1, <2>2, <2>3 DEF Inv, HeldInv, Permitted, Authorized
  <2>5. CheckedInv(c)'
    BY <1>3, <2>1, <2>2 DEF CheckedInv, PublicAlike, OwnAlike
  <2>6. \A d \in Calls \ {c} : LockInv(c, d)'
    <3> SUFFICES ASSUME NEW d \in Calls \ {c} PROVE LockInv(c, d)'
      OBVIOUS
    <3>1. Target(d)' = Target(d) /\ LockInv(c, d)
      BY <2>1 DEF Target, Inv
    <3>2. HoldsName(d)' => Target(c)'.proposal.name # Target(d)'.proposal.name
      BY <2>1, <2>2, <3>1 DEF CheckName, NameFree, HoldsName
    <3> QED BY <2>1, <2>3, <3>1, <3>2 DEF LockInv, HoldsRow, HoldsUser
  <2> QED BY <1>1, <1>3, <2>4, <2>5, <2>6, GotoInv
<1> QED BY <1>2, <1>3 DEF CheckName

LEMMA StartInv ==
    ASSUME Inv, NEW c \in Calls, NEW op \in Ops, NEW a \in Accounts,
           NEW t \in Subs, NEW key \in Keys \cup {None},
           NEW input \in Proposals \cup {None}, Start(c, op, a, t, key, input)
    PROVE  Inv'
<1> DEFINE s == [Idle EXCEPT !.pc = "row", !.op = op, !.actor = a, !.sub = t,
                             !.key = key, !.input = input,
                             !.first = (op = "approve")]
<1>1. Become(c, s) /\ UNCHANGED <<rows, account, drafts>>
  BY DEF Start, Become
<1>2. op \in DOMAIN From
  BY OpsAssumption
<1>3. /\ s.pc = "row" /\ s.op = op /\ s.actor = a /\ s.sub = t
      /\ s.input = input /\ s.answer = None
  BY DEF Idle
<1>4. s \in Call
  BY <1>2 DEF Idle, Call
<1>5. call'[c] = s /\ request' = request
  BY <1>1 DEF Become, Inv, TypeOK, rows
<1>6. CallInv(c)'
  <2>1. Target(c)' = request[t] /\ request[t].state # "none"
    BY <1>3, <1>5 DEF Target, Start
  <2>2. /\ op \notin Reviews \cup {"delete"} => request[t].owner = a
        /\ op = "edit" => input \in Proposals
    BY DEF Start
  <2> QED BY <1>2, <1>3, <1>5, <2>1, <2>2 DEF CallInv
<1>7. s.answer # "replayed"
  BY <1>3, NoneAssumption DEF Answers
<1> QED BY <1>1, <1>3, <1>4, <1>6, <1>7, ReleaseInv

-----------------------------------------------------------------------------
\* A step that changes the row of one submission

\* The row k of Request becomes row; owners are for ever.
Replaces(k, row) ==
    /\ row \in Request /\ row.state # "none"
    /\ row.owner \in Accounts /\ row.proposal \in Proposals
    /\ request[k].state # "none" => row.owner = request[k].owner
    /\ request' = [request EXCEPT ![k] = row]

LEMMA ReplaceFacts ==
    ASSUME RowsInv, NEW k \in Subs, NEW row, Replaces(k, row)
    PROVE  /\ request'[k] = row /\ request' \in [Subs -> Request]
           /\ \A s \in Subs \ {k} : request'[s] = request[s]
BY DEF RowsInv, Replaces

\* The calls that do not end with the step keep what they hold and know.
LEMMA OthersKept ==
    ASSUME Inv, NEW k \in Subs, NEW row, Replaces(k, row), UNCHANGED account,
           NEW D \in SUBSET Calls,
           \A d \in D : /\ call'[d].pc = call[d].pc /\ call'[d].op = call[d].op
                        /\ call'[d].actor = call[d].actor
                        /\ call'[d].sub = call[d].sub
                        /\ call'[d].key = call[d].key
                        /\ call'[d].input = call[d].input,
           \A d \in D : HoldsRow(d) => call[d].sub # k,
           \A d \in D : HoldsUser(d) =>
               /\ Earlier(d)' = Earlier(d)
               /\ row.state \in Open => row.owner # call[d].actor,
           \A d \in D : HoldsName(d) /\ PublicAlike(d)' => PublicAlike(d)
    PROVE  /\ \A d \in D : CallInv(d)' /\ HeldInv(d)' /\ CheckedInv(d)'
           /\ \A d, e \in D : LockInv(d, e)'
<1>1. /\ request'[k] = row
      /\ \A s \in Subs \ {k} : request'[s] = request[s]
  BY ReplaceFacts, InvRows DEF Inv
<1>2. ASSUME NEW d \in D PROVE CallInv(d)'
  <2>1. CASE call[d].pc # "idle"
    <3>1. call[d].sub \in Subs /\ CallInv(d)
      BY <2>1 DEF Inv, CallInv
    <3>2. Target(d)'.state # "none" /\ Target(d)'.owner = Target(d).owner
      BY <1>1, <2>1, <3>1 DEF Target, CallInv, Replaces
    <3> QED BY <2>1, <3>1, <3>2 DEF CallInv
  <2>2. CASE call[d].pc = "idle"
    BY <2>2 DEF CallInv
  <2> QED BY <2>1, <2>2
<1>3. ASSUME NEW d \in D, HoldsRow(d)
      PROVE  call[d].sub \in Subs \ {k} /\ Target(d)' = Target(d)
  <2>1. call[d].sub \in Subs
    BY <1>3 DEF Inv, CallInv, HoldsRow
  <2> QED BY <1>1, <1>3, <2>1 DEF Target
<1>4. ASSUME NEW d \in D PROVE HeldInv(d)' /\ CheckedInv(d)'
  <2>1. CASE ~HoldsUser(d)
    <3>1. ~HoldsUser(d)' /\ ~HoldsName(d)'
      BY <2>1 DEF HoldsUser, HoldsName
    <3> QED BY <3>1 DEF HeldInv, CheckedInv
  <2>2. CASE HoldsUser(d)
    <3>1. HoldsRow(d)
      BY <2>2 DEF HoldsRow, HoldsUser
    <3>2. Target(d)' = Target(d) /\ call[d].sub \in Subs \ {k}
      BY <1>3, <3>1
    <3>0. /\ call'[d].op = call[d].op /\ call'[d].actor = call[d].actor
          /\ call'[d].sub = call[d].sub /\ call'[d].pc = call[d].pc
          /\ Earlier(d)' = Earlier(d)
          /\ row.state \in Open => row.owner # call[d].actor
      BY <2>2
    <3>3. HeldInv(d)'
      <4>1. HeldInv(d)
        BY DEF Inv
      <4>2. Permitted(d)' /\ Authorized(d)'
        BY <2>2, <3>0, <3>2, <4>1 DEF HeldInv, Permitted, Authorized
      <4> QED BY <2>2, <3>0, <4>1, <4>2 DEF HeldInv
    <3>4. ASSUME OwnAlike(d)' PROVE OwnAlike(d)
      <4>1. PICK s \in Subs \ {call[d].sub} :
                /\ request'[s].owner = call[d].actor
                /\ request'[s].state \in Open
                /\ Alike(request'[s].proposal, Target(d).proposal)
        BY <3>0, <3>2, <3>4 DEF OwnAlike, Alike
      <4>2. s # k
        BY <1>1, <3>0, <4>1
      <4>3. request'[s] = request[s]
        BY <1>1, <4>2
      <4> QED BY <4>1, <4>3 DEF OwnAlike
    <3>5. CheckedInv(d)'
      BY <3>4 DEF Inv, CheckedInv, HoldsName
    <3> QED BY <3>3, <3>5
  <2> QED BY <2>1, <2>2
<1>5. ASSUME NEW d \in D, NEW e \in D PROVE LockInv(d, e)'
  <2>1. HoldsName(d) => HoldsRow(d) /\ Target(d)' = Target(d)
    BY <1>3 DEF HoldsName, HoldsRow
  <2>2. HoldsName(e) => HoldsRow(e) /\ Target(e)' = Target(e)
    BY <1>3 DEF HoldsName, HoldsRow
  <2>3. LockInv(d, e)
    BY DEF Inv
  <2> QED BY <2>1, <2>2, <2>3 DEF LockInv, HoldsRow, HoldsUser, HoldsName
<1> QED BY <1>2, <1>4, <1>5

LEMMA RowKept ==
    ASSUME RowsInv, NEW k \in Subs, NEW row, Replaces(k, row) PROVE RowInv'
BY ReplaceFacts DEF RowsInv, RowInv, Replaces

LEMMA PlacesKept ==
    ASSUME RowsInv, NEW k \in Subs, NEW row, Replaces(k, row), UNCHANGED place,
           request[k].state # "approved", row.state # "approved"
    PROVE  PlacesApart' /\ OnePlaceEach'
<1>1. PlacesApart'
  BY DEF RowsInv, PlacesApart
<1>2. /\ request'[k] = row
      /\ \A s \in Subs \ {k} : request'[s] = request[s]
  BY ReplaceFacts
<1>3. {t \in Subs : request'[t].state = "approved"} =
          {t \in Subs : request[t].state = "approved"}
  BY <1>2
<1>4. \A s \in {t \in Subs : request[t].state = "approved"} :
          request'[s].proposal = request[s].proposal
  BY <1>2
<1>5. OnePlaceEach'
  BY <1>3, <1>4 DEF RowsInv, OnePlaceEach
<1> QED BY <1>1, <1>5

LEMMA PendingKept ==
    ASSUME RowsInv, NEW k \in Subs, NEW row, Replaces(k, row), row.state # "pending"
    PROVE  PendingApart'
<1>1. /\ request'[k] = row
      /\ \A s \in Subs \ {k} : request'[s] = request[s]
  BY ReplaceFacts
<1>2. PendingApart
  BY DEF RowsInv
<1> QED BY <1>1, <1>2 DEF PendingApart

\* The event that goes with a step joins on to the history.
LEMMA EventStep ==
    ASSUME RowsInv, NEW k \in Subs, NEW row, Replaces(k, row),
           Event(k, request[k].state, row.state),
           request[k].state \in Open \cup {"none"}
    PROVE  EventsTellHistory' /\ EventInv'
<1> DEFINE e == event[k]
           new == [from |-> request[k].state, to |-> row.state]
           old(s) == IF s \in Legacy THEN {"pending"} ELSE {}
<1>1. /\ request'[k] = row
      /\ \A s \in Subs \ {k} : request'[s] = request[s]
  BY ReplaceFacts
<1>2. \A s \in Subs : event[s] \in Seq([from: State, to: State])
  BY DEF RowsInv
<1>3. /\ event'[k] = Append(e, new)
      /\ \A s \in Subs \ {k} : event'[s] = event[s]
  BY DEF Event, RowsInv
<1>4. /\ e # <<>> => request[k].state = e[Len(e)].to
      /\ e = <<>> => request[k].state \in {"none", "removed"} \cup old(k)
      /\ \A n \in DOMAIN e :
             /\ IF n = 1 THEN e[n].from \in {"none"} \cup old(k)
                ELSE e[n].from = e[n - 1].to
             /\ e[n].from \in Open \cup {"none"} /\ e[n].to # "none"
  BY DEF RowsInv, EventsTellHistory, EventInv
<1>5. /\ Len(event'[k]) = Len(e) + 1 /\ event'[k] # <<>>
      /\ DOMAIN event'[k] = 1 .. Len(e) + 1
      /\ event'[k][Len(e) + 1] = new
      /\ \A n \in DOMAIN e : event'[k][n] = e[n]
      /\ DOMAIN e = 1 .. Len(e) /\ Len(e) \in Nat
      /\ e = <<>> <=> Len(e) = 0
  <2> HIDE DEF e, new
  <2>1. e \in Seq([from: State, to: State]) /\ new \in [from: State, to: State]
    BY <1>2 DEF e, new, RowsInv, Request, Replaces
  <2> QED BY <1>3, <2>1
<1>6. event'[k][Len(event'[k])].to = request'[k].state
  BY <1>1, <1>5
<1>7. ASSUME NEW n \in DOMAIN event'[k]
      PROVE  /\ IF n = 1 THEN event'[k][n].from \in {"none"} \cup old(k)
                ELSE event'[k][n].from = event'[k][n - 1].to
             /\ event'[k][n].from \in Open \cup {"none"}
             /\ event'[k][n].to # "none"
  <2>1. CASE n \in DOMAIN e
    <3>1. n # 1 => n - 1 \in DOMAIN e
      BY <1>5, <2>1
    <3> QED BY <1>4, <1>5, <2>1, <3>1
  <2>2. CASE n \notin DOMAIN e
    <3>1. n = Len(e) + 1
      BY <1>5, <2>2
    <3>2. /\ event'[k][n].from = request[k].state
          /\ event'[k][n].to # "none"
      BY <1>5, <3>1 DEF Replaces
    <3>3. CASE n = 1
      <4>1. request[k].state \in {"none", "removed"} \cup old(k)
        BY <1>4, <1>5, <3>1, <3>3
      <4> QED BY <3>2, <3>3, <4>1 DEF Open
    <3>4. CASE n # 1
      <4>1. e # <<>> /\ n - 1 = Len(e) /\ n - 1 \in DOMAIN e
        BY <1>5, <3>1, <3>4
      <4> QED BY <1>4, <1>5, <3>2, <3>4, <4>1
    <3> QED BY <3>3, <3>4
  <2> QED BY <2>1, <2>2
<1>8. EventInv'
  <2>1. EventInv
    BY DEF RowsInv
  <2> QED BY <1>3, <1>7, <2>1 DEF EventInv
<1>9. EventsTellHistory'
  <2> SUFFICES ASSUME NEW s \in Subs
               PROVE  /\ IF event'[s] # <<>>
                         THEN request'[s].state = event'[s][Len(event'[s])].to
                         ELSE request'[s].state \in {"none", "removed"} \cup old(s)
                      /\ \A n \in DOMAIN event'[s] :
                             /\ IF n = 1
                                THEN event'[s][n].from \in {"none"} \cup old(s)
                                ELSE event'[s][n].from = event'[s][n - 1].to
                             /\ event'[s][n].from \in Open \cup {"none"}
    BY DEF EventsTellHistory
  <2>1. CASE s = k
    BY <1>5, <1>6, <1>7, <2>1
  <2>2. CASE s # k
    <3>1. event'[s] = event[s] /\ request'[s] = request[s]
      BY <1>1, <1>3, <2>2
    <3> QED BY <3>1 DEF RowsInv, EventsTellHistory
  <2> QED BY <2>1, <2>2
<1> QED BY <1>8, <1>9

\* A record under a key for which there was none.
LEMMA RecordStep ==
    ASSUME RowsInv, NEW r, record' \in {record, record \cup {r}},
           \A t \in record : ~(t.actor = r.actor /\ t.op = r.op /\ t.key = r.key)
    PROVE  KeyUsedOnce'
BY DEF RowsInv, KeyUsedOnce

\* The call c is done with its row, and the others are at most told that the
\* address they have read is not the row's.
Ends(c) ==
    /\ call' \in [Calls -> Call]
    /\ call'[c] = [call[c] EXCEPT !.pc = "answered", !.answer = "done"]
    /\ \A d \in Calls \ {c} :
           call'[d] = call[d] \/ call'[d] = [call[d] EXCEPT !.stale = TRUE]

LEMMA AnswerEnds ==
    ASSUME Inv, NEW c \in Calls, Answer(c, "done") PROVE Ends(c)
<1>1. [call[c] EXCEPT !.pc = "answered", !.answer = "done"] \in Call
  BY CallTypes DEF Inv, Answers
<1> QED BY <1>1 DEF Answer, Ends, Inv, TypeOK

LEMMA EndsFacts ==
    ASSUME Inv, NEW c \in Calls, Ends(c)
    PROVE  /\ call'[c].pc = "answered" /\ call'[c].answer = "done"
           /\ \A d \in Calls : /\ call'[d].op = call[d].op
                               /\ call'[d].actor = call[d].actor
                               /\ call'[d].sub = call[d].sub
                               /\ call'[d].key = call[d].key
                               /\ call'[d].input = call[d].input
           /\ \A d \in Calls \ {c} : /\ call'[d].pc = call[d].pc
                                     /\ call'[d].answer = call[d].answer
<1>1. \A d \in Calls : call[d] \in Call
  BY DEF Inv, TypeOK
<1>2. ASSUME NEW d \in Calls
      PROVE  /\ call'[d].op = call[d].op /\ call'[d].actor = call[d].actor
             /\ call'[d].sub = call[d].sub /\ call'[d].key = call[d].key
             /\ call'[d].input = call[d].input
             /\ d # c => /\ call'[d].pc = call[d].pc
                         /\ call'[d].answer = call[d].answer
  <2>1. CASE d = c
    BY <1>1, <2>1 DEF Ends, Call
  <2>2. CASE d # c
    BY <1>1, <2>2 DEF Ends, Call
  <2> QED BY <2>1, <2>2
<1>3. call'[c].pc = "answered" /\ call'[c].answer = "done"
  BY <1>1 DEF Ends, Call
<1> QED BY <1>2, <1>3

\* The calls after a step that ends one of them.
LEMMA EndInv ==
    ASSUME Inv, NEW c \in Calls, NEW row, Replaces(call[c].sub, row),
           UNCHANGED account, Ends(c), HasUser(c) \/ HoldsUser(c),
           row.state \in Open => row.owner = call[c].actor,
           record' \in {record, record \cup {Own(c)}},
           \A d \in Calls \ {c} : HoldsName(d) /\ PublicAlike(d)'
                                      => PublicAlike(d)
    PROVE  /\ \A d \in Calls : CallInv(d)' /\ HeldInv(d)' /\ CheckedInv(d)'
           /\ \A d, e \in Calls : LockInv(d, e)'
           /\ ReplayInv'
<1> DEFINE D == Calls \ {c}
           k == call[c].sub
<1>1. /\ call[c].pc # "idle" /\ HoldsRow(c)
      /\ \A d \in D : HoldsUser(d) => call[d].actor # call[c].actor
  <2>1. CASE HasUser(c)
    BY <2>1 DEF HasUser, HoldsRow, UserFree
  <2>2. CASE HoldsUser(c)
    BY <2>2 DEF Inv, LockInv, HoldsUser, HoldsRow
  <2> QED BY <2>1, <2>2
<1>2. k \in Subs /\ CallInv(c)
  BY <1>1 DEF Inv, CallInv
<1>3. ASSUME NEW d \in D
      PROVE  /\ call'[d].pc = call[d].pc /\ call'[d].op = call[d].op
             /\ call'[d].actor = call[d].actor /\ call'[d].sub = call[d].sub
             /\ call'[d].key = call[d].key /\ call'[d].input = call[d].input
  BY EndsFacts
<1>4. ASSUME NEW d \in D, HoldsRow(d) PROVE call[d].sub # k
  BY <1>1, <1>4 DEF Inv, LockInv
<1>5. ASSUME NEW d \in D, HoldsUser(d)
      PROVE  /\ Earlier(d)' = Earlier(d)
             /\ row.state \in Open => row.owner # call[d].actor
  <2>1. call[d].actor # call[c].actor
    BY <1>1, <1>5
  <2>2. Own(c).actor = call[c].actor
    BY DEF Own
  <2>3. Earlier(d)' = Earlier(d)
    BY <1>3, <2>1, <2>2 DEF Earlier
  <2> QED BY <2>1, <2>3
<1>6. /\ \A d \in D : CallInv(d)' /\ HeldInv(d)' /\ CheckedInv(d)'
      /\ \A d, e \in D : LockInv(d, e)'
  <2> HIDE DEF D, k
  <2>1. Replaces(k, row) /\ D \in SUBSET Calls
    BY DEF k, D
  <2>2. \A d \in D : HoldsName(d) /\ PublicAlike(d)' => PublicAlike(d)
    BY DEF D
  <2> QED BY <1>2, <1>3, <1>4, <1>5, <2>1, <2>2, OthersKept
<1>7. /\ call'[c].pc = "answered" /\ call'[c].op = call[c].op
      /\ call'[c].actor = call[c].actor /\ call'[c].sub = k
      /\ call'[c].input = call[c].input
  BY EndsFacts
<1>8. CallInv(c)'
  <2>1. request'[k] = row /\ request[k].state # "none"
    BY <1>1, <1>2, ReplaceFacts, InvRows DEF Inv, CallInv, Target
  <2>2. row.state # "none" /\ row.owner = request[k].owner
    BY <2>1 DEF Replaces
  <2> QED BY <1>1, <1>2, <1>7, <2>1, <2>2 DEF CallInv, Target
<1>9. ~HoldsRow(c)' /\ ~HoldsUser(c)' /\ ~HoldsName(c)'
  BY <1>7 DEF HoldsRow, HoldsUser, HoldsName
<1>10. HeldInv(c)' /\ CheckedInv(c)'
  BY <1>9 DEF HeldInv, CheckedInv
<1>11. ASSUME NEW d \in Calls PROVE LockInv(c, d)' /\ LockInv(d, c)'
  BY <1>9 DEF LockInv
<1>12. ReplayInv'
  <2> SUFFICES ASSUME NEW d \in Calls, call'[d].answer = "replayed"
               PROVE  Own(d)' \in record'
    BY DEF ReplayInv
  <2>1. d # c
    BY EndsFacts
  <2>2. call[d].answer = "replayed" /\ Own(d)' = Own(d)
    BY <2>1, EndsFacts DEF Own
  <2> QED BY <2>2 DEF Inv, ReplayInv
<1> QED BY <1>6, <1>8, <1>10, <1>11, <1>12

-----------------------------------------------------------------------------
\* The steps that end a call

LEMMA OwnType ==
    ASSUME Inv, NEW c \in Calls, call[c].pc # "idle", call[c].key # None
    PROVE  Own(c) \in Record
<1>1. call[c] \in Call /\ CallInv(c)
  BY DEF Inv, TypeOK
<1> QED BY <1>1 DEF CallInv, Call, Own, Record

\* A completed operation writes the row, an event and the record of its key.
LEMMA WriteInv ==
    ASSUME Inv, NEW c \in Calls, NEW row, Replaces(call[c].sub, row),
           HasUser(c) \/ HoldsUser(c), Earlier(c) = {}, Permitted(c),
           call[c].op # "delete", row.state = To[call[c].op], Complete(c),
           Ends(c), UNCHANGED <<account, due>>, idle' = idle \ {call[c].sub},
           place' \subseteq [proposal: Proposals, source: Subs],
           PlacesApart', OnePlaceEach', PendingApart',
           \A d \in Calls \ {c} : HoldsName(d) /\ PublicAlike(d)'
                                      => PublicAlike(d)
    PROVE  Inv'
<1> DEFINE k == call[c].sub
<1>1. call[c].pc # "idle" /\ CallInv(c) /\ k \in Subs
  BY DEF Inv, CallInv, HasUser, HoldsUser
<1>2. /\ request[k].state \in Open /\ Target(c) = request[k]
      /\ call[c].op \in {"edit", "finalize", "withdraw", "approve", "reject"}
  BY <1>1, Operations DEF CallInv, Permitted, Target, Open
<1>3. row.owner = request[k].owner
  BY <1>2 DEF Replaces, Open
<1>4. row.state \in Open => row.owner = call[c].actor
  BY <1>1, <1>2, <1>3, Operations DEF CallInv, Open, Reviews
<1>5. record' \in {record, record \cup {Own(c)}} /\ record' \subseteq Record
  BY <1>1, OwnType DEF Complete, Inv, TypeOK
<1>6. /\ \A d \in Calls : CallInv(d)' /\ HeldInv(d)' /\ CheckedInv(d)'
      /\ \A d, e \in Calls : LockInv(d, e)'
      /\ ReplayInv'
  BY <1>4, <1>5, EndInv
<1>7. EventsTellHistory' /\ EventInv'
  <2>1. Event(k, request[k].state, row.state)
    BY <1>2 DEF Complete
  <2> HIDE DEF k
  <2>2. Replaces(k, row)
    BY DEF k
  <2> QED BY <1>1, <1>2, <2>1, <2>2, EventStep, InvRows
<1>8. RowInv'
  BY <1>1, RowKept, InvRows
<1>9. KeyUsedOnce'
  <2>1. \A t \in record : ~(/\ t.actor = Own(c).actor /\ t.op = Own(c).op
                            /\ t.key = Own(c).key)
    BY DEF Earlier, Own
  <2> QED BY <1>5, <2>1, RecordStep, InvRows
<1>10. TypeOK'
  <2>1. request' \in [Subs -> Request]
    BY <1>1, ReplaceFacts, InvRows DEF Inv
  <2>2. event' \in [Subs -> Seq([from: State, to: State])]
    <3>1. request[k].state \in State /\ row.state \in State
      BY <1>1 DEF Inv, TypeOK, Request, Replaces
    <3>2. event' = [event EXCEPT ![k] = Append(@, [from |-> request[k].state,
                                                   to |-> row.state])]
      BY <1>2 DEF Complete, Event
    <3>3. [from |-> request[k].state, to |-> row.state]
              \in [from: State, to: State]
      BY <3>1
    <3> HIDE DEF k
    <3>4. event[k] \in Seq([from: State, to: State])
      BY <1>1 DEF Inv, TypeOK
    <3>5. Append(event[k], [from |-> request[k].state, to |-> row.state])
              \in Seq([from: State, to: State])
      BY <3>3, <3>4
    <3> QED BY <1>1, <3>2, <3>5 DEF Inv, TypeOK
  <2>3. call' \in [Calls -> Call]
    BY DEF Ends
  <2> QED BY <1>5, <2>1, <2>2, <2>3 DEF Inv, TypeOK
<1> QED BY <1>6, <1>7, <1>8, <1>9, <1>10 DEF Inv

\* The rows that the other calls hold are not the one that is written.
LEMMA EndTargets ==
    ASSUME Inv, NEW c \in Calls, NEW row, Replaces(call[c].sub, row), Ends(c),
           HasUser(c) \/ HoldsUser(c), NEW d \in Calls \ {c}, HoldsName(d)
    PROVE  Target(d)' = Target(d)
<1>1. HoldsRow(c) /\ HoldsRow(d) /\ LockInv(c, d) /\ CallInv(c) /\ CallInv(d)
  BY DEF HasUser, HoldsUser, HoldsName, HoldsRow, Inv
<1>2. call[d].sub \in Subs \ {call[c].sub} /\ call[c].sub \in Subs
  BY <1>1 DEF LockInv, CallInv, HoldsRow
<1> QED BY <1>2, EndsFacts, ReplaceFacts, InvRows DEF Inv, Target

LEMMA RowTypes ==
    ASSUME Inv, NEW c \in Calls, call[c].pc # "idle"
    PROVE  /\ call[c].sub \in Subs /\ Target(c) \in Request
           /\ \A s \in State : [Target(c) EXCEPT !.state = s].state = s
           /\ \A s \in State \ {"none"} :
                  request' = [request EXCEPT ![call[c].sub].state = s] =>
                      Replaces(call[c].sub, [Target(c) EXCEPT !.state = s])
           /\ \A p \in Proposals :
                  request' = [request EXCEPT ![call[c].sub].proposal = p] =>
                      Replaces(call[c].sub, [Target(c) EXCEPT !.proposal = p])
<1>1. CallInv(c) /\ call[c].sub \in Subs
  BY DEF Inv, CallInv
<1>2. /\ Target(c) \in Request /\ Target(c).state # "none"
      /\ Target(c).owner \in Accounts /\ Target(c).proposal \in Proposals
  BY <1>1 DEF CallInv, Inv, RowInv, TypeOK, Target
<1>3. ASSUME NEW s \in State
      PROVE  /\ [Target(c) EXCEPT !.state = s].state = s
             /\ [Target(c) EXCEPT !.state = s].owner = Target(c).owner
             /\ [Target(c) EXCEPT !.state = s].proposal = Target(c).proposal
             /\ [Target(c) EXCEPT !.state = s] \in Request
  BY <1>2 DEF Request
<1>4. ASSUME NEW p \in Proposals
      PROVE  /\ [Target(c) EXCEPT !.proposal = p].state = Target(c).state
             /\ [Target(c) EXCEPT !.proposal = p].owner = Target(c).owner
             /\ [Target(c) EXCEPT !.proposal = p].proposal = p
             /\ [Target(c) EXCEPT !.proposal = p] \in Request
  BY <1>2 DEF Request
<1>5. ASSUME NEW s \in State \ {"none"},
             request' = [request EXCEPT ![call[c].sub].state = s]
      PROVE  Replaces(call[c].sub, [Target(c) EXCEPT !.state = s])
  BY <1>2, <1>3, <1>5 DEF Replaces, Target
<1>6. ASSUME NEW p \in Proposals,
             request' = [request EXCEPT ![call[c].sub].proposal = p]
      PROVE  Replaces(call[c].sub, [Target(c) EXCEPT !.proposal = p])
  BY <1>2, <1>4, <1>6 DEF Replaces, Target
<1> QED BY <1>1, <1>2, <1>3, <1>5, <1>6

LEMMA CloseInv == ASSUME Inv, NEW c \in Calls, Close(c) PROVE Inv'
<1> DEFINE k == call[c].sub
           row == [Target(c) EXCEPT !.state = To[call[c].op]]
<1>1. /\ HasUser(c) /\ Earlier(c) = {} /\ Permitted(c) /\ Complete(c)
      /\ call[c].op \in {"withdraw", "reject"} /\ Ends(c)
      /\ call[c].pc # "idle" /\ UNCHANGED <<account, due, place>>
      /\ idle' = idle \ {call[c].sub}
  BY AnswerEnds DEF Close, Proceeds, HasUser
<1>2. /\ To[call[c].op] \in State \ {"none"}
      /\ To[call[c].op] # "pending" /\ To[call[c].op] # "approved"
      /\ request[k].state # "approved"
  BY <1>1, Operations DEF State, Open, Permitted, Target
<1>3. Replaces(k, row) /\ row.state = To[call[c].op] /\ k \in Subs
  BY <1>1, <1>2, RowTypes DEF Close
<1> HIDE DEF row, k
<1>4. PlacesApart' /\ OnePlaceEach' /\ PendingApart'
  <2>0. row.state # "pending" /\ row.state # "approved"
    BY <1>2, <1>3
  <2>1. place' = place
    BY <1>1
  <2>2. PlacesApart' /\ OnePlaceEach'
    BY <1>2, <1>3, <2>0, <2>1, PlacesKept, InvRows
  <2>3. PendingApart'
    BY <1>3, <2>0, PendingKept, InvRows
  <2> QED BY <2>2, <2>3
<1>5. \A d \in Calls \ {c} : HoldsName(d) /\ PublicAlike(d)' => PublicAlike(d)
  <2> SUFFICES ASSUME NEW d \in Calls \ {c}, HoldsName(d), PublicAlike(d)'
               PROVE  PublicAlike(d)
    OBVIOUS
  <2>1. Target(d)' = Target(d)
    BY <1>1, <1>3, EndTargets DEF k
  <2> QED BY <1>1, <2>1 DEF PublicAlike
<1> QED BY <1>1, <1>3, <1>4, <1>5, WriteInv DEF k, Inv, TypeOK

LEMMA HardDeleteInv == ASSUME Inv, NEW c \in Calls, HardDelete(c) PROVE Inv'
<1> DEFINE k == call[c].sub
           row == [Target(c) EXCEPT !.state = "removed"]
<1>1. /\ HasUser(c) /\ Permitted(c) /\ call[c].op = "delete"
      /\ call[c].pc # "idle"
      /\ UNCHANGED <<event, place, record, account, drafts>>
  BY DEF HardDelete, Proceeds, HasUser
<1>2. CASE Answer(c, "refused") /\ UNCHANGED request
  <2>1. UNCHANGED <<rows, account, drafts>>
    BY <1>1, <1>2 DEF rows
  <2> QED BY <1>1, <1>2, <2>1, AnswerInv DEF Answers
<1>3. CASE /\ event[k] = <<>>
           /\ request' = [request EXCEPT ![k].state = "removed"]
           /\ Answer(c, "done")
  <2>1. Replaces(k, row) /\ row.state = "removed" /\ k \in Subs /\ Ends(c)
    BY <1>1, <1>3, RowTypes, AnswerEnds DEF State
  <2>2. request[k].state # "approved"
    BY <1>1 DEF Permitted, Target, From
  <2>3. event[k] = <<>> /\ Replaces(call[c].sub, row)
    BY <1>3, <2>1
  <2>4. /\ event' = event /\ place' = place /\ record' = record
        /\ account' = account /\ idle' = idle /\ due' = due
    BY <1>1 DEF drafts
  <2> HIDE DEF row, k
  <2>5. PlacesApart' /\ OnePlaceEach' /\ PendingApart' /\ RowInv'
    <3>1. row.state # "pending" /\ row.state # "approved"
      BY <2>1
    <3>2. PlacesApart' /\ OnePlaceEach'
      BY <2>1, <2>2, <2>4, <3>1, PlacesKept, InvRows
    <3>3. PendingApart' /\ RowInv'
      BY <2>1, <3>1, PendingKept, RowKept, InvRows
    <3> QED BY <3>2, <3>3
  <2>6. \A d \in Calls \ {c} : HoldsName(d) /\ PublicAlike(d)' => PublicAlike(d)
    <3> SUFFICES ASSUME NEW d \in Calls \ {c}, HoldsName(d), PublicAlike(d)'
                 PROVE  PublicAlike(d)
      OBVIOUS
    <3>1. Target(d)' = Target(d)
      BY <1>1, <2>1, <2>3, EndTargets
    <3> QED BY <2>4, <3>1 DEF PublicAlike
  <2>7. /\ \A d \in Calls : CallInv(d)' /\ HeldInv(d)' /\ CheckedInv(d)'
        /\ \A d, e \in Calls : LockInv(d, e)'
        /\ ReplayInv'
    <3>1. row.state \notin Open /\ record' \in {record, record \cup {Own(c)}}
      BY <2>1, <2>4 DEF Open
    <3> QED BY <1>1, <2>1, <2>3, <2>4, <2>6, <3>1, EndInv
  <2>8. /\ request'[k] = row /\ request' \in [Subs -> Request]
        /\ \A s \in Subs \ {k} : request'[s] = request[s]
    BY <2>1, ReplaceFacts, InvRows DEF Inv
  <2>9. EventsTellHistory'
    BY <2>1, <2>3, <2>4, <2>8 DEF Inv, EventsTellHistory
  <2>10. EventInv' /\ KeyUsedOnce' /\ TypeOK'
    BY <2>1, <2>4, <2>8 DEF Inv, EventInv, KeyUsedOnce, TypeOK, Ends
  <2> QED BY <2>5, <2>7, <2>9, <2>10 DEF Inv
<1> QED BY <1>2, <1>3 DEF HardDelete

LEMMA EditInv == ASSUME Inv, NEW c \in Calls, Edit(c) PROVE Inv'
<1> DEFINE k == call[c].sub
           row == [Target(c) EXCEPT !.proposal = call[c].input]
<1>1. /\ HasUser(c) /\ Earlier(c) = {} /\ Permitted(c) /\ Complete(c)
      /\ call[c].op = "edit" /\ call[c].pc # "idle"
      /\ idle' = idle \ {call[c].sub}
      /\ request' = [request EXCEPT ![k].proposal = call[c].input]
  BY DEF Edit, Proceeds, HasUser
<1>2. place' = place /\ account' = account /\ due' = due
  BY DEF Edit
<1>3. call[c].input \in Proposals /\ Target(c) = request[k]
  BY <1>1 DEF Inv, CallInv, Target
<1>4. request[k].state = "draft" /\ To[call[c].op] = "draft"
  BY <1>1, <1>3, Operations DEF Permitted
<1>5. Replaces(k, row) /\ k \in Subs /\ row.state = "draft"
  <2>1. Target(c) \in Request
    BY <1>1, RowTypes
  <2> QED BY <1>1, <1>3, <1>4, <2>1, RowTypes DEF Request
<1>6. Ends(c)
  <2>1. \A d \in Calls : /\ [call[d] EXCEPT !.stale = TRUE] \in Call
                         /\ call[d] \in Call
    BY CallTypes DEF Inv, TypeOK
  <2>2. [call[c] EXCEPT !.pc = "answered", !.answer = "done"] \in Call
    BY CallTypes DEF Inv, Answers
  <2> QED BY <2>1, <2>2 DEF Edit, Ends
<1> HIDE DEF row, k
<1>7. PlacesApart' /\ OnePlaceEach' /\ PendingApart'
  <2>1. /\ row.state # "pending" /\ row.state # "approved"
        /\ request[k].state # "approved"
    BY <1>4, <1>5
  <2>2. PlacesApart' /\ OnePlaceEach'
    BY <1>2, <1>5, <2>1, PlacesKept, InvRows
  <2>3. PendingApart'
    BY <1>5, <2>1, PendingKept, InvRows
  <2> QED BY <2>2, <2>3
<1>8. \A d \in Calls \ {c} : HoldsName(d) /\ PublicAlike(d)' => PublicAlike(d)
  <2> SUFFICES ASSUME NEW d \in Calls \ {c}, HoldsName(d), PublicAlike(d)'
               PROVE  PublicAlike(d)
    OBVIOUS
  <2>1. Target(d)' = Target(d)
    BY <1>1, <1>5, <1>6, EndTargets DEF k
  <2> QED BY <1>2, <2>1 DEF PublicAlike
<1>9. place' \subseteq [proposal: Proposals, source: Subs]
  BY <1>2 DEF Inv, TypeOK
<1>10. call[c].op # "delete" /\ row.state = To[call[c].op]
  BY <1>1, <1>4, <1>5
<1> QED BY <1>1, <1>2, <1>5, <1>6, <1>7, <1>8, <1>9, <1>10, WriteInv DEF k

\* A finalization comes after a look at the owner's other submissions, an
\* approval after one at the places, with the lock under which others look.
LEMMA CommitInv == ASSUME Inv, NEW c \in Calls, Commit(c) PROVE Inv'
<1> DEFINE k == call[c].sub
           row == [Target(c) EXCEPT !.state = To[call[c].op]]
<1>1. /\ call[c].pc = "commit" /\ HoldsUser(c) /\ HoldsName(c)
      /\ call[c].op \in {"finalize", "approve"} /\ Permitted(c)
      /\ Earlier(c) = {} /\ ~PublicAlike(c)
      /\ call[c].op = "finalize" => ~OwnAlike(c)
  BY DEF Commit, Inv, HeldInv, CheckedInv, HoldsUser, HoldsName, Named
<1>2. CASE Answer(c, "not_ready") /\ UNCHANGED <<rows, idle, account, due>>
  BY <1>1, <1>2, AnswerInv DEF Answers, drafts
<1>3. CASE /\ request' = [request EXCEPT ![k].state = To[call[c].op]]
           /\ place' = IF call[c].op = "finalize" THEN place
                       ELSE place \cup {[proposal |-> Target(c).proposal,
                                         source |-> k]}
           /\ Complete(c) /\ Answer(c, "done") /\ idle' = idle \ {k}
           /\ account' = account /\ due' = due
  <2>1. To[call[c].op] \in State \ {"none"}
    BY <1>1, Operations DEF State, Open
  <2>2. Replaces(k, row) /\ k \in Subs /\ row.state = To[call[c].op] /\ Ends(c)
    BY <1>1, <1>3, <2>1, RowTypes, AnswerEnds
  <2>3. /\ Target(c) = request[k] /\ request[k].state # "approved"
        /\ row.proposal = request[k].proposal /\ row.owner = request[k].owner
        /\ request[k].proposal \in Proposals
    <3>1. Target(c) = request[k] /\ Target(c) \in Request
      BY <1>1, RowTypes DEF Target
    <3>2. request[k].state # "approved" /\ request[k].state # "none"
      BY <1>1, <3>1, Operations DEF Permitted
    <3> QED BY <2>2, <3>1, <3>2 DEF Request, Inv, RowInv
  <2>4. /\ due' = due
        /\ idle' = idle \ {call[c].sub} /\ Replaces(call[c].sub, row)
        /\ call[c].op # "delete"
    BY <1>1, <1>3, <2>2
  <2> HIDE DEF row, k
  <2>5. /\ request'[k] = row
        /\ \A s \in Subs \ {k} : request'[s] = request[s]
    BY <2>2, ReplaceFacts, InvRows DEF Inv
  <2>6. ASSUME NEW d \in Calls \ {c}, HoldsName(d), PublicAlike(d)'
        PROVE  PublicAlike(d)
    <3>1. Target(d)' = Target(d)
      BY <1>1, <2>2, <2>4, <2>6, EndTargets
    <3>2. Target(c).proposal.name # Target(d).proposal.name
      BY <1>1, <2>6 DEF Inv, LockInv
    <3>3. PICK p \in place' : Alike(p.proposal, Target(d).proposal)
      BY <2>6, <3>1 DEF PublicAlike, Alike
    <3>4. p \in place
      BY <1>3, <3>2, <3>3 DEF Alike
    <3> QED BY <3>3, <3>4 DEF PublicAlike
  <2>7. PlacesApart' /\ OnePlaceEach' /\ PendingApart'
    <3>1. CASE call[c].op = "finalize"
      <4>1. row.state = "pending" /\ place' = place
        BY <1>3, <2>2, <3>1, Operations
      <4>2. PlacesApart' /\ OnePlaceEach'
        BY <2>2, <2>3, <4>1, PlacesKept, InvRows
      <4>3. request[k].owner = call[c].actor
        BY <1>1, <2>3, <3>1 DEF Inv, CallInv, Reviews
      <4>4. ASSUME NEW s \in Subs \ {k}, request[s].owner = request[k].owner,
                   request[s].state = "pending"
            PROVE  /\ ~Alike(request[s].proposal, request[k].proposal)
                   /\ ~Alike(request[k].proposal, request[s].proposal)
        <5>1. ~Alike(request[s].proposal, request[k].proposal)
          BY <1>1, <2>3, <3>1, <4>3, <4>4 DEF OwnAlike, Open, k
        <5> QED BY <5>1, AlikeSymmetric
      <4>5. PendingApart'
        BY <2>3, <2>5, <4>1, <4>4 DEF Inv, PendingApart
      <4> QED BY <4>2, <4>5
    <3>2. CASE call[c].op = "approve"
      <4> DEFINE new == [proposal |-> request[k].proposal, source |-> k]
      <4>1. row.state = "approved" /\ place' = place \cup {new}
        BY <1>3, <2>2, <2>3, <3>2, Operations
      <4>2. \A p \in place : ~Alike(p.proposal, new.proposal) /\
                             ~Alike(new.proposal, p.proposal)
        BY <1>1, <2>3, AlikeSymmetric DEF PublicAlike
      <4>3. PlacesApart'
        BY <4>1, <4>2 DEF Inv, PlacesApart
      <4>4. OnePlaceEach'
        <5>1. {t \in Subs : request'[t].state = "approved"} =
                  {t \in Subs : request[t].state = "approved"} \cup {k}
          BY <2>2, <2>5, <4>1
        <5>2. \A s \in {t \in Subs : request[t].state = "approved"} \cup {k} :
                  request'[s].proposal = request[s].proposal
          BY <2>3, <2>5
        <5> QED BY <4>1, <5>1, <5>2 DEF Inv, OnePlaceEach
      <4>5. PendingApart'
        <5>1. row.state # "pending"
          BY <4>1
        <5> QED BY <2>2, <5>1, PendingKept, InvRows
      <4> QED BY <4>3, <4>4, <4>5
    <3> QED BY <1>1, <3>1, <3>2
  <2>8. place' \subseteq [proposal: Proposals, source: Subs]
    BY <1>3, <2>2, <2>3 DEF Inv, TypeOK
  <2>9. UNCHANGED <<account, due>> /\ Complete(c)
    BY <1>3
  <2> QED BY <1>1, <2>2, <2>4, <2>6, <2>7, <2>8, <2>9, WriteInv
<1> QED BY <1>2, <1>3 DEF Commit

-----------------------------------------------------------------------------
\* The steps of no call

LEMMA EventType ==
    ASSUME RowsInv, NEW k \in Subs, NEW from \in State, NEW to \in State,
           Event(k, from, to)
    PROVE  event' \in [Subs -> Seq([from: State, to: State])]
<1>1. event[k] \in Seq([from: State, to: State])
  BY DEF RowsInv
<1>2. [from |-> from, to |-> to] \in [from: State, to: State]
  OBVIOUS
<1>3. Append(event[k], [from |-> from, to |-> to])
          \in Seq([from: State, to: State])
  BY <1>1, <1>2
<1> QED BY <1>3 DEF RowsInv, Event

\* A draft is made or expires, under the lock of its owner or its own.
LEMMA RowStepInv ==
    ASSUME Inv, NEW k \in Subs, NEW row, Replaces(k, row),
           UNCHANGED <<account, call, place>>,
           Event(k, request[k].state, row.state),
           request[k].state \in {"none", "draft"},
           row.state \in {"draft", "expired"},
           \A d \in Calls : HoldsRow(d) => call[d].sub # k,
           \A d \in Calls : HoldsUser(d) =>
               /\ Earlier(d)' = Earlier(d)
               /\ row.state \in Open => row.owner # call[d].actor,
           record \subseteq record', record' \subseteq Record, KeyUsedOnce',
           idle' \subseteq Subs, due' \in Subs \cup {None}
    PROVE  Inv'
<1>1. /\ request'[k] = row /\ request' \in [Subs -> Request]
      /\ \A s \in Subs \ {k} : request'[s] = request[s]
  BY ReplaceFacts, InvRows DEF Inv
<1>2. ASSUME NEW d \in Calls, HoldsName(d), PublicAlike(d)'
      PROVE  PublicAlike(d)
  <2>1. HoldsRow(d) /\ call[d].sub \in Subs
    BY <1>2 DEF HoldsName, HoldsRow, Inv, CallInv
  <2>2. Target(d)' = Target(d)
    BY <1>1, <2>1 DEF Target
  <2> QED BY <1>2, <2>2 DEF PublicAlike
<1>3. /\ \A d \in Calls : CallInv(d)' /\ HeldInv(d)' /\ CheckedInv(d)'
      /\ \A d, e \in Calls : LockInv(d, e)'
  <2>1. Calls \in SUBSET Calls /\ account' = account
    OBVIOUS
  <2>2. \A d \in Calls : /\ call'[d].pc = call[d].pc
                         /\ call'[d].op = call[d].op
                         /\ call'[d].actor = call[d].actor
                         /\ call'[d].sub = call[d].sub
                         /\ call'[d].key = call[d].key
                         /\ call'[d].input = call[d].input
    OBVIOUS
  <2> QED BY <1>2, <2>1, <2>2, OthersKept
<1>4. PlacesApart' /\ OnePlaceEach' /\ PendingApart' /\ RowInv'
  <2>1. /\ row.state # "pending" /\ row.state # "approved"
        /\ request[k].state # "approved" /\ place' = place
    OBVIOUS
  <2>2. PlacesApart' /\ OnePlaceEach'
    BY <2>1, PlacesKept, InvRows
  <2>3. PendingApart' /\ RowInv'
    BY <2>1, PendingKept, RowKept, InvRows
  <2> QED BY <2>2, <2>3
<1>5. EventsTellHistory' /\ EventInv'
  BY EventStep, InvRows DEF Open
<1>6. ReplayInv'
  <2>1. \A d \in Calls : Own(d)' = Own(d) /\ call'[d] = call[d]
    BY DEF Own
  <2> QED BY <2>1 DEF Inv, ReplayInv
<1>7. TypeOK'
  <2>1. request[k].state \in State /\ row.state \in State
    BY DEF State, Open
  <2>2. event' \in [Subs -> Seq([from: State, to: State])]
    BY <2>1, EventType, InvRows DEF Inv
  <2> QED BY <1>1, <2>2 DEF Inv, TypeOK
<1> QED BY <1>3, <1>4, <1>5, <1>6, <1>7 DEF Inv

LEMMA CreateInv ==
    ASSUME Inv, NEW a \in Accounts, NEW s \in Subs, NEW p \in Proposals,
           NEW key \in Keys \cup {None}, Create(a, s, p, key)
    PROVE  Inv'
<1> DEFINE row == [state |-> "draft", owner |-> a, proposal |-> p]
           r == [actor |-> a, op |-> "create", key |-> key, sub |-> s,
                 input |-> p]
<1>1. /\ request[s].state = "none" /\ UserFree(a)
      /\ ~\E t \in record : t.actor = a /\ t.op = "create" /\ t.key = key
      /\ request' = [request EXCEPT ![s] = row]
      /\ Event(s, "none", "draft")
      /\ record' = IF key = None THEN record ELSE record \cup {r}
      /\ place' = place /\ account' = account /\ call' = call
      /\ idle' = idle /\ due' = due
  BY DEF Create, drafts
<1>2. Replaces(s, row) /\ row.state = "draft" /\ row.owner = a
  BY <1>1 DEF Replaces, Request, State, Open
<1>3. record' \in {record, record \cup {r}} /\ record' \subseteq Record
  BY <1>1 DEF Record, Inv, TypeOK
<1>4. KeyUsedOnce'
  <2>1. \A t \in record : ~(t.actor = r.actor /\ t.op = r.op /\ t.key = r.key)
    BY <1>1
  <2> HIDE DEF r
  <2> QED BY <1>3, <2>1, RecordStep, InvRows
<1>5. ASSUME NEW d \in Calls, HoldsRow(d) PROVE call[d].sub # s
  BY <1>1, <1>5 DEF Inv, CallInv, HoldsRow, Target
<1>6. ASSUME NEW d \in Calls, HoldsUser(d)
      PROVE  Earlier(d)' = Earlier(d) /\ row.owner # call[d].actor
  BY <1>1, <1>3, <1>6 DEF UserFree, Earlier
<1>7. /\ idle' \subseteq Subs /\ due' \in Subs \cup {None}
      /\ record \subseteq record'
  BY <1>1, <1>3 DEF Inv, TypeOK
<1> HIDE DEF row, r
<1>8. Event(s, request[s].state, row.state)
  BY <1>1, <1>2
<1> QED BY <1>1, <1>2, <1>3, <1>4, <1>5, <1>6, <1>7, <1>8, RowStepInv

LEMMA DraftsInv ==
    ASSUME Inv, UNCHANGED <<rows, account, call>>,
           idle' \subseteq Subs, due' \in Subs \cup {None}
    PROVE  Inv'
<1>1. UNCHANGED <<request, event, place, record, account, call>>
  BY DEF rows
<1>2. TypeOK'
  BY <1>1 DEF Inv, TypeOK
<1>3. /\ RowInv' /\ EventInv' /\ PlacesApart' /\ PendingApart' /\ OnePlaceEach'
      /\ KeyUsedOnce' /\ EventsTellHistory'
  BY <1>1 DEF Inv, RowInv, EventInv, PlacesApart, PendingApart, OnePlaceEach,
              KeyUsedOnce, EventsTellHistory
<1>4. \A d \in Calls : CallInv(d)' /\ HeldInv(d)' /\ CheckedInv(d)'
  BY <1>1 DEF Inv, CallInv, HeldInv, CheckedInv, HoldsUser, HoldsName, Target,
              Permitted, Authorized, Earlier, PublicAlike, OwnAlike
<1>5. \A d, e \in Calls : LockInv(d, e)'
  BY <1>1 DEF Inv, LockInv, HoldsRow, HoldsUser, HoldsName, Target
<1>6. ReplayInv'
  BY <1>1 DEF Inv, ReplayInv, Own
<1> QED BY <1>2, <1>3, <1>4, <1>5, <1>6 DEF Inv

LEMMA ExpireInv == ASSUME Inv, NEW s \in Subs, Expire(s) PROVE Inv'
<1> DEFINE row == [request[s] EXCEPT !.state = "expired"]
<1>1. /\ due' = None /\ place' = place /\ record' = record
      /\ account' = account /\ call' = call
  BY DEF Expire
<1>2. CASE ~StillDue(s)
  <2>1. UNCHANGED <<rows, account, call>> /\ idle' = idle
    BY <1>1, <1>2 DEF Expire, rows
  <2>2. idle' \subseteq Subs /\ due' \in Subs \cup {None}
    BY <1>1, <2>1 DEF Inv, TypeOK
  <2> QED BY <2>1, <2>2, DraftsInv
<1>3. CASE StillDue(s)
  <2>1. /\ request[s].state = "draft" /\ RowFree(s)
        /\ request' = [request EXCEPT ![s].state = "expired"]
        /\ Event(s, "draft", "expired") /\ idle' = idle \ {s}
    BY <1>3 DEF Expire, StillDue
  <2>2. Replaces(s, row) /\ row.state = "expired"
    <3>1. /\ request[s] \in Request /\ request[s].owner \in Accounts
          /\ request[s].proposal \in Proposals
      BY <2>1 DEF Inv, TypeOK, RowInv
    <3>2. row \in Request /\ row.state = "expired"
          /\ row.owner = request[s].owner
          /\ row.proposal = request[s].proposal
      BY <3>1 DEF Request, State
    <3>3. request' = [request EXCEPT ![s] = row]
      BY <2>1
    <3> QED BY <3>1, <3>2, <3>3 DEF Replaces
  <2> HIDE DEF row
  <2>3. \A d \in Calls : HoldsRow(d) => call[d].sub # s
    BY <2>1 DEF RowFree
  <2>4. \A d \in Calls : Earlier(d)' = Earlier(d)
    BY <1>1 DEF Earlier
  <2>5. KeyUsedOnce' /\ record' \subseteq Record
    BY <1>1 DEF Inv, KeyUsedOnce, TypeOK
  <2>6. /\ Event(s, request[s].state, row.state) /\ row.state \notin Open
        /\ request[s].state \in {"none", "draft"}
        /\ row.state \in {"draft", "expired"} /\ record \subseteq record'
        /\ idle' \subseteq Subs /\ due' \in Subs \cup {None}
    BY <1>1, <2>1, <2>2 DEF Open, Inv, TypeOK
  <2> QED BY <1>1, <2>2, <2>3, <2>4, <2>5, <2>6, RowStepInv
<1> QED BY <1>2, <1>3

\* Who holds the row of the actor is still allowed what was checked.
LEMMA SetAccountInv ==
    ASSUME Inv, NEW a \in Accounts, NEW standing \in Standings,
           SetAccount(a, standing)
    PROVE  Inv'
<1>1. /\ request' = request /\ event' = event /\ place' = place
      /\ record' = record /\ idle' = idle /\ due' = due /\ call' = call
      /\ UserFree(a) /\ account' = [account EXCEPT ![a] = standing]
  BY DEF SetAccount, rows, drafts
<1>2. TypeOK'
  BY <1>1, StandingsAssumption DEF Inv, TypeOK
<1>3. /\ RowInv' /\ EventInv' /\ PlacesApart' /\ PendingApart' /\ OnePlaceEach'
      /\ KeyUsedOnce' /\ EventsTellHistory'
  BY <1>1 DEF Inv, RowInv, EventInv, PlacesApart, PendingApart, OnePlaceEach,
              KeyUsedOnce, EventsTellHistory
<1>4. \A d \in Calls : CallInv(d)' /\ CheckedInv(d)'
  BY <1>1 DEF Inv, CallInv, CheckedInv, HoldsName, Target, PublicAlike,
              OwnAlike
<1>5. ASSUME NEW d \in Calls PROVE HeldInv(d)'
  <2>1. HoldsUser(d) => account'[call[d].actor] = account[call[d].actor]
    BY <1>1 DEF UserFree, Inv, TypeOK
  <2>2. Target(d)' = Target(d) /\ Earlier(d)' = Earlier(d)
    BY <1>1 DEF Target, Earlier
  <2> QED BY <1>1, <2>1, <2>2
          DEF Inv, HeldInv, HoldsUser, Permitted, Authorized
<1>6. \A d, e \in Calls : LockInv(d, e)'
  BY <1>1 DEF Inv, LockInv, HoldsRow, HoldsUser, HoldsName, Target
<1>7. ReplayInv'
  BY <1>1 DEF Inv, ReplayInv, Own
<1> QED BY <1>2, <1>3, <1>4, <1>5, <1>6, <1>7 DEF Inv

LEMMA StutterInv == ASSUME Inv, UNCHANGED vars PROVE Inv'
<1>1. UNCHANGED <<rows, account, call>> /\ idle' = idle /\ due' = due
  BY DEF vars, drafts
<1>2. idle' \subseteq Subs /\ due' \in Subs \cup {None}
  BY <1>1 DEF Inv, TypeOK
<1> QED BY <1>1, <1>2, DraftsInv

LEMMA NextInv == ASSUME Inv, [Next]_vars PROVE Inv'
<1>1. ASSUME NEW a \in Accounts, NEW s \in Subs, NEW p \in Proposals,
             NEW key \in Keys \cup {None}, Create(a, s, p, key)
      PROVE  Inv'
  BY <1>1, CreateInv
<1>2. ASSUME NEW c \in Calls, NEW op \in Ops, NEW a \in Accounts,
             NEW s \in Subs, NEW key \in Keys \cup {None},
             NEW input \in Proposals \cup {None}, Start(c, op, a, s, key, input)
      PROVE  Inv'
  BY <1>2, StartInv
<1>3. ASSUME NEW c \in Calls, Serve(c) PROVE Inv'
  <2>1. CASE LockRow(c)
    BY <2>1, LockRowInv
  <2>2. CASE Decline(c)
    BY <2>2, DeclineInv
  <2>3. CASE Precheck(c)
    BY <2>3, PrecheckInv
  <2>4. CASE Close(c)
    BY <2>4, CloseInv
  <2>5. CASE HardDelete(c)
    BY <2>5, HardDeleteInv
  <2>6. CASE Edit(c)
    BY <2>6, EditInv
  <2>7. CASE SeekName(c)
    BY <2>7, SeekNameInv
  <2>8. CASE Backfill(c)
    BY <2>8, BackfillInv
  <2>9. CASE CheckName(c)
    BY <2>9, CheckNameInv
  <2>10. CASE Commit(c)
    BY <2>10, CommitInv
  <2>11. CASE Return(c)
    BY <2>11, IdleInv DEF Return, Become
  <2> QED BY <1>3, <2>1, <2>2, <2>3, <2>4, <2>5, <2>6, <2>7, <2>8, <2>9, <2>10,
             <2>11 DEF Serve, Proceed
<1>4. ASSUME NEW c \in Calls, Die(c) PROVE Inv'
  BY <1>4, IdleInv DEF Die, Become
<1>5. ASSUME NEW a \in Accounts, NEW standing \in Standings,
             SetAccount(a, standing)
      PROVE  Inv'
  BY <1>5, SetAccountInv
<1>6. ASSUME NEW s \in Subs, Age(s) \/ MediaActivity(s) \/ Scan(s) PROVE Inv'
  <2>1. UNCHANGED <<rows, account, call>>
    BY <1>6 DEF Age, MediaActivity, Scan
  <2>2. idle' \subseteq Subs /\ due' \in Subs \cup {None}
    BY <1>6 DEF Age, MediaActivity, Scan, Inv, TypeOK
  <2> QED BY <2>1, <2>2, DraftsInv
<1>7. ASSUME NEW s \in Subs, Expire(s) PROVE Inv'
  BY <1>7, ExpireInv
<1>8. CASE UNCHANGED vars
  BY <1>8, StutterInv
<1> QED BY <1>1, <1>2, <1>3, <1>4, <1>5, <1>6, <1>7, <1>8 DEF Next

-----------------------------------------------------------------------------
\* What one step does to an answer and to a draft

\* Who gets the answer that a review is done is authorized at that moment.
LEMMA DoneAuthorized ==
    ASSUME Inv, [Next]_vars, NEW c \in Calls, call[c].op \in Reviews,
           call[c].answer # "done", call'[c].answer = "done"
    PROVE  Authorized(c)
<1>1. ASSUME NEW e \in Calls, Serve(e) \/ Die(e) PROVE Authorized(c)
  <2>1. ASSUME NEW s, Become(e, s), s.answer # "done" PROVE FALSE
    <3>1. call'[c] = IF c = e THEN s ELSE call[c]
      BY <2>1 DEF Become, Inv, TypeOK
    <3> QED BY <2>1, <3>1
  <2>2. ASSUME NEW a, Answer(e, a) PROVE a = "done" /\ c = e
    <3> DEFINE s == [call[e] EXCEPT !.pc = "answered", !.answer = a]
    <3>0. Become(e, s)
      BY <2>2, AnswerBecome DEF Inv
    <3>1. call'[c] = IF c = e THEN s ELSE call[c]
      BY <3>0 DEF Become, Inv, TypeOK
    <3>2. s.answer = a
      BY DEF Inv, TypeOK, Call
    <3> QED BY <3>1, <3>2
  <2>3. ASSUME NEW pc, Goto(e, pc) PROVE FALSE
    <3> DEFINE s == [call[e] EXCEPT !.pc = pc]
    <3>0. Become(e, s)
      BY <2>3, GotoBecome DEF Inv
    <3>1. call'[c] = IF c = e THEN s ELSE call[c]
      BY <3>0 DEF Become, Inv, TypeOK
    <3>2. s.answer = call[e].answer
      BY DEF Inv, TypeOK, Call
    <3> QED BY <3>1, <3>2
  <2>4. ASSUME Become(e, Idle) PROVE FALSE
    <3>1. Idle.answer # "done"
      BY NoneAssumption DEF Idle, Answers
    <3> QED BY <2>1, <2>4, <3>1
  <2>5. CASE LockRow(e) \/ Precheck(e) \/ SeekName(e) \/ CheckName(e)
    BY <2>2, <2>3, <2>5 DEF LockRow, Precheck, SeekName, CheckName
  <2>6. CASE Decline(e)
    BY <2>2, <2>6 DEF Decline
  <2>7. CASE Backfill(e)
    <3>1. CASE call' = [call EXCEPT ![e].pc = "row", ![e].first = FALSE]
      BY <3>1 DEF Inv, TypeOK, Call
    <3> QED BY <2>2, <2>7, <3>1 DEF Backfill
  <2>8. CASE Close(e)
    <3>1. Answer(e, "done") /\ Authorized(e)
      BY <2>8 DEF Close, Proceeds
    <3> QED BY <2>2, <3>1
  <2>9. CASE HardDelete(e)
    BY <2>2, <2>9 DEF HardDelete, Reviews, Proceeds
  <2>10. CASE Edit(e)
    <3>1. call[e].op = "edit"
      BY <2>10 DEF Edit
    <3>2. c # e
      BY <3>1 DEF Reviews
    <3> QED BY <2>10, <3>2 DEF Edit, Inv, TypeOK, Call
  <2>11. CASE Commit(e)
    <3>1. Authorized(e)
      BY <2>11 DEF Commit, Inv, HeldInv, HoldsUser
    <3> QED BY <2>2, <2>11, <3>1 DEF Commit
  <2>12. CASE Return(e) \/ Die(e)
    BY <2>4, <2>12 DEF Return, Die, Become
  <2> QED BY <1>1, <2>5, <2>6, <2>7, <2>8, <2>9, <2>10, <2>11, <2>12
          DEF Serve, Proceed
<1>2. ASSUME NEW e \in Calls, NEW op \in Ops, NEW a \in Accounts,
             NEW t \in Subs, NEW key \in Keys \cup {None},
             NEW input \in Proposals \cup {None},
             Start(e, op, a, t, key, input)
      PROVE  FALSE
  <2>1. c = e => call'[c].answer = None
    BY <1>2 DEF Start, Inv, TypeOK, Idle
  <2>2. c # e => call'[c] = call[c]
    BY <1>2 DEF Start, Inv, TypeOK
  <2> QED BY <2>1, <2>2, NoneAssumption DEF Answers
<1>3. ASSUME call' = call PROVE FALSE
  BY <1>3
<1>4. ASSUME NEW a \in Accounts, NEW s \in Subs, NEW p \in Proposals,
             NEW key \in Keys \cup {None}, Create(a, s, p, key)
      PROVE  FALSE
  BY <1>3, <1>4 DEF Create
<1>5. ASSUME NEW a \in Accounts, NEW standing \in Standings,
             SetAccount(a, standing)
      PROVE  FALSE
  BY <1>3, <1>5 DEF SetAccount
<1>6. ASSUME NEW s \in Subs,
             Age(s) \/ MediaActivity(s) \/ Scan(s) \/ Expire(s)
      PROVE  FALSE
  BY <1>3, <1>6 DEF Age, MediaActivity, Scan, Expire
<1>7. CASE UNCHANGED vars
  BY <1>3, <1>7 DEF vars
<1> QED BY <1>1, <1>2, <1>4, <1>5, <1>6, <1>7 DEF Next

\* Nothing but the job lets a draft expire.
LEMMA ExpiredByJob ==
    ASSUME Inv, [Next]_vars, NEW s \in Subs, request[s].state # "expired",
           request'[s].state = "expired"
    PROVE  s \in idle
<1>1. ASSUME request' = request PROVE FALSE
  BY <1>1
<1>2. ASSUME NEW k \in Subs, NEW row, Replaces(k, row), row.state # "expired"
      PROVE  FALSE
  BY <1>2, ReplaceFacts, InvRows DEF Inv
<1>3. ASSUME NEW c \in Calls, Close(c) \/ Commit(c) PROVE FALSE
  <2>1. CASE request' = request
    BY <1>1, <2>1
  <2>2. CASE request' = [request EXCEPT ![call[c].sub].state = To[call[c].op]]
    <3>1. /\ call[c].op \in {"withdraw", "reject", "finalize", "approve"}
          /\ call[c].pc # "idle"
      BY <1>3 DEF Close, Proceeds, HasUser, Commit, Inv, HeldInv, HoldsUser,
                  Named
    <3>2. To[call[c].op] \in State \ {"none", "expired"}
      BY <3>1, Operations DEF State, Open
    <3> DEFINE row == [Target(c) EXCEPT !.state = To[call[c].op]]
    <3>3. /\ call[c].sub \in Subs /\ Replaces(call[c].sub, row)
          /\ row.state # "expired"
      BY <2>2, <3>1, <3>2, RowTypes
    <3> QED BY <1>2, <3>3
  <2> QED BY <1>3, <2>1, <2>2 DEF Close, Commit, rows
<1>4. ASSUME NEW c \in Calls, HardDelete(c) PROVE FALSE
  <2>1. CASE request' = request
    BY <1>1, <2>1
  <2>2. CASE request' = [request EXCEPT ![call[c].sub].state = "removed"]
    <3>1. call[c].pc # "idle"
      BY <1>4 DEF HardDelete, Proceeds, HasUser
    <3> DEFINE row == [Target(c) EXCEPT !.state = "removed"]
    <3>2. /\ call[c].sub \in Subs /\ Replaces(call[c].sub, row)
          /\ row.state # "expired"
      BY <2>2, <3>1, RowTypes DEF State
    <3> QED BY <1>2, <3>2
  <2> QED BY <1>4, <2>1, <2>2 DEF HardDelete
<1>5. ASSUME NEW c \in Calls, Edit(c) PROVE FALSE
  <2>1. request' = [request EXCEPT ![call[c].sub].proposal = call[c].input]
    BY <1>5 DEF Edit
  <2> QED BY <2>1 DEF Inv, TypeOK, Request
<1>6. ASSUME NEW a \in Accounts, NEW t \in Subs, NEW p \in Proposals,
             NEW key \in Keys \cup {None}, Create(a, t, p, key)
      PROVE  FALSE
  BY <1>6 DEF Create, Inv, TypeOK
<1>7. ASSUME NEW t \in Subs, Expire(t) PROVE s \in idle
  <2>1. CASE StillDue(t)
    <3>1. s = t
      BY <1>7, <2>1 DEF Expire, Inv, TypeOK
    <3> QED BY <2>1, <3>1 DEF StillDue
  <2>2. CASE ~StillDue(t)
    BY <1>1, <1>7, <2>2 DEF Expire
  <2> QED BY <2>1, <2>2
<1>8. ASSUME NEW c \in Calls,
             \/ LockRow(c) \/ Decline(c) \/ Precheck(c) \/ SeekName(c)
             \/ Backfill(c) \/ CheckName(c) \/ Return(c) \/ Die(c)
      PROVE  FALSE
  BY <1>1, <1>8 DEF LockRow, Decline, Precheck, SeekName, Backfill, CheckName,
                    Return, Die, rows
<1>9. ASSUME NEW c \in Calls, NEW op \in Ops, NEW a \in Accounts,
             NEW t \in Subs, NEW key \in Keys \cup {None},
             NEW input \in Proposals \cup {None}, Start(c, op, a, t, key, input)
      PROVE  FALSE
  BY <1>1, <1>9 DEF Start, rows
<1>10. ASSUME NEW a \in Accounts, NEW standing \in Standings,
              SetAccount(a, standing)
       PROVE  FALSE
  BY <1>1, <1>10 DEF SetAccount, rows
<1>11. ASSUME NEW t \in Subs, Age(t) \/ MediaActivity(t) \/ Scan(t) PROVE FALSE
  BY <1>1, <1>11 DEF Age, MediaActivity, Scan, rows
<1>12. CASE UNCHANGED vars
  BY <1>1, <1>12 DEF vars, rows
<1>13. ASSUME NEW c \in Calls, Serve(c) \/ Die(c) PROVE FALSE
  BY <1>3, <1>4, <1>5, <1>8, <1>13 DEF Serve, Proceed
<1> QED BY <1>6, <1>7, <1>9, <1>10, <1>11, <1>12, <1>13 DEF Next

-----------------------------------------------------------------------------
\* The calls as they are seen from outside

\* Who has no answer has none, and only approvals have two transactions.
AskInv(c) ==
    /\ call[c].pc \notin {"idle", "answered"} => call[c].answer = None
    /\ call[c].pc # "idle" /\ call[c].first => call[c].op = "approve"
    /\ call[c].pc = "backfill" => call[c].op = "approve"

Asking == \A c \in Calls : AskInv(c)

LEMMA AskingInit == Init => Asking
<1> SUFFICES ASSUME Init, NEW c \in Calls PROVE AskInv(c)
  BY DEF Asking
<1>1. call[c] = Idle
  BY DEF Init
<1> QED BY <1>1 DEF Idle, AskInv

\* One call changes, and is what AskInv says.
LEMMA AskingBecome ==
    ASSUME Inv, Asking, NEW c \in Calls, NEW s \in Call, Become(c, s),
           s.pc \notin {"idle", "answered"} => s.answer = None,
           s.pc # "idle" /\ s.first => s.op = "approve",
           s.pc = "backfill" => s.op = "approve"
    PROVE  Asking'
<1>1. call'[c] = s /\ \A d \in Calls \ {c} : call'[d] = call[d]
  BY DEF Become, Inv, TypeOK
<1>2. AskInv(c)'
  BY <1>1 DEF AskInv
<1>3. \A d \in Calls \ {c} : AskInv(d)'
  BY <1>1 DEF Asking, AskInv
<1> QED BY <1>2, <1>3 DEF Asking

LEMMA AskingAnswer ==
    ASSUME Inv, Asking, NEW c \in Calls, NEW a \in Answers, Answer(c, a),
           call[c].pc # "idle"
    PROVE  Asking'
<1> DEFINE s == [call[c] EXCEPT !.pc = "answered", !.answer = a]
<1>1. Become(c, s) /\ s \in Call
  BY AnswerBecome, CallTypes DEF Inv
<1>2. s.pc = "answered" /\ s.first = call[c].first /\ s.op = call[c].op
  BY DEF Inv, TypeOK, Call
<1>3. call[c].first => call[c].op = "approve"
  BY DEF Asking, AskInv
<1> HIDE DEF s
<1> QED BY <1>1, <1>2, <1>3, AskingBecome

LEMMA AskingGoto ==
    ASSUME Inv, Asking, NEW c \in Calls,
           NEW pc \in {"user", "backfill", "name", "commit"}, Goto(c, pc),
           call[c].pc \notin {"idle", "answered"},
           pc = "backfill" => call[c].first
    PROVE  Asking'
<1> DEFINE s == [call[c] EXCEPT !.pc = pc]
<1>1. Become(c, s) /\ s \in Call
  BY GotoBecome, CallTypes DEF Inv
<1>2. /\ s.pc = pc /\ s.first = call[c].first /\ s.op = call[c].op
      /\ s.answer = call[c].answer
  BY DEF Inv, TypeOK, Call
<1>3. AskInv(c)
  BY DEF Asking
<1> HIDE DEF s
<1> QED BY <1>1, <1>2, <1>3, AskingBecome DEF AskInv

LEMMA AskingNext == ASSUME Inv, Asking, [Next]_vars PROVE Asking'
<1>1. ASSUME call' = call PROVE Asking'
  BY <1>1 DEF Asking, AskInv
<1>2. ASSUME NEW c \in Calls, NEW op \in Ops, NEW a \in Accounts,
             NEW t \in Subs, NEW key \in Keys \cup {None},
             NEW input \in Proposals \cup {None}, Start(c, op, a, t, key, input)
      PROVE  Asking'
  <2> DEFINE s == [Idle EXCEPT !.pc = "row", !.op = op, !.actor = a, !.sub = t,
                               !.key = key, !.input = input,
                               !.first = (op = "approve")]
  <2>1. Become(c, s)
    BY <1>2 DEF Start, Become
  <2>2. s \in Call
    BY OpsAssumption DEF Idle, Call
  <2>3. /\ s.pc = "row" /\ s.op = op /\ s.answer = None
        /\ s.first = (op = "approve")
    BY DEF Idle
  <2> HIDE DEF s
  <2> QED BY <2>1, <2>2, <2>3, AskingBecome
<1>3. ASSUME NEW c \in Calls, Serve(c) \/ Die(c) PROVE Asking'
  <2>1. CASE LockRow(c)
    BY <2>1, AskingAnswer, AskingGoto DEF LockRow, Answers
  <2>2. CASE Decline(c)
    BY <2>2, AskingAnswer DEF Decline, HasUser, Answers
  <2>3. CASE Precheck(c)
    BY <2>3, AskingGoto DEF Precheck, Proceeds, HasUser
  <2>4. CASE Close(c)
    BY <2>4, AskingAnswer DEF Close, Proceeds, HasUser, Answers
  <2>5. CASE HardDelete(c)
    BY <2>5, AskingAnswer DEF HardDelete, Proceeds, HasUser, Answers
  <2>6. CASE Edit(c)
    <3>1. \A d \in Calls : AskInv(d) /\ call[d] \in Call
      BY DEF Asking, Inv, TypeOK
    <3>2. ASSUME NEW d \in Calls PROVE AskInv(d)'
      <4>1. CASE d = c
        BY <2>6, <3>1, <4>1 DEF Edit, AskInv, Proceeds, HasUser, Call
      <4>2. CASE d # c
        BY <2>6, <3>1, <4>2 DEF Edit, AskInv, Call
      <4> QED BY <4>1, <4>2
    <3> QED BY <3>2 DEF Asking
  <2>7. CASE SeekName(c)
    BY <2>7, AskingAnswer, AskingGoto DEF SeekName, Proceeds, HasUser, Answers
  <2>8. CASE Backfill(c)
    <3> DEFINE s == [call[c] EXCEPT !.pc = "row", !.first = FALSE]
    <3>1. CASE Become(c, s)
      <4>1. s \in Call
        BY CallTypes DEF Inv
      <4>2. s.pc = "row" /\ s.first = FALSE /\ s.answer = call[c].answer
        BY DEF Inv, TypeOK, Call
      <4>3. call[c].answer = None
        BY <2>8 DEF Asking, AskInv, Backfill
      <4> HIDE DEF s
      <4> QED BY <3>1, <4>1, <4>2, <4>3, AskingBecome
    <3>2. Become(c, s) \/ Answer(c, "not_ready")
      BY <2>8 DEF Backfill, Become, Inv, TypeOK
    <3> QED BY <2>8, <3>1, <3>2, AskingAnswer DEF Backfill, Answers
  <2>9. CASE CheckName(c)
    BY <2>9, AskingAnswer, AskingGoto DEF CheckName, Answers
  <2>10. CASE Commit(c)
    BY <2>10, AskingAnswer DEF Commit, Answers
  <2>11. CASE Return(c) \/ Die(c)
    <3>1. Become(c, Idle) /\ Idle \in Call /\ Idle.pc = "idle"
      BY <2>11, CallTypes DEF Return, Die, Become, Idle, Inv
    <3> QED BY <3>1, AskingBecome
  <2> QED BY <1>3, <2>1, <2>2, <2>3, <2>4, <2>5, <2>6, <2>7, <2>8, <2>9, <2>10,
             <2>11 DEF Serve, Proceed
<1>4. ASSUME NEW a \in Accounts, NEW s \in Subs, NEW p \in Proposals,
             NEW key \in Keys \cup {None}, Create(a, s, p, key)
      PROVE  Asking'
  BY <1>1, <1>4 DEF Create
<1>5. ASSUME NEW a \in Accounts, NEW standing \in Standings,
             SetAccount(a, standing)
      PROVE  Asking'
  BY <1>1, <1>5 DEF SetAccount
<1>6. ASSUME NEW s \in Subs, Age(s) \/ MediaActivity(s) \/ Scan(s) \/ Expire(s)
      PROVE  Asking'
  BY <1>1, <1>6 DEF Age, MediaActivity, Scan, Expire
<1>7. CASE UNCHANGED vars
  BY <1>1, <1>7 DEF vars
<1> QED BY <1>2, <1>3, <1>4, <1>5, <1>6, <1>7 DEF Next

LEMMA SeenCall ==
    ASSUME Inv, NEW c \in Calls, call[c].pc # "idle"
    PROVE  /\ asked[c] \in Asked /\ asked[c] # None
           /\ asked[c] = [op |-> call[c].op, actor |-> call[c].actor,
                          sub |-> call[c].sub, key |-> call[c].key,
                          input |-> call[c].input, moved |-> call[c].stale,
                          answer |-> call[c].answer]
           /\ asked[c].op = call[c].op /\ asked[c].actor = call[c].actor
           /\ asked[c].sub = call[c].sub /\ asked[c].key = call[c].key
           /\ asked[c].input = call[c].input /\ asked[c].moved = call[c].stale
           /\ asked[c].answer = call[c].answer
<1>1. asked[c] = [op |-> call[c].op, actor |-> call[c].actor,
                  sub |-> call[c].sub, key |-> call[c].key,
                  input |-> call[c].input, moved |-> call[c].stale,
                  answer |-> call[c].answer]
  BY DEF asked, Seen
<1>2. /\ call[c].op \in DOMAIN From /\ call[c].actor \in Accounts
      /\ call[c].sub \in Subs /\ call[c].key \in Keys \cup {None}
      /\ call[c].input \in Proposals \cup {None} /\ call[c].stale \in BOOLEAN
      /\ call[c].answer \in Answers \cup {None}
  BY DEF Inv, CallInv, TypeOK, Call
<1>3. asked[c] \in Asked
  BY <1>1, <1>2 DEF Asked
<1> QED BY <1>1, <1>3, NoneAssumption

\* What a step that changes one call shows.
LEMMA SeenBecome ==
    ASSUME Inv, NEW c \in Calls, NEW s, Become(c, s)
    PROVE  asked' = [asked EXCEPT ![c] = Seen(s)]
BY DEF asked, Become, Inv, TypeOK

LEMMA SeenGoto ==
    ASSUME Inv, NEW c \in Calls, NEW pc, Goto(c, pc), pc # "idle",
           call[c].pc # "idle"
    PROVE  asked' = asked
<1> DEFINE s == [call[c] EXCEPT !.pc = pc]
<1>1. Become(c, s)
  BY GotoBecome DEF Inv
<1>2. Seen(s) = Seen(call[c])
  BY DEF Seen, Inv, TypeOK, Call
<1>3. asked[c] = Seen(call[c]) /\ asked = [d \in Calls |-> asked[d]]
  BY DEF asked
<1> HIDE DEF s
<1> QED BY <1>1, <1>2, <1>3, SeenBecome

LEMMA SeenAnswer ==
    ASSUME Inv, NEW c \in Calls, NEW a, Answer(c, a), call[c].pc # "idle"
    PROVE  /\ asked' = [asked EXCEPT ![c].answer = a]
           /\ asked' = [asked EXCEPT ![c] = [asked[c] EXCEPT !.answer = a]]
<1> DEFINE s == [call[c] EXCEPT !.pc = "answered", !.answer = a]
<1>1. Become(c, s)
  BY AnswerBecome DEF Inv
<1>2. Seen(s) = [Seen(call[c]) EXCEPT !.answer = a]
  <2>1. /\ s.pc = "answered" /\ s.answer = a /\ s.op = call[c].op
        /\ s.actor = call[c].actor /\ s.sub = call[c].sub
        /\ s.key = call[c].key /\ s.input = call[c].input
        /\ s.stale = call[c].stale
    BY DEF Inv, TypeOK, Call
  <2> HIDE DEF s
  <2> QED BY <2>1 DEF Seen
<1>3. asked[c] = Seen(call[c])
  BY DEF asked
<1> HIDE DEF s
<1> QED BY <1>1, <1>2, <1>3, SeenBecome

\* The guards of the services are those of the promise.
LEMMA SameGuards ==
    ASSUME Inv, NEW c \in Calls, call[c].pc # "idle"
    PROVE  /\ Service!Allowed(asked[c]) <=> Authorized(c)
           /\ Service!Earlier(asked[c]) = Earlier(c)
           /\ Service!Own(asked[c]) = Own(c)
           /\ Service!Timely(asked[c]) <=> Permitted(c)
           /\ Service!Duplicate(asked[c]) <=>
                  PublicAlike(c) \/ (call[c].op = "finalize" /\ OwnAlike(c))
<1>1. CallInv(c)
  BY DEF Inv
<1>2. Service!Allowed(asked[c]) <=> Authorized(c)
  <2>1. call[c].op \in DOMAIN From
    BY <1>1 DEF CallInv
  <2> QED BY <1>1, <2>1, SeenCall, Operations
          DEF Service!Allowed, Service!Moderates, Authorized, Reviews,
              Moderators, Target, CallInv
<1>3. Service!Earlier(asked[c]) = Earlier(c) /\ Service!Own(asked[c]) = Own(c)
  BY SeenCall DEF Service!Earlier, Earlier, Service!Own, Own
<1>4. Service!Timely(asked[c]) <=> Permitted(c)
  <2>1. call[c].op \in DOMAIN From /\ Target(c).state \in State
    BY <1>1 DEF CallInv, Inv, TypeOK, Target, Request
  <2>2. \A op \in DOMAIN From : \A state \in State :
            state \in Service!From[op] <=> state \in From[op]
    BY DEF Service!From, From, State, Open, Service!Open
  <2> QED BY <2>1, <2>2, SeenCall DEF Service!Timely, Permitted, Target
<1>5. Service!Duplicate(asked[c]) <=>
          PublicAlike(c) \/ (call[c].op = "finalize" /\ OwnAlike(c))
  <2>1. \A p, q : Service!Alike(p, q) <=> Alike(p, q)
    BY DEF Service!Alike, Alike
  <2>2. /\ asked[c].sub = call[c].sub /\ asked[c].op = call[c].op
        /\ asked[c].actor = call[c].actor
    BY SeenCall
  <2>3. PublicAlike(c) <=>
            \E p \in place : Alike(p.proposal, request[asked[c].sub].proposal)
    BY <2>2 DEF PublicAlike, Target
  <2>4. OwnAlike(c) <=>
            \E s \in Subs \ {asked[c].sub} :
                /\ request[s].owner = asked[c].actor
                /\ request[s].state \in Open
                /\ Alike(request[s].proposal, request[asked[c].sub].proposal)
    BY <2>2 DEF OwnAlike, Target
  <2> QED BY <2>1, <2>2, <2>3, <2>4
          DEF Service!Duplicate, Service!Open, Open
<1> QED BY <1>2, <1>3, <1>4, <1>5

-----------------------------------------------------------------------------
\* The steps of a call, as the promise allows them

LEMMA WaitsYet ==
    ASSUME Inv, Asking, NEW c \in Calls, call[c].pc \notin {"idle", "answered"}
    PROVE  Service!Waits(c)
BY SeenCall DEF Asking, AskInv, Service!Waits

LEMMA RefuseStep ==
    ASSUME Inv, Asking, NEW c \in Calls,
           NEW a \in {"missing", "denied", "replayed", "conflict", "refused",
                      "duplicate", "not_ready"},
           Answer(c, a), call[c].pc \notin {"idle", "answered"},
           Service!Excuse(asked[c], a), UNCHANGED <<rows, account, idle>>
    PROVE  Service!Refuse(c)
<1>1. Service!Waits(c)
  BY WaitsYet
<1>2. asked' = [asked EXCEPT ![c].answer = a]
  BY SeenAnswer
<1> QED BY <1>1, <1>2 DEF Service!Refuse, rows

LEMMA DoStep ==
    ASSUME Inv, Asking, NEW c \in Calls,
           call[c].pc \notin {"idle", "answered"}, Authorized(c),
           Earlier(c) = {}, Permitted(c), Answer(c, "done"),
           Service!Effect(asked[c]), UNCHANGED account
    PROVE  Service!Do(c)
<1>1. Service!Waits(c)
  BY WaitsYet
<1>2. /\ Service!Allowed(asked[c]) /\ Service!Earlier(asked[c]) = {}
      /\ Service!Timely(asked[c])
  BY SameGuards
<1>3. asked' = [asked EXCEPT ![c] = [asked[c] EXCEPT !.answer = "done"]]
  BY SeenAnswer
<1>4. asked' = [d \in Calls |->
                   IF d = c THEN [asked[c] EXCEPT !.answer = "done"]
                   ELSE IF d \in {} THEN [asked[d] EXCEPT !.moved = TRUE]
                   ELSE asked[d]]
  BY <1>3 DEF asked
<1> QED BY <1>1, <1>2, <1>4 DEF Service!Do

LEMMA StartStep ==
    ASSUME Inv, NEW c \in Calls, NEW op \in Ops, NEW a \in Accounts,
           NEW t \in Subs, NEW key \in Keys \cup {None},
           NEW input \in Proposals \cup {None}, Start(c, op, a, t, key, input)
    PROVE  Service!Ask(c)
<1> DEFINE s == [Idle EXCEPT !.pc = "row", !.op = op, !.actor = a, !.sub = t,
                             !.key = key, !.input = input,
                             !.first = (op = "approve")]
           q == [op |-> op, actor |-> a, sub |-> t, key |-> key,
                 input |-> input, moved |-> FALSE, answer |-> None]
<1>1. Become(c, s) /\ UNCHANGED <<rows, account, drafts>>
  BY DEF Start, Become
<1>2. Seen(s) = q
  BY DEF Seen, Idle
<1>3. asked[c] = None
  BY DEF Start, asked, Seen
<1>4. op \in DOMAIN From /\ DOMAIN Service!From = DOMAIN From
  BY OpsAssumption DEF From, Service!From
<1>5. q \in Asked
  BY <1>4 DEF Asked
<1>6. request[t].state \notin {"none", "removed"}
      /\ (op = "edit" => input \in Proposals)
  BY DEF Start
<1> HIDE DEF s
<1>7. asked' = [asked EXCEPT ![c] = q]
  BY <1>1, <1>2, SeenBecome
<1>8. asked'[c] # None
  BY <1>5, <1>7, NoneAssumption DEF asked
<1> QED BY <1>1, <1>3, <1>4, <1>6, <1>7, <1>8 DEF Service!Ask, rows, drafts

LEMMA LockRowStep ==
    ASSUME Inv, Asking, NEW c \in Calls, LockRow(c)
    PROVE  Service!Refuse(c) \/ UNCHANGED asked
<1>1. call[c].pc = "row" /\ UNCHANGED <<rows, account, drafts>>
  BY DEF LockRow
<1>2. CASE Goto(c, "user")
  BY <1>1, <1>2, SeenGoto
<1>3. CASE /\ Answer(c, "missing")
           /\ call[c].stale \/ Target(c).state = "removed"
  <2>1. Service!Excuse(asked[c], "missing")
    BY <1>1, <1>3, SeenCall DEF Service!Excuse, Target
  <2> QED BY <1>1, <1>3, <2>1, RefuseStep DEF drafts
<1> QED BY <1>2, <1>3 DEF LockRow

LEMMA DeclineStep ==
    ASSUME Inv, Asking, NEW c \in Calls, Decline(c) PROVE Service!Refuse(c)
<1>1. call[c].pc = "user" /\ UNCHANGED <<rows, account, idle>>
  BY DEF Decline, HasUser, drafts
<1>2. CASE ~Authorized(c) /\ Answer(c, "denied")
  <2>1. Service!Excuse(asked[c], "denied")
    BY <1>1, <1>2, SameGuards DEF Service!Excuse
  <2> QED BY <1>1, <1>2, <2>1, RefuseStep
<1>3. CASE Authorized(c) /\ Earlier(c) = {Own(c)} /\ Answer(c, "replayed")
  <2>1. Service!Excuse(asked[c], "replayed")
    BY <1>1, <1>3, SameGuards DEF Service!Excuse
  <2> QED BY <1>1, <1>3, <2>1, RefuseStep
<1>4. CASE /\ Authorized(c) /\ Earlier(c) \notin {{}, {Own(c)}}
           /\ Answer(c, "conflict")
  <2>1. Service!Excuse(asked[c], "conflict")
    BY <1>1, <1>4, SameGuards DEF Service!Excuse
  <2> QED BY <1>1, <1>4, <2>1, RefuseStep
<1>5. CASE /\ Authorized(c) /\ Earlier(c) = {} /\ ~Permitted(c)
           /\ Answer(c, "refused")
  <2>1. Service!Excuse(asked[c], "refused")
    BY <1>1, <1>5, SameGuards DEF Service!Excuse
  <2> QED BY <1>1, <1>5, <2>1, RefuseStep
<1> QED BY <1>2, <1>3, <1>4, <1>5 DEF Decline, Match

LEMMA NotReadyStep ==
    ASSUME Inv, Asking, NEW c \in Calls, call[c].op \in Named,
           call[c].pc \notin {"idle", "answered"}, Answer(c, "not_ready"),
           UNCHANGED <<rows, account, idle>>
    PROVE  Service!Refuse(c)
<1>1. Service!Excuse(asked[c], "not_ready")
  BY SeenCall DEF Service!Excuse, Named
<1> QED BY <1>1, RefuseStep

LEMMA BackfillStep ==
    ASSUME Inv, Asking, NEW c \in Calls, Backfill(c)
    PROVE  Service!Refuse(c) \/ UNCHANGED asked
<1>1. call[c].pc = "backfill" /\ UNCHANGED <<rows, account, idle>>
  BY DEF Backfill, drafts
<1>2. CASE Answer(c, "not_ready")
  BY <1>1, <1>2, NotReadyStep DEF Asking, AskInv, Named
<1>3. CASE call' = [call EXCEPT ![c].pc = "row", ![c].first = FALSE]
  <2> DEFINE s == [call[c] EXCEPT !.pc = "row", !.first = FALSE]
  <2>1. Become(c, s)
    BY <1>3 DEF Inv, TypeOK, Become
  <2>2. Seen(s) = Seen(call[c])
    BY <1>1 DEF Seen, Inv, TypeOK, Call
  <2>3. asked[c] = Seen(call[c]) /\ asked = [d \in Calls |-> asked[d]]
    BY DEF asked
  <2> HIDE DEF s
  <2> QED BY <2>1, <2>2, <2>3, SeenBecome
<1> QED BY <1>2, <1>3 DEF Backfill

LEMMA SeekNameStep ==
    ASSUME Inv, Asking, NEW c \in Calls, SeekName(c)
    PROVE  Service!Refuse(c) \/ UNCHANGED asked
<1>1. /\ call[c].pc = "user" /\ call[c].op \in Named
      /\ UNCHANGED <<rows, account, idle>>
  BY DEF SeekName, Proceeds, HasUser, drafts
<1> QED BY <1>1, NotReadyStep, SeenGoto DEF SeekName

LEMMA CheckNameStep ==
    ASSUME Inv, Asking, NEW c \in Calls, CheckName(c)
    PROVE  Service!Refuse(c) \/ UNCHANGED asked
<1>1. call[c].pc = "name" /\ UNCHANGED <<rows, account, idle>>
  BY DEF CheckName, drafts
<1>2. CASE Goto(c, "commit")
  BY <1>1, <1>2, SeenGoto
<1>3. CASE /\ PublicAlike(c) \/ (call[c].op = "finalize" /\ OwnAlike(c))
           /\ Answer(c, "duplicate")
  <2>1. Authorized(c) /\ Earlier(c) = {} /\ Permitted(c)
    BY <1>1 DEF Inv, HeldInv, HoldsUser
  <2>2. Service!Excuse(asked[c], "duplicate")
    BY <1>1, <1>3, <2>1, SameGuards DEF Service!Excuse
  <2> QED BY <1>1, <1>3, <2>2, RefuseStep
<1> QED BY <1>2, <1>3 DEF CheckName

\* What Move of the promise asks for is what Complete and a new state are.
LEMMA MoveStep ==
    ASSUME Inv, NEW c \in Calls, call[c].pc # "idle", Complete(c),
           call[c].op \in {"finalize", "withdraw", "approve", "reject"},
           request' = [request EXCEPT ![call[c].sub].state = To[call[c].op]],
           idle' = idle \ {call[c].sub}
    PROVE  Service!Move(asked[c], To[call[c].op])
<1>1. Service!Own(asked[c]) = Own(c)
  BY SameGuards
<1>2. Service!Tell(asked[c].sub, To[call[c].op])
  BY SeenCall DEF Service!Tell, Complete, Event, Target
<1>3. Service!Keep(asked[c])
  BY <1>1, SeenCall DEF Service!Keep, Complete
<1> QED BY <1>2, <1>3, SeenCall DEF Service!Move

LEMMA CloseStep ==
    ASSUME Inv, Asking, NEW c \in Calls, Close(c) PROVE Service!Do(c)
<1>1. /\ call[c].pc = "user" /\ Authorized(c) /\ Earlier(c) = {}
      /\ Permitted(c) /\ call[c].op \in {"withdraw", "reject"}
      /\ Complete(c) /\ Answer(c, "done") /\ UNCHANGED <<place, account>>
  BY DEF Close, Proceeds, HasUser
<1>2. Service!Move(asked[c], To[call[c].op])
  BY <1>1, MoveStep DEF Close
<1>3. Service!Effect(asked[c])
  <2>1. CASE call[c].op = "withdraw"
    <3>1. Service!Withdraw(asked[c])
      BY <1>1, <1>2, <2>1, Operations DEF Service!Withdraw
    <3>2. asked[c].op = "withdraw"
      BY <1>1, <2>1, SeenCall
    <3> QED BY <3>1, <3>2 DEF Service!Effect
  <2>2. CASE call[c].op = "reject"
    <3>1. Service!Reject(asked[c])
      BY <1>1, <1>2, <2>2, Operations DEF Service!Reject
    <3>2. asked[c].op = "reject"
      BY <1>1, <2>2, SeenCall
    <3> QED BY <3>1, <3>2 DEF Service!Effect
  <2> QED BY <1>1, <2>1, <2>2
<1> QED BY <1>1, <1>3, DoStep

LEMMA HardDeleteStep ==
    ASSUME Inv, Asking, NEW c \in Calls, HardDelete(c)
    PROVE  Service!Do(c) \/ Service!Refuse(c)
<1>1. /\ call[c].pc = "user" /\ Authorized(c) /\ Earlier(c) = {}
      /\ Permitted(c) /\ call[c].op = "delete"
      /\ UNCHANGED <<event, place, record, account, drafts>>
  BY DEF HardDelete, Proceeds, HasUser
<1>2. CASE /\ event[call[c].sub] = <<>>
           /\ \A r \in record : r.sub # call[c].sub
           /\ request' = [request EXCEPT ![call[c].sub].state = "removed"]
           /\ Answer(c, "done")
  <2>1. Service!Delete(asked[c])
    BY <1>1, <1>2, SeenCall DEF Service!Delete, drafts
  <2>2. Service!Effect(asked[c])
    BY <1>1, <2>1, SeenCall DEF Service!Effect
  <2> QED BY <1>1, <1>2, <2>2, DoStep
<1>3. CASE Answer(c, "refused") /\ UNCHANGED request
  <2>1. Service!Excuse(asked[c], "refused")
    BY <1>1, <1>3, SeenCall, SameGuards DEF Service!Excuse
  <2>2. UNCHANGED <<rows, account, idle>>
    BY <1>1, <1>3 DEF rows, drafts
  <2> QED BY <1>1, <1>3, <2>1, <2>2, RefuseStep
<1> QED BY <1>2, <1>3 DEF HardDelete

\* The calls that wait for the row of an edit, whose address it replaces.
LEMMA EditStep ==
    ASSUME Inv, Asking, NEW c \in Calls, Edit(c) PROVE Service!Do(c)
<1> DEFINE D == {d \in Calls \ {c} :
                    /\ call[d].pc = "row" /\ call[d].sub = call[c].sub
                    /\ call[c].input.spot # Target(c).proposal.spot}
<1>1. /\ call[c].pc = "user" /\ Authorized(c) /\ Earlier(c) = {}
      /\ Permitted(c) /\ call[c].op = "edit" /\ Complete(c)
      /\ request' = [request EXCEPT ![call[c].sub].proposal = call[c].input]
      /\ idle' = idle \ {call[c].sub} /\ UNCHANGED <<place, account>>
  BY DEF Edit, Proceeds, HasUser
<1>2. /\ Service!Waits(c) /\ Service!Allowed(asked[c])
      /\ Service!Earlier(asked[c]) = {} /\ Service!Timely(asked[c])
      /\ Service!Own(asked[c]) = Own(c)
  BY <1>1, SameGuards, WaitsYet
<1>3. Service!Effect(asked[c])
  <2>1. Service!Tell(asked[c].sub, "draft")
    BY <1>1, SeenCall, Operations DEF Service!Tell, Complete, Event, Target
  <2>2. Service!Keep(asked[c])
    BY <1>1, <1>2, SeenCall DEF Service!Keep, Complete
  <2>3. Service!Edit(asked[c])
    BY <1>1, <2>1, <2>2, SeenCall DEF Service!Edit
  <2> QED BY <1>1, <2>3, SeenCall DEF Service!Effect
<1>4. D \in SUBSET Calls
  OBVIOUS
<1>5. ASSUME NEW d \in D
      PROVE  /\ asked[c].op = "edit" /\ Service!Waits(d)
             /\ asked[d].sub = asked[c].sub
             /\ asked[c].input.spot # request[asked[c].sub].proposal.spot
  <2>1. Service!Waits(d)
    BY WaitsYet
  <2> QED BY <1>1, <2>1, SeenCall DEF Target
<1>6. asked' = [d \in Calls |->
                   IF d = c THEN [asked[c] EXCEPT !.answer = "done"]
                   ELSE IF d \in D THEN [asked[d] EXCEPT !.moved = TRUE]
                   ELSE asked[d]]
  <2>1. asked' = [d \in Calls |-> Seen(call'[d])]
    BY DEF asked
  <2>2. ASSUME NEW d \in Calls
        PROVE  Seen(call'[d]) =
                   IF d = c THEN [asked[c] EXCEPT !.answer = "done"]
                   ELSE IF d \in D THEN [asked[d] EXCEPT !.moved = TRUE]
                   ELSE asked[d]
    <3>0. call[d] \in Call
      BY DEF Inv, TypeOK
    <3>1. CASE d = c
      <4> DEFINE s == [call[c] EXCEPT !.pc = "answered", !.answer = "done"]
      <4>1. call'[d] = s
        BY <3>1 DEF Edit
      <4>2. /\ s.pc = "answered" /\ s.answer = "done" /\ s.op = call[c].op
            /\ s.actor = call[c].actor /\ s.sub = call[c].sub
            /\ s.key = call[c].key /\ s.input = call[c].input
            /\ s.stale = call[c].stale
        BY <3>0, <3>1 DEF Call
      <4> HIDE DEF s
      <4>3. Seen(s) = [asked[c] EXCEPT !.answer = "done"]
        <5>1. asked[c] = Seen(call[c])
          BY DEF asked
        <5> QED BY <1>1, <4>2, <5>1 DEF Seen
      <4> QED BY <3>1, <4>1, <4>3
    <3>2. CASE d \in D
      <4> DEFINE s == [call[d] EXCEPT !.stale = TRUE]
      <4>1. call'[d] = s
        BY <3>2 DEF Edit
      <4>2. /\ s.pc = "row" /\ s.answer = call[d].answer /\ s.op = call[d].op
            /\ s.actor = call[d].actor /\ s.sub = call[d].sub
            /\ s.key = call[d].key /\ s.input = call[d].input
            /\ s.stale = TRUE
        BY <3>0, <3>2 DEF Call
      <4>4. d # c /\ call[d].pc # "idle"
        BY <3>2
      <4> HIDE DEF s
      <4>3. Seen(s) = [asked[d] EXCEPT !.moved = TRUE]
        <5>1. asked[d] = Seen(call[d])
          BY DEF asked
        <5>2. Seen(s) = [op |-> s.op, actor |-> s.actor, sub |-> s.sub,
                         key |-> s.key, input |-> s.input, moved |-> s.stale,
                         answer |-> s.answer]
          BY <4>2 DEF Seen
        <5>3. @ = [Seen(call[d]) EXCEPT !.moved = s.stale]
          BY <4>2, <4>4 DEF Seen
        <5> QED BY <4>2, <5>1, <5>2, <5>3
      <4> QED BY <3>2, <4>1, <4>3, <4>4
    <3>3. CASE d # c /\ d \notin D
      <4>1. call'[d] = call[d]
        BY <3>3 DEF Edit
      <4> QED BY <3>3, <4>1 DEF asked
    <3> QED BY <3>1, <3>2, <3>3
  <2> HIDE DEF D
  <2> QED BY <2>1, <2>2
<1> HIDE DEF D
<1> QED BY <1>1, <1>2, <1>3, <1>4, <1>5, <1>6 DEF Service!Do

\* What was checked with the name is still so.
LEMMA CommitStep ==
    ASSUME Inv, Asking, NEW c \in Calls, Commit(c)
    PROVE  Service!Do(c) \/ Service!Refuse(c)
<1>1. /\ call[c].pc = "commit" /\ HoldsUser(c) /\ HoldsName(c)
      /\ UNCHANGED account
  BY DEF Commit, HoldsUser, HoldsName
<1>2. /\ Authorized(c) /\ Earlier(c) = {} /\ Permitted(c)
      /\ call[c].op \in Named
  BY <1>1 DEF Inv, HeldInv
<1>3. ~Service!Duplicate(asked[c])
  BY <1>1, SameGuards DEF Inv, CheckedInv
<1>4. CASE /\ request' = [request EXCEPT ![call[c].sub].state = To[call[c].op]]
           /\ place' = IF call[c].op = "finalize" THEN place
                       ELSE place \cup {[proposal |-> Target(c).proposal,
                                         source |-> call[c].sub]}
           /\ Complete(c) /\ Answer(c, "done")
           /\ idle' = idle \ {call[c].sub}
  <2>1. Service!Move(asked[c], To[call[c].op])
    BY <1>1, <1>2, <1>4, MoveStep DEF Named
  <2>2. CASE call[c].op = "finalize"
    <3>1. Service!Finalize(asked[c])
      BY <1>3, <1>4, <2>1, <2>2, Operations DEF Service!Finalize
    <3>2. Service!Effect(asked[c])
      BY <2>2, <3>1, <1>1, SeenCall DEF Service!Effect
    <3> QED BY <1>1, <1>2, <1>4, <3>2, DoStep
  <2>3. CASE call[c].op = "approve"
    <3>1. place' = place \cup {[proposal |-> request[asked[c].sub].proposal,
                                source |-> asked[c].sub]}
      BY <1>1, <1>4, <2>3, SeenCall DEF Target
    <3>2. Service!Approve(asked[c])
      BY <1>3, <2>1, <2>3, <3>1, Operations DEF Service!Approve
    <3>3. Service!Effect(asked[c])
      BY <2>3, <3>2, <1>1, SeenCall DEF Service!Effect
    <3> QED BY <1>1, <1>2, <1>4, <3>3, DoStep
  <2> QED BY <1>2, <2>2, <2>3 DEF Named
<1>5. CASE Answer(c, "not_ready") /\ UNCHANGED <<rows, idle>>
  BY <1>1, <1>2, <1>5, NotReadyStep
<1> QED BY <1>4, <1>5 DEF Commit

\* The answer that arrives, and the call that dies.
LEMMA LeaveStep ==
    ASSUME Inv, NEW c \in Calls, Return(c) \/ Die(c) PROVE Service!Leave(c)
<1>1. /\ call[c].pc # "idle" /\ Become(c, Idle)
      /\ UNCHANGED <<rows, account, drafts>>
  BY DEF Return, Die, Become
<1>2. Seen(Idle) = None
  BY DEF Seen, Idle
<1>3. asked[c] # None
  BY <1>1, SeenCall
<1>4. asked' = [asked EXCEPT ![c] = None]
  BY <1>1, <1>2, SeenBecome
<1> QED BY <1>1, <1>3, <1>4 DEF Service!Leave, rows, drafts

LEMMA ServeStep ==
    ASSUME Inv, Asking, NEW c \in Calls, Serve(c) \/ Die(c)
    PROVE  \/ Service!Do(c) \/ Service!Refuse(c) \/ Service!Leave(c)
           \/ UNCHANGED Service!vars
<1>1. ASSUME UNCHANGED <<rows, account, drafts>>, UNCHANGED asked
      PROVE  UNCHANGED Service!vars
  BY <1>1 DEF Service!vars, rows, drafts
<1>2. CASE LockRow(c)
  BY <1>1, <1>2, LockRowStep DEF LockRow
<1>3. CASE Precheck(c)
  <2>1. UNCHANGED asked
    BY <1>3, SeenGoto DEF Precheck, Proceeds, HasUser
  <2> QED BY <1>1, <1>3, <2>1 DEF Precheck
<1>4. CASE SeekName(c)
  BY <1>1, <1>4, SeekNameStep DEF SeekName
<1>5. CASE Backfill(c)
  BY <1>1, <1>5, BackfillStep DEF Backfill
<1>6. CASE CheckName(c)
  BY <1>1, <1>6, CheckNameStep DEF CheckName
<1>7. CASE Decline(c) \/ Close(c) \/ HardDelete(c) \/ Edit(c) \/ Commit(c)
  BY <1>7, DeclineStep, CloseStep, HardDeleteStep, EditStep, CommitStep
<1>8. CASE Return(c) \/ Die(c)
  BY <1>8, LeaveStep
<1> QED BY <1>2, <1>3, <1>4, <1>5, <1>6, <1>7, <1>8 DEF Serve, Proceed

-----------------------------------------------------------------------------
\* The steps that belong to no call

LEMMA CreateStep ==
    ASSUME Inv, NEW a \in Accounts, NEW s \in Subs, NEW p \in Proposals,
           NEW key \in Keys \cup {None}, Create(a, s, p, key)
    PROVE  Service!Create(a, s, p, key)
<1> DEFINE q == [actor |-> a, op |-> "create", key |-> key, sub |-> s,
                 input |-> p]
<1>1. asked' = asked /\ UNCHANGED <<place, account, idle>>
  BY DEF Create, drafts, asked
<1>2. Service!Tell(s, "draft")
  BY DEF Create, Event, Service!Tell
<1>3. Service!Own(q) = q
  BY DEF Service!Own
<1>4. Service!Keep(q)
  BY <1>3 DEF Create, Service!Keep
<1> QED BY <1>1, <1>2, <1>4 DEF Create, Service!Create

LEMMA ExpireStep ==
    ASSUME Inv, NEW s \in Subs, Expire(s)
    PROVE  Service!Expire(s) \/ UNCHANGED Service!vars
<1>1. asked' = asked /\ UNCHANGED <<place, record, account>>
  BY DEF Expire, asked
<1>2. CASE StillDue(s)
  BY <1>1, <1>2 DEF Expire, StillDue, Event, Service!Expire, Service!Tell
<1>3. CASE ~StillDue(s)
  BY <1>1, <1>3 DEF Expire, Service!vars
<1> QED BY <1>2, <1>3

LEMMA OtherStep ==
    /\ \A a \in Accounts, standing \in Standings :
           SetAccount(a, standing) => Service!SetAccount(a, standing)
    /\ \A s \in Subs : Age(s) => Service!Age(s)
    /\ \A s \in Subs : MediaActivity(s) => Service!MediaActivity(s)
    /\ \A s \in Subs : Scan(s) => UNCHANGED Service!vars
    /\ UNCHANGED vars => UNCHANGED Service!vars
<1>1. call' = call => asked' = asked
  BY DEF asked
<1> QED BY <1>1
        DEF SetAccount, Service!SetAccount, Age, Service!Age, MediaActivity,
            Service!MediaActivity, Scan, Service!vars, vars, rows, drafts

LEMMA ServiceNext ==
    ASSUME Inv, Asking, [Next]_vars PROVE [Service!Next]_(Service!vars)
<1>1. ASSUME NEW a \in Accounts, NEW s \in Subs, NEW p \in Proposals,
             NEW key \in Keys \cup {None}, Create(a, s, p, key)
      PROVE  Service!Next
  BY <1>1, CreateStep DEF Service!Next
<1>2. ASSUME NEW c \in Calls, NEW op \in Ops, NEW a \in Accounts,
             NEW s \in Subs, NEW key \in Keys \cup {None},
             NEW input \in Proposals \cup {None}, Start(c, op, a, s, key, input)
      PROVE  Service!Next
  BY <1>2, StartStep DEF Service!Next
<1>3. ASSUME NEW c \in Calls, Serve(c) \/ Die(c)
      PROVE  Service!Next \/ UNCHANGED Service!vars
  BY <1>3, ServeStep DEF Service!Next
<1>4. ASSUME NEW a \in Accounts, NEW standing \in Standings,
             SetAccount(a, standing)
      PROVE  Service!Next
  <2>1. standing \in {"inactive", "user", "moderator", "admin"}
    BY StandingsAssumption DEF Standing
  <2> QED BY <1>4, <2>1, OtherStep DEF Service!Next
<1>5. ASSUME NEW s \in Subs, Age(s) \/ MediaActivity(s)
      PROVE  Service!Next
  BY <1>5, OtherStep DEF Service!Next
<1>6. ASSUME NEW s \in Subs, Scan(s) \/ Expire(s)
      PROVE  Service!Next \/ UNCHANGED Service!vars
  BY <1>6, ExpireStep, OtherStep DEF Service!Next
<1>7. CASE UNCHANGED vars
  BY <1>7, OtherStep
<1> QED BY <1>1, <1>2, <1>3, <1>4, <1>5, <1>6, <1>7 DEF Next

LEMMA ServiceInit == Init => Service!Init
<1> SUFFICES ASSUME Init PROVE Service!Init
  OBVIOUS
<1>1. /\ request \in [Subs -> Service!New \cup Service!Old]
      /\ \A s \in Subs \ Legacy : request[s] \in Service!New
  <2>1. Absent \in Service!New /\ Inherited = Service!Old
    BY DEF Absent, Inherited, Service!New, Service!Old
  <2> QED BY <2>1 DEF Init
<1>2. asked = [c \in Calls |-> None]
  BY DEF Init, asked, Seen, Idle
<1> QED BY <1>1, <1>2 DEF Init, Service!Init

-----------------------------------------------------------------------------
\* The theorems

\* Every state that the services and the job can reach satisfies Inv.
THEOREM Invariance == Spec => []Inv
<1>1. Init => Inv
  BY InitInv
<1>2. Inv /\ [Next]_vars => Inv'
  BY NextInv
<1> QED BY <1>1, <1>2, PTL DEF Spec

\* The rows and the calls are always of their types.
THEOREM TypeCorrect == Spec => []TypeOK
<1>1. Inv => TypeOK
  BY DEF Inv
<1> QED BY <1>1, Invariance, PTL

\* No two public places have the same name and are near each other, however
\* many approvals run at once (_assert_no_duplicate under the name's lock).
THEOREM PlacesStayApart == Spec => []PlacesApart
<1>1. Inv => PlacesApart
  BY DEF Inv
<1> QED BY <1>1, Invariance, PTL

\* No owner has two like submissions under review, however many finalizations,
\* edits and creations run at once.
THEOREM PendingStayApart == Spec => []PendingApart
<1>1. Inv => PendingApart
  BY DEF Inv
<1> QED BY <1>1, Invariance, PTL

\* The approved submissions and the places correspond one to one, and each
\* place is what was proposed.
THEOREM OnePlaceForEach == Spec => []OnePlaceEach
<1>1. Inv => OnePlaceEach
  BY DEF Inv
<1> QED BY <1>1, Invariance, PTL

\* The lifecycle events of a submission chain from its creation, or from its
\* migration, to its state; a deletion never takes a row that has any.
THEOREM EventsTellAll == Spec => []EventsTellHistory
<1>1. Inv => EventsTellHistory
  BY DEF Inv
<1> QED BY <1>1, Invariance, PTL

\* No two calls ever record the same key: the unique constraint of
\* SubmissionIdempotency fails none.
THEOREM KeysUsedOnce == Spec => []KeyUsedOnce
<1>1. Inv => KeyUsedOnce
  BY DEF Inv
<1> QED BY <1>1, Invariance, PTL

\* Whoever decides on a submission is a moderator and not its owner when the
\* decision is written, although the role may be taken away meanwhile.
THEOREM ModeratorsDecide == Spec => DecidedByModerator
<1>1. ASSUME Inv, [Next]_vars, NEW c \in Calls, call[c].op \in Reviews,
             call[c].answer # "done", call'[c].answer = "done"
      PROVE  /\ account[call[c].actor] \in Moderators
             /\ Target(c).owner # call[c].actor
  BY <1>1, DoneAuthorized DEF Authorized
<1>2. Inv /\ [Next]_vars =>
          [\A c \in Calls :
               /\ call[c].op \in Reviews
               /\ call[c].answer # "done" /\ call'[c].answer = "done"
               => /\ account[call[c].actor] \in Moderators
                  /\ Target(c).owner # call[c].actor]_vars
  BY <1>1
<1> QED BY <1>2, Invariance, PTL DEF Spec, DecidedByModerator

\* A draft expires only while it has had no activity for thirty days, however
\* long ago the job has found it so.
THEOREM OnlyIdleDraftsExpire == Spec => OnlyIdleExpires
<1>1. Inv /\ [Next]_vars =>
          [\A s \in Subs :
               /\ request[s].state # "expired" /\ request'[s].state = "expired"
               => s \in idle]_vars
  BY ExpiredByJob
<1> QED BY <1>1, Invariance, PTL DEF Spec, OnlyIdleExpires

\* Every call is served as if at one moment between being asked and answered:
\* the locks, the rechecks and the two transactions of an approval do not show,
\* nothing is done without the answer "done", and a refusal has a reason that
\* holds at that moment.
THEOREM CallsServedAtOnce == Spec => ServedAtOnce
<1>1. Init => Service!Init /\ Asking
  BY ServiceInit, AskingInit
<1>2. Inv /\ Asking /\ [Next]_vars => Asking' /\ [Service!Next]_(Service!vars)
  BY AskingNext, ServiceNext
<1> QED BY <1>1, <1>2, Invariance, PTL DEF Spec, ServedAtOnce, Service!Spec
-----------------------------------------------------------------------------
\* What the service is worth

AskedInv == \A c \in Calls : asked[c] # None =>
    /\ asked[c].op \in DOMAIN From /\ asked[c].sub \in Subs
    /\ asked[c].op = "edit" => asked[c].input \in Proposals

LEMMA RowChanges ==
    ASSUME RowsInv, NEW k \in Subs, request[k].state # "none"
    PROVE  /\ \A s \in State \ {"none"} :
                  LET row == [request[k] EXCEPT !.state = s]
                  IN /\ row.state = s /\ row.owner = request[k].owner
                     /\ row.proposal = request[k].proposal
                     /\ request' = [request EXCEPT ![k].state = s] => Replaces(k, row)
           /\ \A p \in Proposals :
                  LET row == [request[k] EXCEPT !.proposal = p]
                  IN /\ row.state = request[k].state
                     /\ request' = [request EXCEPT ![k].proposal = p] => Replaces(k, row)
<1>1. /\ request[k] \in Request
      /\ request[k].owner \in Accounts /\ request[k].proposal \in Proposals
  BY DEF RowsInv, RowInv
<1>2. ASSUME NEW s \in State \ {"none"}
      PROVE  LET row == [request[k] EXCEPT !.state = s]
             IN /\ row.state = s /\ row.owner = request[k].owner
                /\ row.proposal = request[k].proposal /\ row \in Request
  BY <1>1 DEF Request
<1>3. ASSUME NEW p \in Proposals
      PROVE  LET row == [request[k] EXCEPT !.proposal = p]
             IN /\ row.state = request[k].state /\ row.owner = request[k].owner
                /\ row.proposal = p /\ row \in Request
  BY <1>1 DEF Request
<1>4. ASSUME NEW s \in State \ {"none"}, request' = [request EXCEPT ![k].state = s]
      PROVE  Replaces(k, [request[k] EXCEPT !.state = s])
  BY <1>1, <1>2, <1>4 DEF Replaces
<1>5. ASSUME NEW p \in Proposals, request' = [request EXCEPT ![k].proposal = p]
      PROVE  Replaces(k, [request[k] EXCEPT !.proposal = p])
  BY <1>1, <1>3, <1>5 DEF Replaces
<1> QED BY <1>2, <1>3, <1>4, <1>5

\* A row is written with its event, and a key that was not used.
LEMMA RowWritten ==
    ASSUME RowsInv, NEW k \in Subs, NEW row, Replaces(k, row),
           Event(k, request[k].state, row.state),
           request[k].state \in Open \cup {"none"},
           NEW r, record' \in {record, record \cup {r}},
           \A t \in record : ~(t.actor = r.actor /\ t.op = r.op /\ t.key = r.key),
           PlacesApart', PendingApart', OnePlaceEach'
    PROVE  RowsInv'
<1>1. EventsTellHistory' /\ EventInv' /\ RowInv' /\ KeyUsedOnce'
  BY EventStep, RowKept, RecordStep
<1>2. request' \in [Subs -> Request]
  BY ReplaceFacts
<1>3. request[k].state \in State /\ row.state \in State
  BY DEF RowsInv, Request, Replaces
<1>4. event' \in [Subs -> Seq([from: State, to: State])]
  BY <1>3, EventType
<1> QED BY <1>1, <1>2, <1>4 DEF RowsInv

\* A submission that becomes pending is like no other of its owner.
LEMMA FinalizeApart ==
    ASSUME RowsInv, NEW k \in Subs, NEW row, Replaces(k, row),
           row.proposal = request[k].proposal, row.owner = request[k].owner,
           \A s \in Subs \ {k} :
               ~(/\ request[s].owner = request[k].owner
                 /\ request[s].state \in Open
                 /\ Alike(request[s].proposal, request[k].proposal))
    PROVE  PendingApart'
<1>1. /\ request'[k] = row
      /\ \A s \in Subs \ {k} : request'[s] = request[s]
  BY ReplaceFacts
<1>2. ASSUME NEW s \in Subs \ {k}, request[s].owner = request[k].owner,
             request[s].state = "pending"
      PROVE  /\ ~Alike(request[s].proposal, request[k].proposal)
             /\ ~Alike(request[k].proposal, request[s].proposal)
  BY <1>2, AlikeSymmetric DEF Open
<1> QED BY <1>1, <1>2 DEF RowsInv, PendingApart

\* What an approval makes public is like nothing that is.
LEMMA ApproveApart ==
    ASSUME RowsInv, NEW k \in Subs, NEW row, Replaces(k, row),
           row.state = "approved", row.proposal = request[k].proposal,
           place' = place \cup {[proposal |-> request[k].proposal, source |-> k]},
           \A p \in place : ~Alike(p.proposal, request[k].proposal)
    PROVE  PlacesApart' /\ OnePlaceEach'
<1> DEFINE new == [proposal |-> request[k].proposal, source |-> k]
<1>1. \A p \in place : /\ ~Alike(p.proposal, new.proposal)
                       /\ ~Alike(new.proposal, p.proposal)
  BY AlikeSymmetric
<1>2. PlacesApart'
  BY <1>1 DEF RowsInv, PlacesApart
<1>3. /\ request'[k] = row
      /\ \A s \in Subs \ {k} : request'[s] = request[s]
  BY ReplaceFacts
<1>4. {t \in Subs : request'[t].state = "approved"} =
          {t \in Subs : request[t].state = "approved"} \cup {k}
  BY <1>3
<1>5. \A s \in {t \in Subs : request[t].state = "approved"} \cup {k} :
          request'[s].proposal = request[s].proposal
  BY <1>3
<1>6. OnePlaceEach'
  BY <1>4, <1>5 DEF RowsInv, OnePlaceEach
<1> QED BY <1>2, <1>6

\* Nothing expires by being served.
StaysUnexpired ==
    \A s \in Subs : request'[s].state = "expired" => request[s].state = "expired"

LEMMA EffectStep ==
    ASSUME RowsInv, NEW q, q.op \in DOMAIN From, q.sub \in Subs,
           q.op = "edit" => q.input \in Proposals,
           Service!Allowed(q), Service!Earlier(q) = {}, Service!Timely(q),
           Service!Effect(q)
    PROVE  RowsInv' /\ StaysUnexpired
<1> DEFINE k == q.sub
           r == Service!Own(q)
           moved(s) == [request[k] EXCEPT !.state = s]
<1>1. k \in Subs /\ request[k].state \in Service!From[q.op]
  BY DEF Service!Timely
<1>2. \A t \in record : ~(t.actor = r.actor /\ t.op = r.op /\ t.key = r.key)
  BY DEF Service!Earlier, Service!Own
<1>3. Service!Keep(q) => record' \in {record, record \cup {r}}
  BY DEF Service!Keep
<1>4. \A p, o : Service!Alike(p, o) <=> Alike(p, o)
  BY DEF Service!Alike, Alike
<1>5. ASSUME NEW s \in {"pending", "withdrawn", "approved", "rejected"},
             Service!Move(q, s), request[k].state \in Open
      PROVE  /\ Replaces(k, moved(s)) /\ moved(s).state = s
             /\ moved(s).owner = request[k].owner
             /\ moved(s).proposal = request[k].proposal
             /\ PlacesApart' /\ PendingApart' /\ OnePlaceEach' => RowsInv'
             /\ StaysUnexpired
  <2>1. request[k].state # "none" /\ request[k].state # "expired" /\ s \in State \ {"none"}
    BY <1>5 DEF Open, State
  <2>2. request' = [request EXCEPT ![k].state = s]
    BY <1>5 DEF Service!Move
  <2>3. /\ Replaces(k, moved(s)) /\ moved(s).state = s
        /\ moved(s).owner = request[k].owner
        /\ moved(s).proposal = request[k].proposal
    BY <1>1, <2>1, <2>2, RowChanges
  <2>4. Event(k, request[k].state, s)
    BY <1>5 DEF Service!Move, Service!Tell, Event
  <2> HIDE DEF moved, k, r
  <2>5. PlacesApart' /\ PendingApart' /\ OnePlaceEach' => RowsInv'
    BY <1>1, <1>2, <1>3, <1>5, <2>3, <2>4, RowWritten DEF Service!Move
  <2>6. /\ request'[k] = moved(s)
        /\ \A t \in Subs \ {k} : request'[t] = request[t]
    BY <1>1, <2>3, ReplaceFacts
  <2>7. StaysUnexpired
    BY <2>3, <2>6 DEF StaysUnexpired
  <2> QED BY <2>3, <2>5, <2>7
<1>6. CASE q.op = "edit"
  <2> DEFINE row == [request[k] EXCEPT !.proposal = q.input]
  <2>1. Service!Edit(q) /\ request[k].state = "draft" /\ q.input \in Proposals
    BY <1>1, <1>6 DEF Service!Effect, Service!From
  <2>2. Replaces(k, row) /\ row.state = "draft"
    BY <1>1, <2>1, RowChanges DEF Service!Edit
  <2>3. Event(k, request[k].state, row.state) /\ place' = place
        /\ record' \in {record, record \cup {r}}
    BY <1>3, <2>1, <2>2 DEF Service!Edit, Service!Tell, Event
  <2> HIDE DEF row, k, r
  <2>4. PlacesApart' /\ OnePlaceEach' /\ PendingApart'
    BY <1>1, <2>1, <2>2, <2>3, PlacesKept, PendingKept
  <2>5. RowsInv'
    BY <1>1, <1>2, <2>1, <2>2, <2>3, <2>4, RowWritten DEF Open
  <2>6. StaysUnexpired
    BY <1>1, <2>2, ReplaceFacts DEF StaysUnexpired
  <2> QED BY <2>5, <2>6
<1>7. CASE q.op = "finalize"
  <2>1. /\ Service!Move(q, "pending") /\ ~Service!Duplicate(q) /\ place' = place
        /\ request[k].state = "draft"
    BY <1>1, <1>7 DEF Service!Effect, Service!Finalize, Service!From
  <2>2. \A s \in Subs \ {k} :
            ~(/\ request[s].owner = request[k].owner /\ request[s].state \in Open
              /\ Alike(request[s].proposal, request[k].proposal))
    <3> SUFFICES ASSUME NEW s \in Subs \ {k}, request[s].owner = request[k].owner,
                        request[s].state \in Open,
                        Alike(request[s].proposal, request[k].proposal)
                 PROVE  Service!Duplicate(q)
      BY <2>1
    <3>1. /\ Service!Alike(request[s].proposal, request[q.sub].proposal)
          /\ request[s].state \in Service!Open
      BY <1>4 DEF Service!Open, Open
    <3>2. request[k].owner = q.actor
      BY <1>7 DEF Service!Allowed
    <3> QED BY <1>7, <3>1, <3>2 DEF Service!Duplicate
  <2>3. request[k].state \in Open
    BY <2>1 DEF Open
  <2> HIDE DEF moved, k
  <2>4. PendingApart' /\ PlacesApart' /\ OnePlaceEach'
    BY <1>1, <1>5, <2>1, <2>2, <2>3, FinalizeApart, PlacesKept
  <2> QED BY <1>5, <2>1, <2>3, <2>4
<1>8. CASE q.op = "approve"
  <2>1. /\ Service!Move(q, "approved") /\ ~Service!Duplicate(q)
        /\ place' = place \cup {[proposal |-> request[k].proposal, source |-> k]}
        /\ request[k].state \in Open
    BY <1>1, <1>8 DEF Service!Effect, Service!Approve, Service!From, Open
  <2>2. \A p \in place : ~Alike(p.proposal, request[k].proposal)
    BY <1>4, <2>1 DEF Service!Duplicate
  <2> HIDE DEF moved, k
  <2>3. PendingApart' /\ PlacesApart' /\ OnePlaceEach'
    BY <1>1, <1>5, <2>1, <2>2, ApproveApart, PendingKept
  <2> QED BY <1>5, <2>1, <2>3
<1>9. ASSUME NEW s \in {"withdrawn", "rejected"}, Service!Move(q, s), place' = place,
             request[k].state \in Open
      PROVE  RowsInv' /\ StaysUnexpired
  <2> HIDE DEF moved, k
  <2>1. PendingApart' /\ PlacesApart' /\ OnePlaceEach'
    BY <1>1, <1>5, <1>9, PlacesKept, PendingKept DEF Open
  <2> QED BY <1>5, <1>9, <2>1
<1>10. CASE q.op = "withdraw" \/ q.op = "reject"
  <2>1. request[k].state \in Open
    BY <1>1, <1>10 DEF Service!From, Service!Open, Open
  <2> QED BY <1>9, <1>10, <2>1 DEF Service!Effect, Service!Withdraw, Service!Reject
<1>11. CASE q.op = "delete"
  <2>1. /\ event[k] = <<>> /\ event' = event /\ place' = place /\ record' = record
        /\ request' = [request EXCEPT ![k].state = "removed"]
        /\ request[k].state \in {"draft", "pending", "withdrawn", "expired", "rejected"}
    BY <1>1, <1>11 DEF Service!Effect, Service!Delete, Service!From
  <2>2. Replaces(k, moved("removed")) /\ moved("removed").state = "removed"
    BY <1>1, <2>1, RowChanges DEF State, Open
  <2> HIDE DEF moved, k
  <2>3. /\ request' \in [Subs -> Request] /\ request'[k] = moved("removed")
        /\ \A s \in Subs \ {k} : request'[s] = request[s]
    BY <1>1, <2>2, ReplaceFacts
  <2>4. PlacesApart' /\ OnePlaceEach' /\ PendingApart' /\ RowInv'
    BY <1>1, <2>1, <2>2, PlacesKept, PendingKept, RowKept
  <2>5. EventsTellHistory' /\ EventInv' /\ KeyUsedOnce'
    BY <1>1, <2>1, <2>2, <2>3
       DEF RowsInv, EventsTellHistory, EventInv, KeyUsedOnce
  <2>6. RowsInv'
    BY <2>1, <2>3, <2>4, <2>5 DEF RowsInv
  <2>7. StaysUnexpired
    BY <2>2, <2>3 DEF StaysUnexpired
  <2> QED BY <2>6, <2>7
<1> QED BY <1>6, <1>7, <1>8, <1>10, <1>11, Operations

LEMMA CreatesStep ==
    ASSUME RowsInv, NEW a \in Accounts, NEW k \in Subs, NEW p \in Proposals,
           NEW key \in Keys \cup {None}, Service!Create(a, k, p, key)
    PROVE  RowsInv' /\ StaysUnexpired
<1> DEFINE row == [state |-> "draft", owner |-> a, proposal |-> p]
           q == [actor |-> a, op |-> "create", key |-> key, sub |-> k, input |-> p]
<1>1. Replaces(k, row) /\ row.state = "draft" /\ request[k].state = "none"
  BY DEF Service!Create, Replaces, Request, State, Open
<1>2. Event(k, request[k].state, row.state) /\ place' = place
  BY DEF Service!Create, Service!Tell, Event
<1>3. /\ record' \in {record, record \cup {q}}
      /\ \A t \in record : ~(t.actor = q.actor /\ t.op = q.op /\ t.key = q.key)
  BY DEF Service!Create, Service!Keep, Service!Own
<1> HIDE DEF row, q
<1>4. PlacesApart' /\ OnePlaceEach' /\ PendingApart'
  BY <1>1, <1>2, PlacesKept, PendingKept
<1>5. RowsInv'
  BY <1>1, <1>2, <1>3, <1>4, RowWritten
<1>6. StaysUnexpired
  BY <1>1, ReplaceFacts DEF StaysUnexpired
<1> QED BY <1>5, <1>6

LEMMA ExpiresStep ==
    ASSUME RowsInv, NEW k \in Subs, Service!Expire(k)
    PROVE  /\ RowsInv' /\ k \in idle
           /\ \A s \in Subs \ {k} : request'[s] = request[s]
<1> DEFINE row == [request[k] EXCEPT !.state = "expired"]
<1>1. Replaces(k, row) /\ row.state = "expired"
  BY RowChanges DEF Service!Expire, State
<1>2. /\ Event(k, request[k].state, row.state) /\ place' = place /\ record' = record
      /\ request[k].state = "draft" /\ k \in idle
  BY <1>1 DEF Service!Expire, Service!Tell, Event
<1> HIDE DEF row
<1>3. PlacesApart' /\ OnePlaceEach' /\ PendingApart' /\ RowInv' /\ KeyUsedOnce'
  BY <1>1, <1>2, PlacesKept, PendingKept, RowKept DEF RowsInv, KeyUsedOnce
<1>4. EventsTellHistory' /\ EventInv'
  BY <1>1, <1>2, EventStep DEF Open
<1>5. event' \in [Subs -> Seq([from: State, to: State])]
  <2>1. request[k].state \in State /\ row.state \in State
    BY <1>1, <1>2 DEF State, Open
  <2> QED BY <1>2, <2>1, EventType
<1>6. request' \in [Subs -> Request] /\ \A s \in Subs \ {k} : request'[s] = request[s]
  BY <1>1, ReplaceFacts
<1> QED BY <1>2, <1>3, <1>4, <1>5, <1>6 DEF RowsInv

LEMMA AskedStep ==
    ASSUME AskedInv, [Service!Next]_(Service!vars) PROVE AskedInv'
<1> DEFINE Kept(c) == asked[c] # None /\ asked'[c].op = asked[c].op
                      /\ asked'[c].sub = asked[c].sub /\ asked'[c].input = asked[c].input
<1>0. ASSUME NEW c \in Calls, NEW q, asked' = [asked EXCEPT ![c] = q]
      PROVE  \A d \in Calls : asked'[d] = IF d = c THEN q ELSE asked[d]
  BY <1>0 DEF asked
<1>1. CASE UNCHANGED asked
  BY <1>1 DEF AskedInv
<1>2. ASSUME NEW c \in Calls, Service!Ask(c)
      PROVE  AskedInv'
  <2>1. PICK op \in DOMAIN Service!From, a \in Accounts, s \in Subs,
             key \in Keys \cup {None}, input \in Proposals \cup {None} :
            /\ request[s].state \notin {"none", "removed"}
            /\ op = "edit" => input \in Proposals
            /\ asked' = [asked EXCEPT
                            ![c] = [op |-> op, actor |-> a, sub |-> s,
                                    key |-> key, input |-> input,
                                    moved |-> FALSE, answer |-> None]]
    BY <1>2, Zenon DEF Service!Ask
  <2>2. DOMAIN Service!From = DOMAIN From
    BY DEF Service!From, From
  <2> QED BY <1>0, <2>1, <2>2 DEF AskedInv
<1>3. ASSUME NEW c \in Calls, NEW f, asked[c] # None,
             f.op = asked[c].op, f.sub = asked[c].sub, f.input = asked[c].input,
             asked' = [asked EXCEPT ![c] = f]
      PROVE  AskedInv'
  BY <1>0, <1>3 DEF AskedInv
<1>4. ASSUME NEW c \in Calls, asked[c] # None
      PROVE  \A x : LET f == [asked[c] EXCEPT !.answer = x]
                    IN f.op = asked[c].op /\ f.sub = asked[c].sub
                       /\ f.input = asked[c].input
  BY <1>4 DEF asked, Seen
<1>5. ASSUME NEW c \in Calls, asked[c] # None
      PROVE  LET f == [asked[c] EXCEPT !.moved = TRUE]
             IN f.op = asked[c].op /\ f.sub = asked[c].sub
                /\ f.input = asked[c].input
  BY <1>5 DEF asked, Seen
<1>6. ASSUME NEW c \in Calls, Service!Refuse(c)
      PROVE  AskedInv'
  <2>1. PICK x : asked' = [asked EXCEPT ![c] = [asked[c] EXCEPT !.answer = x]]
    BY <1>6 DEF Service!Refuse
  <2>2. asked[c] # None
    BY <1>6 DEF Service!Refuse, Service!Waits
  <2> QED BY <1>3, <1>4, <2>1, <2>2
<1>7. ASSUME NEW c \in Calls, Service!Leave(c)
      PROVE  AskedInv'
  BY <1>0, <1>7 DEF AskedInv, Service!Leave
<1>8. ASSUME NEW c \in Calls, Service!Do(c)
      PROVE  AskedInv'
  <2>1. asked[c] # None
    BY <1>8 DEF Service!Do, Service!Waits
  <2>2. PICK D \in SUBSET Calls :
            /\ \A d \in D : asked[d] # None
            /\ asked' = [d \in Calls |->
                            IF d = c THEN [asked[c] EXCEPT !.answer = "done"]
                            ELSE IF d \in D THEN [asked[d] EXCEPT !.moved = TRUE]
                            ELSE asked[d]]
    BY <1>8 DEF Service!Do, Service!Waits
  <2>3. ASSUME NEW d \in Calls
        PROVE  asked'[d] = asked[d] \/ Kept(d)
    <3>1. CASE d = c
      BY <1>4, <2>1, <2>2, <3>1
    <3>2. CASE d # c /\ d \in D
      BY <1>5, <2>2, <3>2
    <3> QED BY <2>2, <3>1, <3>2
  <2> QED BY <2>3 DEF AskedInv
<1> QED
  BY <1>1, <1>2, <1>6, <1>7, <1>8
     DEF Service!Next, Service!vars, Service!Create, Service!SetAccount, Service!Age,
         Service!MediaActivity, Service!Expire

LEMMA ServedStep ==
    ASSUME RowsInv, AskedInv, [Service!Next]_(Service!vars)
    PROVE  /\ RowsInv'
           /\ \A s \in Subs : request[s].state # "expired"
                              /\ request'[s].state = "expired" => s \in idle
<1>1. ASSUME UNCHANGED <<request, event, place, record>>
      PROVE  RowsInv'
  <2>1. /\ request' = request /\ event' = event /\ place' = place
        /\ record' = record
    BY <1>1
  <2>2. RowInv' /\ EventInv' /\ KeyUsedOnce'
    BY <2>1 DEF RowsInv, RowInv, EventInv, KeyUsedOnce
  <2>3. PlacesApart' /\ PendingApart' /\ OnePlaceEach'
    BY <2>1 DEF RowsInv, PlacesApart, PendingApart, OnePlaceEach
  <2>4. EventsTellHistory'
    BY <2>1 DEF RowsInv, EventsTellHistory
  <2> QED BY <2>1, <2>2, <2>3, <2>4 DEF RowsInv
<1>2. ASSUME NEW c \in Calls, Service!Do(c)
      PROVE  RowsInv' /\ StaysUnexpired
  <2>1. /\ asked[c] # None /\ Service!Allowed(asked[c])
        /\ Service!Earlier(asked[c]) = {} /\ Service!Timely(asked[c])
        /\ Service!Effect(asked[c])
    BY <1>2 DEF Service!Do, Service!Waits
  <2>2. /\ asked[c].op \in DOMAIN From /\ asked[c].sub \in Subs
        /\ asked[c].op = "edit" => asked[c].input \in Proposals
    BY <2>1 DEF AskedInv
  <2> QED BY <2>1, <2>2, EffectStep
<1>3. CASE \E a \in Accounts, s \in Subs, p \in Proposals, key \in Keys \cup {None} :
               Service!Create(a, s, p, key)
  BY <1>3, CreatesStep DEF StaysUnexpired
<1>4. CASE \E c \in Calls : Service!Do(c)
  BY <1>2, <1>4 DEF StaysUnexpired
<1>5. CASE \E s \in Subs : Service!Expire(s)
  BY <1>5, ExpiresStep
<1>6. CASE UNCHANGED <<request, event, place, record>>
  BY <1>1, <1>6
<1> QED
  BY <1>3, <1>4, <1>5, <1>6
     DEF Service!Next, Service!vars, Service!Ask, Service!Refuse, Service!Leave,
         Service!SetAccount, Service!Age, Service!MediaActivity

LEMMA ServedStart == Service!Init => RowsInv /\ AskedInv
<1> SUFFICES ASSUME Service!Init PROVE RowsInv /\ AskedInv
  OBVIOUS
<1>1. \A s \in Subs : request[s] \in Service!New \cup Service!Old
  BY DEF Service!Init
<1>2. request \in [Subs -> Request]
  BY DEF Service!Init, Service!New, Service!Old, Request, State, Open
<1>3. \A s \in Subs : /\ request[s].state \in {"none", "pending"}
                      /\ request[s].state = "pending" => s \in Legacy
  BY <1>1 DEF Service!Init, Service!New, Service!Old
<1>4. RowInv
  BY <1>1 DEF RowInv, Service!New, Service!Old
<1>5. event = [s \in Subs |-> <<>>] /\ place = {} /\ record = {}
  BY DEF Service!Init
<1>6. EventInv /\ PlacesApart /\ KeyUsedOnce
  BY <1>5 DEF EventInv, PlacesApart, KeyUsedOnce
<1>7. PendingApart /\ OnePlaceEach
  BY <1>3, <1>5 DEF PendingApart, OnePlaceEach
<1>8. EventsTellHistory
  BY <1>3, <1>5 DEF EventsTellHistory
<1>9. AskedInv
  BY DEF Service!Init, AskedInv
<1> QED BY <1>2, <1>4, <1>5, <1>6, <1>7, <1>8, <1>9 DEF RowsInv

\* A service that serves every call at one moment keeps the places apart and
\* the histories whole, and lets only idle drafts expire: SubmissionService says
\* so without the locks, second looks and transactions of the code.
THEOREM ServiceSuffices ==
    ServedAtOnce =>
        /\ [](/\ PlacesApart /\ PendingApart /\ OnePlaceEach
              /\ EventsTellHistory /\ KeyUsedOnce)
        /\ OnlyIdleExpires
<1>1. RowsInv => /\ PlacesApart /\ PendingApart /\ OnePlaceEach
                 /\ EventsTellHistory /\ KeyUsedOnce
  BY DEF RowsInv
<1>2. RowsInv /\ AskedInv /\ [Service!Next]_(Service!vars)
          => /\ RowsInv' /\ AskedInv'
             /\ [\A s \in Subs :
                    /\ request[s].state # "expired" /\ request'[s].state = "expired"
                    => s \in idle]_vars
  BY ServedStep, AskedStep
<1> QED BY <1>1, <1>2, ServedStart, PTL DEF ServedAtOnce, Service!Spec, OnlyIdleExpires
=============================================================================

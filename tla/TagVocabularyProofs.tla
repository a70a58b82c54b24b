------------------------ MODULE TagVocabularyProofs ------------------------
(***************************************************************************)
(* The properties of TagVocabulary for any number of requests, tags and    *)
(* spellings.  The inductive invariant says which rows a call in progress  *)
(* has made sure of, and that the keys of the tags order them: every set   *)
(* of tags has a first and a last one.                                     *)
(***************************************************************************)
EXTENDS TagVocabulary, WellFoundedInduction, TLAPS

-----------------------------------------------------------------------------
\* The inductive invariant

RowsFit ==
    \A t \in Tags :
        /\ tag[t].name # None => Canonical[tag[t].name] = t
        /\ tag[t].public => tag[t].name # None /\ tag[t].by = None

\* The rows t that call c may link to: its own and the committed ones.
Sure(c, t) == tag[t].name # None /\ tag[t].by \in {None, c}

CallFits(c) ==
    /\ ~At(c, "idle") => call[c].request \in Requests
    /\ At(c, "attach") \/ At(c, "check") =>
           request[call[c].request].state \in {"none", "draft"}
    /\ At(c, "attach") => \A t \in call[c].done : Sure(c, t)
    /\ At(c, "check") => \A t \in TagsOf(call[c].links) : Sure(c, t)
    /\ At(c, "lock") =>
           /\ request[call[c].request].state = "pending"
           /\ request[call[c].request].links = call[c].links
           /\ call[c].done \subseteq TagsOf(call[c].links)
           /\ \A t \in call[c].done, u \in Todo(c) : <<t, u>> \in older

CallsFit == \A c \in Calls : CallFits(c)

CallsApart ==
    \A c, d \in Calls :
        /\ ~At(c, "idle") /\ ~At(d, "idle")
        /\ call[c].request = call[d].request
        => c = d

First(S) == \E t \in S : \A u \in S : <<u, t>> \notin older
Last(S) == \E t \in S : \A u \in S : <<t, u>> \notin older

KeysOrder ==
    /\ older \subseteq Existing \X Existing
    /\ \A t, u \in Existing : t # u => <<t, u>> \in older \/ <<u, t>> \in older
    /\ \A S \in SUBSET Tags : S # {} => First(S) /\ Last(S)

IInv ==
    /\ TypeOK /\ RowsFit /\ CallsFit /\ CallsApart /\ KeysOrder
    /\ TagsResolve /\ PublicWasReviewed

-----------------------------------------------------------------------------
\* The next tag

\* A set of numbers that has a member has a least one.
LEMMA Least ==
    ASSUME NEW S, S \subseteq Nat, S # {}
    PROVE  \E i \in S : \A j \in S : i <= j
<1> DEFINE R == {pair \in Nat \X Nat : pair[1] < pair[2]}
<1>1. IsWellFoundedOn(R, Nat)
  BY NatLessThanWellFounded DEF OpToRel
<1>2. \E i \in S : \A j \in S : <<j, i>> \notin R
  <2> HIDE DEF R
  <2> QED BY <1>1, WFMin
<1>3. PICK i \in S : \A j \in S : <<j, i>> \notin R
  BY <1>2
<1>4. ASSUME NEW j \in S PROVE i <= j
  <2>1. i \in Nat /\ j \in Nat /\ <<j, i>> \notin R
    BY <1>3
  <2>2. ~(j < i)
    BY <2>1
  <2> QED BY <2>1, <2>2
<1> QED BY <1>4

\* The next link of a call names a tag that it has yet to deal with.
LEMMA NextLinkIn ==
    ASSUME TypeOK, NEW c \in Calls, Todo(c) # {}
    PROVE  /\ NextLink(c) \in Displays /\ Canonical[NextLink(c)] \in Todo(c)
           /\ \E i \in DOMAIN call[c].links : call[c].links[i] = NextLink(c)
<1> DEFINE links == call[c].links
           S == {i \in DOMAIN links : Canonical[links[i]] \in Todo(c)}
<1>1. links \in Seq(Displays)
  BY DEF TypeOK, Call
<1>2. S \subseteq Nat /\ S # {}
  BY <1>1 DEF Todo, TagsOf
<1>3. PICK i \in S : \A j \in S : i <= j
  BY <1>2, Least
<1>4. \A j \in 1..(i - 1) : Canonical[links[j]] \notin Todo(c)
  <2> SUFFICES ASSUME NEW j \in 1..(i - 1) PROVE j \notin S /\ j \in DOMAIN links
    OBVIOUS
  <2>1. i \in 1..Len(links)
    BY <1>1, <1>3
  <2> QED BY <1>1, <1>2, <1>3, <2>1
<1>5. \E k \in DOMAIN links :
          /\ Canonical[links[k]] \in Todo(c)
          /\ \A j \in 1..(k - 1) : Canonical[links[j]] \notin Todo(c)
  BY <1>3, <1>4
<1>6. PICK k \in DOMAIN links :
          NextLink(c) = links[k] /\ Canonical[links[k]] \in Todo(c)
  BY <1>5 DEF NextLink
<1> QED BY <1>1, <1>6

\* The next lock of an approval is the first of the tags it has yet to lock.
LEMMA NextLockIn ==
    ASSUME TypeOK, KeysOrder, NEW c \in Calls, Todo(c) # {}
    PROVE  /\ NextLock(c) \in Todo(c)
           /\ \A u \in Todo(c) : <<u, NextLock(c)>> \notin older
<1>1. Todo(c) \subseteq Tags
  BY CanonicalAssumption DEF TypeOK, Call, Todo, TagsOf
<1>2. First(Todo(c))
  BY <1>1 DEF KeysOrder
<1> QED BY <1>2 DEF First, NextLock

\* The next tag is one of the tags the call has yet to deal with.
LEMMA NextTagIn ==
    ASSUME TypeOK, KeysOrder, NEW c \in Calls, Todo(c) # {}
    PROVE  NextTag(c) \in Todo(c) /\ NextTag(c) \in Tags
<1>1. Todo(c) \subseteq Tags
  BY CanonicalAssumption DEF TypeOK, Call, Todo, TagsOf
<1> QED BY <1>1, NextLinkIn, NextLockIn DEF NextTag

\* The tags of a list are tags.
LEMMA TagsOfIn ==
    ASSUME NEW links \in Seq(Displays)
    PROVE  TagsOf(links) \subseteq Tags
  BY CanonicalAssumption DEF TagsOf

-----------------------------------------------------------------------------
\* The initial states

LEMMA InitIInv == Init => IInv
<1> SUFFICES ASSUME Init PROVE IInv
  OBVIOUS
<1> USE CanonicalAssumption, LegacyAssumption, NoneAssumption
<1>1. ASSUME NEW t \in Tags
      PROVE  IF t \in TagsOf(Legacy)
             THEN /\ tag[t].name \in Displays /\ Canonical[tag[t].name] = t
                  /\ \E i \in DOMAIN Legacy : Legacy[i] = tag[t].name
                  /\ tag[t].public /\ tag[t].by = None
                  /\ tag[t] \in Row
             ELSE tag[t] = Absent
  <2>1. CASE t \in TagsOf(Legacy)
    <3> DEFINE P(d) == \E i \in DOMAIN Legacy : d = Legacy[i] /\ Canonical[d] = t
    <3>1. \E d \in Displays : P(d)
      BY <2>1 DEF TagsOf
    <3>2. tag[t] = [name |-> CHOOSE d \in Displays : P(d), public |-> TRUE, by |-> None]
      BY <2>1 DEF Init
    <3>3. tag[t].name \in Displays /\ P(tag[t].name)
      BY <3>1, <3>2
    <3> QED BY <2>1, <3>2, <3>3 DEF Row
  <2>2. CASE t \notin TagsOf(Legacy)
    BY <2>2 DEF Init
  <2> QED BY <2>1, <2>2
<1>2. Absent \in Row /\ Absent.name = None /\ ~Absent.public
  BY DEF Absent, Row
<1>3. Existing = TagsOf(Legacy)
  BY <1>1, <1>2, TagsOfIn DEF Existing
<1>4. TypeOK
  <2>1. tag \in [Tags -> Row]
    BY <1>1, <1>2 DEF Init
  <2> QED BY <2>1 DEF Init, TypeOK, Request, Call, Idle
<1>5. RowsFit
  BY <1>1, <1>2 DEF RowsFit
<1>6. CallsFit /\ CallsApart
  BY DEF Init, Idle, At, CallsFit, CallFits, CallsApart
<1>7. TagsResolve
  BY DEF Init, TagsResolve, TagsOf
<1>8. PublicWasReviewed
  BY <1>1, <1>2 DEF PublicWasReviewed
<1>9. KeysOrder
  <2>1. older \subseteq Existing \X Existing
    BY <1>3 DEF Init, TagsOf
  <2>2. ASSUME NEW t \in Existing, NEW u \in Existing, t # u
        PROVE  <<t, u>> \in older \/ <<u, t>> \in older
    <3>1. PICK i, j \in DOMAIN Legacy :
              t = Canonical[Legacy[i]] /\ u = Canonical[Legacy[j]]
      BY <1>3 DEF TagsOf
    <3>2. t \in Tags /\ u \in Tags
      BY DEF Existing
    <3>3. i < j \/ j < i
      BY <2>2, <3>1
    <3> QED BY <3>1, <3>2, <3>3 DEF Init
  <2>3. ASSUME NEW S \in SUBSET Tags, S # {} PROVE First(S) /\ Last(S)
    <3>1. CASE S \ Existing # {}
      BY <2>1, <3>1 DEF First, Last
    <3>2. CASE S \subseteq Existing
      <4> DEFINE D == {i \in DOMAIN Legacy : Canonical[Legacy[i]] \in S}
                 U == {n \in Nat : Len(Legacy) - n \in D}
      <4>1. D \subseteq 1..Len(Legacy) /\ D # {}
        BY <1>3, <2>3, <3>2 DEF TagsOf
      <4>2. \A i \in D : Len(Legacy) - i \in U
        BY <4>1
      <4>3. PICK i \in D : \A j \in D : i <= j
        <5> HIDE DEF D
        <5>1. D \subseteq Nat
          BY <4>1
        <5> QED BY <4>1, <5>1, Least
      <4>4. PICK n \in U : \A m \in U : n <= m
        <5>1. U \subseteq Nat /\ U # {}
          BY <4>1, <4>2
        <5> HIDE DEF U
        <5> QED BY <5>1, Least
      <4>5. ASSUME NEW j \in D PROVE j <= Len(Legacy) - n
        <5>1. n <= Len(Legacy) - j
          BY <4>2, <4>4
        <5>2. j \in Nat /\ Len(Legacy) \in Nat /\ n \in Nat
          BY <4>1
        <5> QED BY <5>1, <5>2
      <4>6. ASSUME NEW x \in S, NEW y \in S, <<x, y>> \in older
            PROVE  \E k, l \in D : k < l /\ x = Canonical[Legacy[k]]
                                         /\ y = Canonical[Legacy[l]]
        BY <4>6 DEF Init
      <4>7. \A k, l \in D : Canonical[Legacy[k]] = Canonical[Legacy[l]] => k = l
        OBVIOUS
      <4>8. First(S)
        <5>1. \A u \in S : <<u, Canonical[Legacy[i]]>> \notin older
          BY <4>1, <4>3, <4>6, <4>7
        <5> QED BY <5>1 DEF First
      <4>9. Last(S)
        <5> DEFINE k == Len(Legacy) - n
        <5>1. k \in D
          OBVIOUS
        <5>2. \A u \in S : <<Canonical[Legacy[k]], u>> \notin older
          <6>1. \A j \in D : j <= k
            BY <4>5
          <6> HIDE DEF k, D
          <6>2. SUFFICES ASSUME NEW u \in S, <<Canonical[Legacy[k]], u>> \in older
                         PROVE  FALSE
            OBVIOUS
          <6>3. Canonical[Legacy[k]] \in S
            BY <5>1 DEF D
          <6>4. PICK m, l \in D : m < l /\ Canonical[Legacy[k]] = Canonical[Legacy[m]]
            BY <4>6, <6>2, <6>3
          <6>5. m = k
            BY <4>7, <5>1, <6>4
          <6> QED BY <4>1, <5>1, <6>1, <6>4, <6>5
        <5> QED BY <5>1, <5>2 DEF Last
      <4> QED BY <4>8, <4>9
    <3> QED BY <3>1, <3>2
  <2> QED BY <2>1, <2>2, <2>3 DEF KeysOrder
<1> QED BY <1>4, <1>5, <1>6, <1>7, <1>8, <1>9 DEF IInv

-----------------------------------------------------------------------------
\* The steps that change only where a call is

\* No row changes, and one call is where the invariant lets it be.
LEMMA CallStep ==
    ASSUME IInv, UNCHANGED <<tag, older, request, place>>,
           NEW c \in Calls, NEW to \in Call, call' = [call EXCEPT ![c] = to],
           CallFits(c)', RequestFree(to.request) \/ to.request = call[c].request,
           At(c, "idle") => RequestFree(to.request)
    PROVE  IInv'
<1>1. call \in [Calls -> Call] /\ call' \in [Calls -> Call]
  BY DEF IInv, TypeOK
<1>2. call'[c] = to /\ \A d \in Calls : d # c => call'[d] = call[d]
  BY <1>1
<1>3. TypeOK'
  BY <1>1 DEF IInv, TypeOK
<1>4. RowsFit' /\ TagsResolve' /\ PublicWasReviewed'
  BY DEF IInv, RowsFit, TagsResolve, PublicWasReviewed
<1>5. KeysOrder'
  BY DEF IInv, KeysOrder, Existing, First, Last
<1>6. CallsFit'
  <2> SUFFICES ASSUME NEW d \in Calls, d # c PROVE CallFits(d)'
    BY DEF CallsFit
  <2>1. CallFits(d)
    BY DEF IInv, CallsFit
  <2> QED BY <1>2, <2>1 DEF CallFits, At, Sure, Todo
<1>7. CallsApart'
  BY <1>2 DEF IInv, CallsApart, RequestFree, At
<1> QED BY <1>3, <1>4, <1>5, <1>6, <1>7 DEF IInv

LEMMA ProposeStep ==
    ASSUME IInv, NEW c \in Calls, NEW r \in Requests, NEW input \in Inputs,
           Propose(c, r, input)
    PROVE  IInv'
<1> DEFINE to == [pc |-> "attach", request |-> r, links |-> input, done |-> {}]
<1>1. to \in Call /\ call' = [call EXCEPT ![c] = to]
  BY InputsAssumption DEF Propose, Begin, Call
<1>2. call'[c] = to
  BY <1>1 DEF IInv, TypeOK
<1>3. CallFits(c)'
  BY <1>2 DEF CallFits, At, Propose, Begin
<1> QED BY <1>1, <1>3, CallStep DEF Propose, Begin

LEMMA ApproveStep ==
    ASSUME IInv, NEW c \in Calls, NEW r \in Requests, Approve(c, r)
    PROVE  IInv'
<1> DEFINE to == [pc |-> "lock", request |-> r, links |-> request[r].links,
                  done |-> {}]
<1>1. to \in Call /\ call' = [call EXCEPT ![c] = to]
  BY DEF Approve, Begin, Call, IInv, TypeOK, Request
<1>2. call'[c] = to
  BY <1>1 DEF IInv, TypeOK
<1>3. CallFits(c)'
  BY <1>2 DEF CallFits, At, Approve, Begin
<1> QED BY <1>1, <1>3, CallStep DEF Approve, Begin

LEMMA AttachedStep ==
    ASSUME IInv, NEW c \in Calls, Attached(c)
    PROVE  IInv'
<1> DEFINE to == [call[c] EXCEPT !.pc = "check", !.done = {}]
<1>1. call[c] \in Call
  BY DEF IInv, TypeOK
<1>2. to \in Call /\ call' = [call EXCEPT ![c] = to]
  BY <1>1 DEF Attached, Call
<1>3. call'[c] = to
  BY <1>2 DEF IInv, TypeOK
<1>4. /\ to.pc = "check" /\ to.request = call[c].request
      /\ to.links = call[c].links /\ to.done = {}
  BY <1>1 DEF Call
<1>5. CallFits(c) /\ TagsOf(call[c].links) \subseteq call[c].done
  BY DEF IInv, CallsFit, Attached, Todo
<1>6. CallFits(c)'
  BY <1>3, <1>4, <1>5 DEF CallFits, At, Sure, Attached
<1>7. ~At(c, "idle")
  BY DEF Attached, At
<1> QED BY <1>2, <1>4, <1>6, <1>7, CallStep DEF Attached

\* A call that has dealt with its next tag has that much less to do.
LEMMA DidStep ==
    ASSUME IInv, NEW c \in Calls, Todo(c) # {}, Did(c)
    PROVE  \E to \in Call :
               /\ call' = [call EXCEPT ![c] = to] /\ call'[c] = to
               /\ to.pc = call[c].pc /\ to.request = call[c].request
               /\ to.links = call[c].links
               /\ to.done = call[c].done \cup {NextTag(c)}
               /\ Todo(c)' = Todo(c) \ {NextTag(c)}
<1> DEFINE to == [call[c] EXCEPT !.done = @ \cup {NextTag(c)}]
<1>1. call[c] \in Call /\ NextTag(c) \in Tags
  BY NextTagIn DEF IInv, TypeOK
<1>2. to \in Call
  BY <1>1 DEF Call
<1>3. call' = [call EXCEPT ![c] = to]
  BY DEF Did
<1>4. call'[c] = to
  BY <1>3 DEF IInv, TypeOK
<1>5. /\ to.pc = call[c].pc /\ to.request = call[c].request
      /\ to.links = call[c].links
      /\ to.done = call[c].done \cup {NextTag(c)}
  BY <1>1 DEF Call
<1>6. Todo(c)' = Todo(c) \ {NextTag(c)}
  BY <1>4, <1>5 DEF Todo
<1> HIDE DEF to
<1> QED BY <1>2, <1>3, <1>4, <1>5, <1>6

LEMMA CheckStep ==
    ASSUME IInv, NEW c \in Calls, Check(c)
    PROVE  IInv'
<1>1. PICK to \in Call :
          /\ call' = [call EXCEPT ![c] = to] /\ call'[c] = to
          /\ to.pc = call[c].pc /\ to.request = call[c].request
          /\ to.links = call[c].links
  BY DidStep DEF Check
<1>2. CallFits(c)
  BY DEF IInv, CallsFit
<1>3. CallFits(c)' /\ ~At(c, "idle")
  BY <1>1, <1>2 DEF CallFits, At, Sure, Check
<1> QED BY <1>1, <1>3, CallStep DEF Check

LEMMA LockStep ==
    ASSUME IInv, NEW c \in Calls, Lock(c)
    PROVE  IInv'
<1> DEFINE t == NextLock(c)
<1>1. NextTag(c) = t
  BY DEF NextTag, Lock
<1>2. PICK to \in Call :
          /\ call' = [call EXCEPT ![c] = to] /\ call'[c] = to
          /\ to.pc = call[c].pc /\ to.request = call[c].request
          /\ to.links = call[c].links
          /\ to.done = call[c].done \cup {t}
          /\ Todo(c)' = Todo(c) \ {t}
  BY <1>1, DidStep DEF Lock
<1>3. CallFits(c)
  BY DEF IInv, CallsFit
<1>4. t \in Todo(c) /\ \A u \in Todo(c) : <<u, t>> \notin older
  BY NextLockIn DEF IInv, Lock
<1>5. TagsOf(call[c].links) \subseteq Existing
  <2>1. call[c].request \in Requests /\ request[call[c].request].links = call[c].links
    BY <1>3 DEF CallFits, At, Lock
  <2>2. call[c].links \in Seq(Displays)
    BY DEF IInv, TypeOK, Call
  <2> QED BY <2>1, <2>2, TagsOfIn DEF IInv, TagsResolve, Existing
<1>6. ASSUME NEW u \in Todo(c)' PROVE <<t, u>> \in older
  <2>1. u \in Todo(c) /\ u # t
    BY <1>2
  <2>2. u \in Existing /\ t \in Existing
    BY <1>4, <1>5, <2>1 DEF Todo
  <2> QED BY <1>4, <2>1, <2>2 DEF IInv, KeysOrder
<1>7. \A s \in call'[c].done, u \in Todo(c)' : <<s, u>> \in older
  BY <1>2, <1>3, <1>6 DEF CallFits, At, Lock
<1>8. CallFits(c)' /\ ~At(c, "idle")
  <2>1. call'[c].done \subseteq TagsOf(call'[c].links)
    BY <1>2, <1>3, <1>4 DEF CallFits, At, Lock, Todo
  <2> QED BY <1>2, <1>3, <1>7, <2>1 DEF CallFits, At, Lock
<1> QED BY <1>2, <1>8, CallStep DEF Lock

-----------------------------------------------------------------------------
\* The steps that change rows

\* A call that waited for nobody is sure of the row it finds or inserts; a row
\* that it inserts comes after all the others.
LEMMA AttachStep ==
    ASSUME IInv, NEW c \in Calls, Attach(c)
    PROVE  IInv'
<1> USE NoneAssumption
<1>0. PICK t : t = NextTag(c)
  OBVIOUS
<1>1. PICK to \in Call :
          /\ call' = [call EXCEPT ![c] = to] /\ call'[c] = to
          /\ to.pc = call[c].pc /\ to.request = call[c].request
          /\ to.links = call[c].links
          /\ to.done = call[c].done \cup {t}
  BY <1>0, DidStep DEF Attach
<1>2. t \in Tags /\ t = Canonical[NextLink(c)] /\ NextLink(c) \in Displays
  BY <1>0, NextTagIn, NextLinkIn DEF IInv, Attach, NextTag, At
<1>3. tag[t].by \in {None, c}
  <2>1. \A d \in Calls : d # c => tag[t].by # d
    BY <1>0 DEF Attach, Free, Blocks
  <2> QED BY <1>2, <2>1 DEF IInv, TypeOK, Row
<1>4. CallFits(c) /\ ~At(c, "idle") /\ At(c, "attach")
  BY DEF IInv, CallsFit, Attach, At
<1>5. CASE tag[t].name # None
  <2>1. UNCHANGED <<tag, older, request, place>>
    BY <1>0, <1>5 DEF Attach
  <2>2. CallFits(c)'
    BY <1>1, <1>3, <1>4, <1>5, <2>1 DEF CallFits, At, Sure
  <2> QED BY <1>1, <1>4, <2>1, <2>2, CallStep
<1>6. CASE tag[t].name = None
  <2> DEFINE row == [name |-> NextLink(c), public |-> FALSE, by |-> c]
  <2>1. /\ tag' = [tag EXCEPT ![t] = row] /\ older' = older \cup (Existing \X {t})
        /\ UNCHANGED <<request, place>>
    BY <1>0, <1>6 DEF Attach
  <2>2. row \in Row
    BY <1>2 DEF Row
  <2>3. tag'[t] = row /\ \A s \in Tags : s # t => tag'[s] = tag[s]
    BY <1>2, <2>1 DEF IInv, TypeOK
  <2>4. t \notin Existing /\ Existing' = Existing \cup {t}
    BY <1>2, <1>6, <2>3 DEF Existing
  <2>5. TypeOK'
    <3>1. tag' \in [Tags -> Row]
      BY <1>2, <2>1, <2>2 DEF IInv, TypeOK
    <3>2. older' \subseteq Tags \X Tags
      BY <1>2, <2>1 DEF IInv, TypeOK, Existing
    <3>3. call' \in [Calls -> Call]
      BY <1>1 DEF IInv, TypeOK
    <3> QED BY <2>1, <3>1, <3>2, <3>3 DEF IInv, TypeOK
  <2>6. RowsFit'
    BY <1>2, <2>3 DEF IInv, RowsFit
  <2>7. TagsResolve'
    <3>1. \A r \in Requests : request[r] \in Request /\ place[r] \subseteq Tags
      BY DEF IInv, TypeOK
    <3>2. \A r \in Requests : TagsOf(request[r].links) \subseteq Tags
      BY <3>1, TagsOfIn DEF Request
    <3>3. ~tag[t].public
      BY <1>2, <1>6 DEF IInv, RowsFit
    <3> QED BY <1>6, <2>1, <2>3, <3>1, <3>2, <3>3 DEF IInv, TagsResolve
  <2>8. PublicWasReviewed'
    BY <2>1, <2>3 DEF IInv, PublicWasReviewed
  <2>9. KeysOrder'
    <3>1. older' \subseteq Existing' \X Existing'
      BY <2>1, <2>4 DEF IInv, KeysOrder
    <3>2. \A s, u \in Existing' : s # u => <<s, u>> \in older' \/ <<u, s>> \in older'
      BY <2>1, <2>4 DEF IInv, KeysOrder
    <3>3. \A s, u : <<s, u>> \in older' => s # t /\ (u # t => <<s, u>> \in older)
      BY <2>1, <2>4 DEF IInv, KeysOrder
    <3>4. ASSUME NEW S \in SUBSET Tags, S # {} PROVE First(S)'
      <4>1. CASE S = {t}
        BY <3>3, <4>1 DEF First
      <4>2. CASE S # {t}
        <5>1. S \ {t} \in SUBSET Tags /\ S \ {t} # {}
          BY <3>4, <4>2
        <5>2. First(S \ {t})
          BY <5>1 DEF IInv, KeysOrder
        <5> QED BY <3>3, <5>2 DEF First
      <4> QED BY <4>1, <4>2
    <3>5. ASSUME NEW S \in SUBSET Tags, S # {} PROVE Last(S)'
      <4>1. CASE t \in S
        BY <3>3, <4>1 DEF Last
      <4>2. CASE t \notin S
        <5>1. Last(S)
          BY <3>5 DEF IInv, KeysOrder
        <5> QED BY <3>3, <4>2, <5>1 DEF Last
      <4> QED BY <4>1, <4>2
    <3> QED BY <3>1, <3>2, <3>4, <3>5 DEF KeysOrder
  <2>10. CallsFit'
    <3> SUFFICES ASSUME NEW d \in Calls PROVE CallFits(d)'
      BY DEF CallsFit
    <3>1. CallFits(d) /\ call[d] \in Call
      BY DEF IInv, CallsFit, TypeOK
    <3>2. \A s \in Tags : Sure(d, s) => Sure(d, s)'
      BY <1>6, <2>3 DEF Sure
    <3>3. CASE d = c
      <4>1. \A s \in call[c].done : Sure(c, s)'
        BY <1>4, <3>1, <3>2, <3>3 DEF CallFits, Call
      <4>2. Sure(c, t)'
        BY <1>2, <2>3 DEF Sure
      <4> QED BY <1>1, <1>4, <2>1, <3>3, <4>1, <4>2 DEF CallFits, At
    <3>4. CASE d # c
      <4>1. call'[d] = call[d]
        BY <1>1, <3>4 DEF IInv, TypeOK
      <4>2. TagsOf(call[d].links) \subseteq Tags /\ call[d].done \subseteq Tags
        BY <3>1, TagsOfIn DEF Call
      <4>3. older \subseteq older' /\ Todo(d)' = Todo(d)
        BY <2>1, <4>1 DEF Todo
      <4> QED BY <2>1, <3>1, <3>2, <4>1, <4>2, <4>3 DEF CallFits, At
    <3> QED BY <3>3, <3>4
  <2>11. CallsApart'
    <3>1. \A d \in Calls : call'[d].pc = call[d].pc /\ call'[d].request = call[d].request
      BY <1>1 DEF IInv, TypeOK
    <3> QED BY <3>1 DEF IInv, CallsApart, At
  <2> QED BY <2>5, <2>6, <2>7, <2>8, <2>9, <2>10, <2>11 DEF IInv
<1> QED BY <1>5, <1>6

\* A call that ends leaves the others where they are.
LEMMA EndStep ==
    ASSUME TypeOK, CallsApart, NEW c \in Calls, End(c)
    PROVE  /\ call' \in [Calls -> Call] /\ call'[c].pc = "idle"
           /\ \A d \in Calls : d # c => call'[d] = call[d]
           /\ CallsApart'
<1>1. Idle \in Call /\ Idle.pc = "idle"
  BY DEF Idle, Call
<1>2. call' \in [Calls -> Call] /\ call'[c] = Idle
      /\ \A d \in Calls : d # c => call'[d] = call[d]
  BY <1>1 DEF TypeOK, End
<1> QED BY <1>1, <1>2 DEF CallsApart, At

\* A commit links its submission to rows that it leaves committed.
LEMMA CommitStep ==
    ASSUME IInv, NEW c \in Calls, Commit(c)
    PROVE  IInv'
<1> USE NoneAssumption
<1> DEFINE r == call[c].request
           links == call[c].links
<1>1. /\ call' \in [Calls -> Call] /\ call'[c].pc = "idle"
      /\ \A d \in Calls : d # c => call'[d] = call[d]
      /\ CallsApart'
  BY EndStep DEF IInv, Commit
<1>2. /\ r \in Requests /\ request[r].state \in {"none", "draft"}
      /\ \A t \in TagsOf(links) : Sure(c, t)
  BY DEF IInv, CallsFit, CallFits, Commit, At
<1>3. links \in Seq(Displays)
  BY DEF IInv, TypeOK, Call
<1>4. ASSUME NEW t \in Tags
      PROVE  /\ tag'[t] \in Row
             /\ tag'[t].name = tag[t].name /\ tag'[t].public = tag[t].public
             /\ tag'[t].by = IF tag[t].by = c THEN None ELSE tag[t].by
  <2>1. tag[t] \in Row
    BY DEF IInv, TypeOK
  <2>2. tag'[t] = IF tag[t].by = c THEN [tag[t] EXCEPT !.by = None] ELSE tag[t]
    BY DEF Commit
  <2> QED BY <2>1, <2>2 DEF Row
<1>5. /\ request'[r] = [state |-> "draft", links |-> links]
      /\ \A q \in Requests : q # r => request'[q] = request[q]
      /\ place' = place /\ older' = older
  BY <1>2 DEF IInv, TypeOK, Commit
<1>6. TypeOK'
  <2>1. tag' \in [Tags -> Row]
    BY <1>4 DEF Commit
  <2>2. request' \in [Requests -> Request]
    BY <1>2, <1>3 DEF IInv, TypeOK, Commit, Request
  <2> QED BY <1>1, <1>5, <2>1, <2>2 DEF IInv, TypeOK
<1>7. RowsFit'
  BY <1>4 DEF IInv, RowsFit
<1>8. TagsResolve'
  <2> SUFFICES ASSUME NEW q \in Requests
               PROVE /\ \A t \in TagsOf(request'[q].links) :
                            tag'[t].name # None /\ tag'[t].by = None
                     /\ \A t \in place[q] : tag'[t].public
                     /\ request'[q].state = "approved"
                            => place[q] = TagsOf(request'[q].links)
    BY <1>5 DEF TagsResolve, TagsOf
  <2>1. \A t \in place[q] : tag'[t].public
    BY <1>4 DEF IInv, TypeOK, TagsResolve
  <2>2. CASE q = r
    BY <1>2, <1>3, <1>4, <1>5, <2>1, <2>2, TagsOfIn DEF Sure
  <2>3. CASE q # r
    <3>1. TagsOf(request[q].links) \subseteq Tags
      BY TagsOfIn DEF IInv, TypeOK, Request
    <3> QED BY <1>4, <1>5, <2>1, <2>3, <3>1 DEF IInv, TagsResolve
  <2> QED BY <2>2, <2>3
<1>9. PublicWasReviewed'
  <2> SUFFICES ASSUME NEW t \in Tags, tag'[t].public
               PROVE  /\ Canonical[tag'[t].name] = t /\ tag'[t].by = None
                      /\ \/ \E i \in DOMAIN Legacy : Legacy[i] = tag'[t].name
                         \/ \E q \in Requests :
                                /\ request'[q].state = "approved"
                                /\ \E i \in DOMAIN request'[q].links :
                                       request'[q].links[i] = tag'[t].name
    BY DEF PublicWasReviewed
  <2>1. tag[t].public /\ tag'[t].name = tag[t].name /\ tag'[t].by = None
    BY <1>4 DEF IInv, RowsFit
  <2>2. \A q \in Requests : request[q].state = "approved" => request'[q] = request[q]
    BY <1>2, <1>5
  <2> QED BY <2>1, <2>2 DEF IInv, PublicWasReviewed
<1>10. KeysOrder'
  <2>1. Existing' = Existing
    BY <1>4 DEF Existing
  <2> QED BY <1>5, <2>1 DEF IInv, KeysOrder, First, Last
<1>11. CallsFit'
  <2> SUFFICES ASSUME NEW d \in Calls, d # c, ~At(d, "idle") PROVE CallFits(d)'
    BY <1>1 DEF CallsFit, CallFits, At
  <2>1. CallFits(d) /\ call'[d] = call[d] /\ call[d] \in Call
    BY <1>1 DEF IInv, CallsFit, TypeOK
  <2>2. call[d].request \in Requests /\ call[d].request # r
    BY <2>1 DEF IInv, CallsApart, CallFits, Commit, At
  <2>3. TagsOf(call[d].links) \subseteq Tags /\ call[d].done \subseteq Tags
    BY <2>1, TagsOfIn DEF Call
  <2>4. \A t \in Tags : Sure(d, t) => Sure(d, t)'
    BY <1>4 DEF Sure
  <2>5. Todo(d)' = Todo(d)
    BY <2>1 DEF Todo
  <2> QED BY <1>5, <2>1, <2>2, <2>3, <2>4, <2>5 DEF CallFits, At
<1> QED BY <1>1, <1>6, <1>7, <1>8, <1>9, <1>10, <1>11 DEF IInv

\* What an approval that has all its locks makes of a tag.
LEMMA PromoteRow ==
    ASSUME IInv, NEW c \in Calls, Promote(c), NEW t \in Tags
    PROVE  /\ tag'[t] \in Row
           /\ tag[t].public => tag'[t] = tag[t]
           /\ t \notin TagsOf(call[c].links) => tag'[t] = tag[t]
           /\ tag'[t].by = tag[t].by
           /\ tag[t].name # None <=> tag'[t].name # None
           /\ t \in TagsOf(call[c].links) => tag'[t].public
           /\ t \in TagsOf(call[c].links) /\ ~tag[t].public =>
                  /\ tag'[t].name \in Displays /\ Canonical[tag'[t].name] = t
                  /\ \E i \in DOMAIN call[c].links :
                         call[c].links[i] = tag'[t].name
<1> DEFINE links == call[c].links
           P(d) == \E i \in DOMAIN links : d = links[i] /\ Canonical[d] = t
<1> USE NoneAssumption
<1>1. tag[t] \in Row /\ links \in Seq(Displays)
  BY DEF IInv, TypeOK, Call
<1>2. CASE t \notin TagsOf(links)
  BY <1>1, <1>2 DEF Promote
<1>3. CASE t \in TagsOf(links)
  <2>1. \E d \in Displays : P(d)
    BY <1>1, <1>3 DEF TagsOf
  <2>2. PICK d \in Displays : P(d) /\ tag'[t] = Promoted(tag[t], d)
    BY <1>3, <2>1 DEF Promote
  <2>3. tag[t].name # None
    <3>1. CallFits(c) /\ At(c, "lock")
      BY DEF IInv, CallsFit, Promote
    <3>2. call[c].request \in Requests /\ request[call[c].request].links = links
      BY <3>1 DEF CallFits, At
    <3> QED BY <1>3, <3>2 DEF IInv, TagsResolve
  <2>4. CASE tag[t].public
    BY <1>1, <1>3, <2>2, <2>4 DEF Promoted
  <2>5. CASE ~tag[t].public
    <3>1. tag'[t] = [tag[t] EXCEPT !.name = d, !.public = TRUE]
      BY <2>2, <2>5 DEF Promoted
    <3>2. /\ tag'[t] \in Row /\ tag'[t].name = d /\ tag'[t].public
          /\ tag'[t].by = tag[t].by
      BY <1>1, <3>1 DEF Row
    <3> QED BY <1>3, <2>2, <2>3, <2>5, <3>2
  <2> QED BY <2>4, <2>5
<1> QED BY <1>2, <1>3

\* An approval makes its tags public under its own spelling, or leaves them
\* under the public one they have.
LEMMA PromoteStep ==
    ASSUME IInv, NEW c \in Calls, Promote(c)
    PROVE  IInv'
<1> USE NoneAssumption
<1>0. PICK r, links : r = call[c].request /\ links = call[c].links
  OBVIOUS
<1>1. /\ call' \in [Calls -> Call] /\ call'[c].pc = "idle"
      /\ \A d \in Calls : d # c => call'[d] = call[d]
      /\ CallsApart'
  BY EndStep DEF IInv, Promote
<1>2. r \in Requests /\ request[r].state = "pending" /\ request[r].links = links
  BY <1>0 DEF IInv, CallsFit, CallFits, Promote, At
<1>3. links \in Seq(Displays) /\ TagsOf(links) \subseteq Tags
  BY <1>0, TagsOfIn DEF IInv, TypeOK, Call
<1>4. /\ request' = [request EXCEPT ![r].state = "approved"]
      /\ place' = [place EXCEPT ![r] = TagsOf(links)] /\ older' = older
  BY <1>0 DEF Promote
<1>5. /\ request'[r].state = "approved" /\ request'[r].links = links
      /\ place'[r] = TagsOf(links)
      /\ \A q \in Requests : q # r => request'[q] = request[q] /\ place'[q] = place[q]
  BY <1>2, <1>4 DEF IInv, TypeOK, Request
<1>6. \A t \in TagsOf(links) : tag[t].name # None /\ tag[t].by = None
  BY <1>2 DEF IInv, TagsResolve
<1>7. TypeOK'
  <2>1. tag' \in [Tags -> Row]
    BY PromoteRow DEF Promote
  <2>2. request' \in [Requests -> Request]
    BY <1>2, <1>4 DEF IInv, TypeOK, Request
  <2>3. place' \in [Requests -> SUBSET Tags]
    BY <1>3, <1>4 DEF IInv, TypeOK
  <2> QED BY <1>1, <1>4, <2>1, <2>2, <2>3 DEF IInv, TypeOK
<1>8. RowsFit'
  <2> SUFFICES ASSUME NEW t \in Tags
               PROVE  /\ tag'[t].name # None => Canonical[tag'[t].name] = t
                      /\ tag'[t].public => tag'[t].name # None /\ tag'[t].by = None
    BY DEF RowsFit
  <2>1. CASE t \in TagsOf(links)
    BY <1>0, <1>6, <2>1, PromoteRow DEF IInv, RowsFit
  <2>2. CASE t \notin TagsOf(links)
    BY <1>0, <2>2, PromoteRow DEF IInv, RowsFit
  <2> QED BY <2>1, <2>2
<1>9. TagsResolve'
  <2> SUFFICES ASSUME NEW q \in Requests
               PROVE /\ \A t \in TagsOf(request'[q].links) :
                            tag'[t].name # None /\ tag'[t].by = None
                     /\ \A t \in place'[q] : tag'[t].public
                     /\ request'[q].state = "approved"
                            => place'[q] = TagsOf(request'[q].links)
    BY DEF TagsResolve, TagsOf
  <2>1. TagsOf(request[q].links) \subseteq Tags /\ place[q] \subseteq Tags
    BY TagsOfIn DEF IInv, TypeOK, Request
  <2>2. CASE q = r
    BY <1>0, <1>3, <1>5, <1>6, <2>2, PromoteRow
  <2>3. CASE q # r
    <3>1. \A t \in place[q] : tag'[t].public
      BY <2>1, PromoteRow DEF IInv, TagsResolve
    <3>2. \A t \in TagsOf(request[q].links) : tag'[t].name # None /\ tag'[t].by = None
      BY <2>1, PromoteRow DEF IInv, TagsResolve
    <3> QED BY <1>5, <2>3, <3>1, <3>2 DEF IInv, TagsResolve
  <2> QED BY <2>2, <2>3
<1>10. PublicWasReviewed'
  <2> SUFFICES ASSUME NEW t \in Tags, tag'[t].public
               PROVE  /\ Canonical[tag'[t].name] = t /\ tag'[t].by = None
                      /\ \/ \E i \in DOMAIN Legacy : Legacy[i] = tag'[t].name
                         \/ \E q \in Requests :
                                /\ request'[q].state = "approved"
                                /\ \E i \in DOMAIN request'[q].links :
                                       request'[q].links[i] = tag'[t].name
    BY DEF PublicWasReviewed
  <2>1. CASE tag[t].public
    <3>1. tag'[t] = tag[t]
      BY <2>1, PromoteRow
    <3>2. \A q \in Requests : request[q].state = "approved" => request'[q] = request[q]
      BY <1>2, <1>5
    <3> QED BY <2>1, <3>1, <3>2 DEF IInv, PublicWasReviewed
  <2>2. CASE ~tag[t].public
    <3>1. t \in TagsOf(links)
      BY <1>0, <2>2, PromoteRow
    <3> QED BY <1>0, <1>2, <1>5, <1>6, <2>2, <3>1, PromoteRow
  <2> QED BY <2>1, <2>2
<1>11. KeysOrder'
  <2>1. Existing' = Existing
    BY PromoteRow DEF Existing
  <2> QED BY <1>4, <2>1 DEF IInv, KeysOrder, First, Last
<1>12. CallsFit'
  <2> SUFFICES ASSUME NEW d \in Calls, d # c, ~At(d, "idle") PROVE CallFits(d)'
    BY <1>1 DEF CallsFit, CallFits, At
  <2>1. CallFits(d) /\ call'[d] = call[d] /\ call[d] \in Call
    BY <1>1 DEF IInv, CallsFit, TypeOK
  <2>2. call[d].request \in Requests /\ call[d].request # r
    BY <1>0, <2>1 DEF IInv, CallsApart, CallFits, Promote, At
  <2>3. TagsOf(call[d].links) \subseteq Tags /\ call[d].done \subseteq Tags
    BY <2>1, TagsOfIn DEF Call
  <2>4. \A t \in Tags : Sure(d, t) => Sure(d, t)'
    BY PromoteRow DEF Sure
  <2>5. Todo(d)' = Todo(d)
    BY <2>1 DEF Todo
  <2> QED BY <1>4, <1>5, <2>1, <2>2, <2>3, <2>4, <2>5 DEF CallFits, At
<1> QED BY <1>1, <1>7, <1>8, <1>9, <1>10, <1>11, <1>12 DEF IInv

\* A transaction takes back only rows that nobody else is sure of.
LEMMA RollbackStep ==
    ASSUME IInv, NEW c \in Calls, Rollback(c)
    PROVE  IInv'
<1> USE NoneAssumption
<1>1. /\ call' \in [Calls -> Call] /\ call'[c].pc = "idle"
      /\ \A d \in Calls : d # c => call'[d] = call[d]
      /\ CallsApart'
  BY EndStep DEF IInv, Rollback
<1>2. Absent \in Row /\ Absent.name = None /\ ~Absent.public /\ Absent.by = None
  BY DEF Absent, Row
<1>3. \A t \in Tags : tag'[t] = IF tag[t].by = c THEN Absent ELSE tag[t]
  BY DEF Rollback
<1>4. UNCHANGED <<request, place>> /\ older' \subseteq older
  BY DEF Rollback
<1>5. TypeOK'
  <2>1. tag' \in [Tags -> Row]
    BY <1>2 DEF IInv, TypeOK, Rollback
  <2> QED BY <1>1, <1>4, <2>1 DEF IInv, TypeOK
<1>6. RowsFit'
  BY <1>2, <1>3 DEF IInv, RowsFit
<1>7. TagsResolve'
  <2> SUFFICES ASSUME NEW q \in Requests
               PROVE /\ \A t \in TagsOf(request[q].links) :
                            tag'[t].name # None /\ tag'[t].by = None
                     /\ \A t \in place[q] : tag'[t].public
                     /\ request[q].state = "approved"
                            => place[q] = TagsOf(request[q].links)
    BY <1>4 DEF TagsResolve, TagsOf
  <2>1. TagsOf(request[q].links) \subseteq Tags /\ place[q] \subseteq Tags
    BY TagsOfIn DEF IInv, TypeOK, Request
  <2>2. \A t \in Tags : tag[t].by = None => tag'[t] = tag[t]
    BY <1>3
  <2> QED BY <2>1, <2>2 DEF IInv, TagsResolve, RowsFit
<1>8. PublicWasReviewed'
  BY <1>2, <1>3, <1>4 DEF IInv, PublicWasReviewed
<1>9. KeysOrder'
  <2>1. Existing' = {t \in Existing : tag[t].by # c}
    BY <1>2, <1>3 DEF Existing
  <2>2. \A t, u : <<t, u>> \in older =>
            t \in Existing /\ u \in Existing
            /\ (<<t, u>> \in older' <=> tag[t].by # c /\ tag[u].by # c)
    BY DEF IInv, KeysOrder, Rollback
  <2>3. older' \subseteq Existing' \X Existing'
    <3> SUFFICES ASSUME NEW pair \in older' PROVE pair \in Existing' \X Existing'
      OBVIOUS
    <3>1. /\ pair \in Existing \X Existing
          /\ tag[pair[1]].by # c /\ tag[pair[2]].by # c
      BY DEF IInv, KeysOrder, Rollback
    <3> QED BY <2>1, <3>1
  <2>4. \A t, u \in Existing' : t # u => <<t, u>> \in older' \/ <<u, t>> \in older'
    BY <2>1, <2>2 DEF IInv, KeysOrder
  <2>5. \A S \in SUBSET Tags : S # {} => First(S)' /\ Last(S)'
    BY <1>4 DEF IInv, KeysOrder, First, Last
  <2> QED BY <2>3, <2>4, <2>5 DEF KeysOrder
<1>10. CallsFit'
  <2> SUFFICES ASSUME NEW d \in Calls, d # c, ~At(d, "idle") PROVE CallFits(d)'
    BY <1>1 DEF CallsFit, CallFits, At
  <2>1. CallFits(d) /\ call'[d] = call[d] /\ call[d] \in Call
    BY <1>1 DEF IInv, CallsFit, TypeOK
  <2>2. TagsOf(call[d].links) \subseteq Tags /\ call[d].done \subseteq Tags
    BY <2>1, TagsOfIn DEF Call
  <2>3. \A t \in Tags : Sure(d, t) => Sure(d, t)'
    BY <1>3 DEF Sure
  <2>4. Todo(d)' = Todo(d)
    BY <2>1 DEF Todo
  <2>5. ASSUME At(d, "lock"), NEW t \in call[d].done, NEW u \in Todo(d)
        PROVE  <<t, u>> \in older'
    <3>1. /\ call[d].request \in Requests
          /\ TagsOf(request[call[d].request].links) = TagsOf(call[d].links)
          /\ t \in TagsOf(call[d].links) /\ u \in TagsOf(call[d].links)
          /\ <<t, u>> \in older
      BY <2>1, <2>5 DEF CallFits, At, Todo
    <3>2. tag[t].by = None /\ tag[u].by = None
      BY <3>1 DEF IInv, TagsResolve
    <3> QED BY <3>1, <3>2 DEF Rollback
  <2> QED BY <1>4, <2>1, <2>2, <2>3, <2>4, <2>5 DEF CallFits, At
<1> QED BY <1>1, <1>5, <1>6, <1>7, <1>8, <1>9, <1>10 DEF IInv

\* A submission that no call works on moves on with its links.
LEMMA MoveStep ==
    ASSUME IInv, NEW r \in Requests, NEW from, NEW to, Move(r, from, to),
           "approved" \notin from, to \in {"pending", "closed"}
    PROVE  IInv'
<1>1. UNCHANGED <<tag, older, place, call>> /\ request[r].state # "approved"
  BY DEF Move
<1>2. /\ request' = [request EXCEPT ![r].state = to]
      /\ request'[r].state = to /\ request'[r].links = request[r].links
      /\ \A q \in Requests : q # r => request'[q] = request[q]
  BY DEF IInv, TypeOK, Request, Move
<1>3. TypeOK'
  BY <1>1, <1>2 DEF IInv, TypeOK, Request
<1>4. RowsFit' /\ CallsApart'
  BY <1>1 DEF IInv, RowsFit, CallsApart, At
<1>5. TagsResolve'
  BY <1>1, <1>2 DEF IInv, TagsResolve
<1>6. PublicWasReviewed'
  BY <1>1, <1>2 DEF IInv, PublicWasReviewed
<1>7. KeysOrder'
  BY <1>1 DEF IInv, KeysOrder, Existing, First, Last
<1>8. CallsFit'
  <2> SUFFICES ASSUME NEW d \in Calls PROVE CallFits(d)'
    BY DEF CallsFit
  <2>1. CallFits(d) /\ call[d].request # r
    BY DEF IInv, CallsFit, Move, RequestFree
  <2> QED BY <1>1, <1>2, <2>1 DEF CallFits, At, Sure, Todo
<1> QED BY <1>3, <1>4, <1>5, <1>6, <1>7, <1>8 DEF IInv

-----------------------------------------------------------------------------
LEMMA NextIInv == IInv /\ [Next]_vars => IInv'
<1> SUFFICES ASSUME IInv, [Next]_vars PROVE IInv'
  OBVIOUS
<1>1. ASSUME NEW c \in Calls, NEW r \in Requests, Approve(c, r) PROVE IInv'
  BY <1>1, ApproveStep
<1>2. ASSUME NEW c \in Calls, NEW r \in Requests, NEW input \in Inputs,
             Propose(c, r, input)
      PROVE  IInv'
  BY <1>2, ProposeStep
<1>3. ASSUME NEW c \in Calls, Attach(c) PROVE IInv'
  BY <1>3, AttachStep
<1>4. ASSUME NEW c \in Calls, Attached(c) PROVE IInv'
  BY <1>4, AttachedStep
<1>5. ASSUME NEW c \in Calls, Check(c) PROVE IInv'
  BY <1>5, CheckStep
<1>6. ASSUME NEW c \in Calls, Commit(c) PROVE IInv'
  BY <1>6, CommitStep
<1>7. ASSUME NEW c \in Calls, Lock(c) PROVE IInv'
  BY <1>7, LockStep
<1>8. ASSUME NEW c \in Calls, Promote(c) PROVE IInv'
  BY <1>8, PromoteStep
<1>9. ASSUME NEW c \in Calls, Rollback(c) PROVE IInv'
  BY <1>9, RollbackStep
<1>10. ASSUME NEW r \in Requests, Finalize(r) \/ Close(r) PROVE IInv'
  BY <1>10, MoveStep DEF Finalize, Close
<1>11. CASE UNCHANGED vars
  BY <1>11 DEF vars, IInv, TypeOK, RowsFit, CallsFit, CallFits, CallsApart, At,
               Sure, Todo, KeysOrder, Existing, First, Last, TagsResolve,
               PublicWasReviewed
<1> QED BY <1>1, <1>2, <1>3, <1>4, <1>5, <1>6, <1>7, <1>8, <1>9, <1>10, <1>11
        DEF Next

\* Every reachable state satisfies the inductive invariant.
THEOREM Invariance == Spec => []IInv
  BY InitIInv, NextIInv, PTL DEF Spec

-----------------------------------------------------------------------------
\* Every list is accepted as a whole: what a transaction has inserted

\* A row that is not committed is one of the list of a proposal at work.
OwnRow(t) ==
    tag[t].by # None =>
        /\ At(tag[t].by, "attach") \/ At(tag[t].by, "check")
        /\ \E i \in DOMAIN call[tag[t].by].links :
               call[tag[t].by].links[i] = tag[t].name

ListFits(c) ==
    At(c, "attach") \/ At(c, "check") =>
        call[c].links \in Inputs /\ Accepted(call[c].links)

WInv == (\A t \in Tags : OwnRow(t)) /\ \A c \in Calls : ListFits(c)

\* One call goes on; the rows that others have inserted stay.
LEMMA CallWInv ==
    ASSUME IInv, WInv, NEW c \in Calls,
           \A d \in Calls : d # c => call'[d] = call[d],
           \A t \in Tags : tag'[t].by \notin {None, c} =>
               tag'[t].by = tag[t].by /\ tag'[t].name = tag[t].name,
           \A t \in Tags : tag'[t].by = c => OwnRow(t)',
           ListFits(c)'
    PROVE  WInv'
<1>1. ASSUME NEW t \in Tags, tag'[t].by \notin {None, c} PROVE OwnRow(t)'
  <2>1. OwnRow(t) /\ tag'[t].by = tag[t].by /\ tag'[t].name = tag[t].name
    BY <1>1 DEF WInv
  <2>2. tag[t].by \in Calls
    BY <1>1, <2>1 DEF IInv, TypeOK, Row
  <2>3. call'[tag[t].by] = call[tag[t].by]
    BY <1>1, <2>1, <2>2
  <2> QED BY <2>1, <2>3 DEF OwnRow, At
<1>2. ASSUME NEW t \in Tags, tag'[t].by = None PROVE OwnRow(t)'
  BY <1>2 DEF OwnRow
<1>3. \A d \in Calls : d # c => ListFits(d)'
  BY DEF WInv, ListFits, At
<1> QED BY <1>1, <1>2, <1>3 DEF WInv

\* A call that is idle or approves has inserted nothing.
LEMMA NoRows ==
    ASSUME WInv, NEW c \in Calls, At(c, "idle") \/ At(c, "lock"), NEW t \in Tags
    PROVE  tag[t].by # c
BY NoneAssumption DEF WInv, OwnRow, At

LEMMA NextWInv == ASSUME IInv, WInv, [Next]_vars PROVE WInv'
<1> USE NoneAssumption
<1>1. ASSUME NEW c \in Calls, NEW pc, NEW r, NEW links, Begin(c, pc, r, links),
             pc \in {"attach", "lock"},
             pc = "attach" => links \in Inputs /\ Accepted(links)
      PROVE  WInv'
  <2>1. /\ call'[c] = [pc |-> pc, request |-> r, links |-> links, done |-> {}]
        /\ \A d \in Calls : d # c => call'[d] = call[d]
        /\ tag' = tag /\ At(c, "idle")
    BY <1>1 DEF Begin, IInv, TypeOK
  <2>2. \A t \in Tags : tag[t].by # c
    BY <2>1, NoRows
  <2>3. ListFits(c)'
    BY <1>1, <2>1 DEF ListFits, At
  <2> QED BY <2>1, <2>2, <2>3, CallWInv
<1>2. ASSUME NEW c \in Calls, Did(c), Todo(c) # {}, UNCHANGED tag PROVE WInv'
  <2>1. PICK to \in Call :
            /\ call' = [call EXCEPT ![c] = to] /\ call'[c] = to
            /\ to.pc = call[c].pc /\ to.links = call[c].links
    BY <1>2, DidStep
  <2>2. \A d \in Calls : d # c => call'[d] = call[d]
    BY <2>1 DEF IInv, TypeOK
  <2>3. ListFits(c)' /\ \A t \in Tags : tag'[t].by = c => OwnRow(t)'
    BY <1>2, <2>1 DEF WInv, ListFits, OwnRow, At
  <2> QED BY <1>2, <2>2, <2>3, CallWInv
<1>3. ASSUME NEW c \in Calls, Attach(c) PROVE WInv'
  <2> DEFINE t == NextTag(c)
  <2>1. CASE tag[t].name # None
    BY <1>2, <1>3, <2>1 DEF Attach
  <2>2. CASE tag[t].name = None
    <3>1. PICK to \in Call :
              /\ call' = [call EXCEPT ![c] = to] /\ call'[c] = to
              /\ to.pc = call[c].pc /\ to.links = call[c].links
      BY <1>3, DidStep DEF Attach
    <3>2. \A d \in Calls : d # c => call'[d] = call[d]
      BY <3>1 DEF IInv, TypeOK
    <3>3. /\ t \in Tags
          /\ \E i \in DOMAIN call[c].links : call[c].links[i] = NextLink(c)
      BY <1>3, NextTagIn, NextLinkIn DEF IInv, Attach
    <3>4. tag' = [tag EXCEPT ![t] = [name |-> NextLink(c), public |-> FALSE,
                                     by |-> c]]
      BY <1>3, <2>2 DEF Attach
    <3>5. /\ tag'[t].by = c /\ tag'[t].name = NextLink(c)
          /\ \A s \in Tags : s # t => tag'[s] = tag[s]
      BY <3>3, <3>4 DEF IInv, TypeOK
    <3>6. ListFits(c)'
      BY <1>3, <3>1 DEF WInv, ListFits, Attach, At
    <3>7. ASSUME NEW s \in Tags, tag'[s].by = c PROVE OwnRow(s)'
      <4>1. At(c, "attach")'
        BY <1>3, <3>1 DEF Attach, At
      <4>2. \E i \in DOMAIN call'[c].links : call'[c].links[i] = tag'[s].name
        BY <3>1, <3>3, <3>5, <3>7 DEF WInv, OwnRow
      <4> QED BY <3>7, <4>1, <4>2 DEF OwnRow, At
    <3> QED BY <3>2, <3>5, <3>6, <3>7, CallWInv
  <2> QED BY <2>1, <2>2
<1>4. ASSUME NEW c \in Calls, Attached(c) PROVE WInv'
  <2>1. call[c] \in Call
    BY DEF IInv, TypeOK
  <2>2. /\ call'[c].pc = "check" /\ call'[c].links = call[c].links
        /\ call[c].pc = "attach" /\ tag' = tag
        /\ \A d \in Calls : d # c => call'[d] = call[d]
    BY <1>4, <2>1 DEF Attached, At, IInv, TypeOK, Call
  <2>3. ListFits(c)' /\ \A t \in Tags : tag'[t].by = c => OwnRow(t)'
    BY <2>2 DEF WInv, ListFits, OwnRow, At
  <2> QED BY <2>2, <2>3, CallWInv
<1>5. ASSUME NEW c \in Calls, End(c),
             \A t \in Tags : /\ tag'[t].by # c
                             /\ tag'[t].by # None => /\ tag'[t].by = tag[t].by
                                                    /\ tag'[t].name = tag[t].name
      PROVE  WInv'
  <2>1. call'[c].pc = "idle" /\ \A d \in Calls : d # c => call'[d] = call[d]
    BY <1>5, EndStep DEF IInv
  <2>2. ListFits(c)'
    BY <2>1 DEF ListFits, At
  <2> QED BY <1>5, <2>1, <2>2, CallWInv
<1>6. ASSUME NEW c \in Calls, Commit(c) PROVE WInv'
  <2>1. \A t \in Tags : tag[t] \in Row
    BY DEF IInv, TypeOK
  <2>2. \A t \in Tags :
            tag'[t] = IF tag[t].by = c THEN [tag[t] EXCEPT !.by = None] ELSE tag[t]
    BY <1>6 DEF Commit
  <2>3. \A t \in Tags : tag[t].by = c => tag'[t].by = None
    BY <2>1, <2>2 DEF Row
  <2> QED BY <1>5, <1>6, <2>2, <2>3 DEF Commit
<1>7. ASSUME NEW c \in Calls, Rollback(c) PROVE WInv'
  <2>1. \A t \in Tags : tag'[t] = IF tag[t].by = c THEN Absent ELSE tag[t]
    BY <1>7 DEF Rollback
  <2> QED BY <1>5, <1>7, <2>1 DEF Rollback, Absent
<1>8. ASSUME NEW c \in Calls, Promote(c) PROVE WInv'
  <2>1. \A t \in Tags : tag[t].by # c
    BY <1>8, NoRows DEF Promote
  <2>2. ASSUME NEW t \in Tags, tag[t].by # None PROVE tag'[t] = tag[t]
    <3>1. call[c].request \in Requests
          /\ request[call[c].request].links = call[c].links
      BY <1>8 DEF IInv, CallsFit, CallFits, Promote, At
    <3>2. t \notin TagsOf(call[c].links)
      BY <2>2, <3>1 DEF IInv, TagsResolve
    <3> QED BY <1>8, <3>2, PromoteRow
  <2>3. \A t \in Tags : tag'[t].by = tag[t].by
    BY <1>8, PromoteRow
  <2> QED BY <1>5, <1>8, <2>1, <2>2, <2>3 DEF Promote
<1>9. CASE UNCHANGED <<tag, call>>
  BY <1>9 DEF WInv, OwnRow, ListFits, At
<1>10. ASSUME NEW c \in Calls, Check(c) \/ Lock(c) PROVE WInv'
  BY <1>2, <1>10 DEF Check, Lock
<1>11. ASSUME NEW c \in Calls, NEW r \in Requests,
              Approve(c, r) \/ \E input \in Inputs : Propose(c, r, input)
       PROVE  WInv'
  BY <1>1, <1>11 DEF Approve, Propose
<1> QED
  BY <1>3, <1>4, <1>6, <1>7, <1>8, <1>9, <1>10, <1>11
     DEF Next, Finalize, Close, Move, vars

-----------------------------------------------------------------------------
\* Every step is one of the vocabulary, or does not show

LEMMA SharedTags ==
    ASSUME NEW links PROVE Shared!TagsOf(links) = TagsOf(links)
BY DEF Shared!TagsOf, TagsOf

\* In an accepted list a tag has one spelling.
LEMMA OneSpelling ==
    ASSUME NEW links \in Seq(Displays), Accepted(links), NEW t \in Tags,
           NEW i \in DOMAIN links, Canonical[links[i]] = t
    PROVE  Shared!Spelled(t, links) = links[i]
<1> DEFINE P(d) == \E j \in DOMAIN links : d = links[j] /\ Canonical[d] = t
<1>1. links[i] \in Displays /\ P(links[i])
  OBVIOUS
<1>2. \A d \in Displays : P(d) => d = links[i]
  BY DEF Accepted
<1>3. Shared!Spelled(t, links) = CHOOSE d \in Displays : P(d)
  BY DEF Shared!Spelled
<1> HIDE DEF P
<1> QED BY <1>1, <1>2, <1>3

\* A commit is the moment at which the list is accepted.
LEMMA SubmitStep ==
    ASSUME IInv, WInv, NEW c \in Calls, Commit(c)
    PROVE  Shared!Submit(call[c].request, call[c].links)
           /\ call[c].links \in Inputs /\ call[c].request \in Requests
<1> USE NoneAssumption
<1> DEFINE r == call[c].request
           links == call[c].links
<1>1. /\ r \in Requests /\ request[r].state \in {"none", "draft"}
      /\ \A t \in TagsOf(links) : Sure(c, t)
  BY DEF IInv, CallsFit, CallFits, Commit, At
<1>2. links \in Inputs /\ Accepted(links) /\ links \in Seq(Displays)
  BY DEF WInv, ListFits, Commit, At, IInv, TypeOK, Call
<1>3. ASSUME NEW t \in Tags
      PROVE  /\ tag'[t].name = tag[t].name /\ tag'[t].public = tag[t].public
             /\ tag'[t].by = IF tag[t].by = c THEN None ELSE tag[t].by
  <2>1. tag[t] \in Row
    BY DEF IInv, TypeOK
  <2>2. tag'[t] = IF tag[t].by = c THEN [tag[t] EXCEPT !.by = None] ELSE tag[t]
    BY DEF Commit
  <2> QED BY <2>1, <2>2 DEF Row
<1>4. ASSUME NEW t \in Tags
      PROVE  Committed'[t] = IF t \in TagsOf(links) /\ Committed[t] = None
                             THEN Shared!Spelled(t, links) ELSE Committed[t]
  <2>1. CASE tag[t].by = c
    <3>1. PICK i \in DOMAIN links : links[i] = tag[t].name
      BY <2>1 DEF WInv, OwnRow
    <3>2. Canonical[links[i]] = t
      BY <1>2, <2>1, <3>1 DEF IInv, RowsFit
    <3>3. t \in TagsOf(links) /\ Shared!Spelled(t, links) = tag[t].name
      BY <1>2, <3>1, <3>2, OneSpelling DEF TagsOf
    <3>4. Committed[t] = None /\ Committed'[t] = tag[t].name
      BY <1>3, <2>1 DEF Committed
    <3> QED BY <3>3, <3>4
  <2>2. CASE tag[t].by # c
    <3>1. Committed'[t] = Committed[t]
      BY <1>3, <2>2 DEF Committed
    <3>2. t \in TagsOf(links) => Committed[t] # None
      BY <1>1, <2>2 DEF Committed, Sure
    <3> QED BY <3>1, <3>2
  <2> QED BY <2>1, <2>2
<1>5. Committed' = [t \in Tags |-> IF t \in Shared!TagsOf(links) /\ Committed[t] = None
                                   THEN Shared!Spelled(t, links) ELSE Committed[t]]
  BY <1>4, SharedTags DEF Committed
<1>6. {t \in Tags : tag'[t].public} = {t \in Tags : tag[t].public}
  BY <1>3
<1>7. /\ request' = [request EXCEPT ![r] = [state |-> "draft", links |-> links]]
      /\ place' = place
  BY DEF Commit
<1>8. Len(links) <= MaxTags /\ Shared!Distinct(links)
  BY <1>2 DEF Accepted, Shared!Distinct
<1> QED BY <1>1, <1>2, <1>5, <1>6, <1>7, <1>8 DEF Shared!Submit

LEMMA ApprovesStep ==
    ASSUME IInv, NEW c \in Calls, Promote(c)
    PROVE  \E r \in Requests : Shared!Approve(r)
<1> USE NoneAssumption
<1> DEFINE r == call[c].request
           links == call[c].links
           open == {t \in Tags : tag[t].public}
<1>1. r \in Requests /\ request[r].state = "pending" /\ request[r].links = links
  BY DEF IInv, CallsFit, CallFits, Promote, At
<1>2. links \in Seq(Displays) /\ TagsOf(links) \subseteq Tags
  BY TagsOfIn DEF IInv, TypeOK, Call
<1>3. ASSUME NEW t \in Tags
      PROVE  /\ tag'[t].by = tag[t].by
             /\ t \in TagsOf(links) => tag[t].by = None /\ tag'[t].public
             /\ t \notin TagsOf(links) \/ tag[t].public => tag'[t] = tag[t]
             /\ t \in TagsOf(links) /\ ~tag[t].public =>
                    tag'[t].name = Shared!Spelled(t, links)
  <2>1. tag[t] \in Row
    BY DEF IInv, TypeOK
  <2>2. t \in TagsOf(links) => tag[t].by = None
    BY <1>1 DEF IInv, TagsResolve
  <2>3. t \in TagsOf(links) => tag'[t] = Promoted(tag[t], Shared!Spelled(t, links))
    BY DEF Promote, Shared!Spelled
  <2>4. t \in TagsOf(links) /\ ~tag[t].public =>
            tag'[t].name = Shared!Spelled(t, links)
    BY <2>1, <2>3 DEF Promoted, Row
  <2> QED BY <2>2, <2>4, PromoteRow
<1>4. ASSUME NEW t \in Tags
      PROVE  Committed'[t] = IF t \in TagsOf(links) \ open
                             THEN Shared!Spelled(t, links) ELSE Committed[t]
  BY <1>3 DEF Committed
<1>5. Committed' = [t \in Tags |-> IF t \in Shared!TagsOf(links) \ open
                                   THEN Shared!Spelled(t, links) ELSE Committed[t]]
  BY <1>4, SharedTags DEF Committed
<1>6. {t \in Tags : tag'[t].public} = open \cup Shared!TagsOf(links)
  BY <1>2, <1>3, SharedTags
<1>7. /\ request' = [request EXCEPT ![r].state = "approved"]
      /\ place' = [place EXCEPT ![r] = Shared!TagsOf(links)]
  BY SharedTags DEF Promote
<1>8. PICK q \in Requests : q = r
  BY <1>1
<1>9. Shared!Approve(q)
  BY <1>1, <1>5, <1>6, <1>7, <1>8 DEF Shared!Approve, Shared!Move
<1> QED BY <1>9

\* Only a commit and a promotion show.
LEMMA Unseen ==
    ASSUME \A t \in Tags : /\ Committed'[t] = Committed[t]
                           /\ tag'[t].public = tag[t].public,
           UNCHANGED <<request, place>>
    PROVE  UNCHANGED Shared!vars
<1>1. Committed' = Committed
  BY DEF Committed
<1>2. {t \in Tags : tag'[t].public} = {t \in Tags : tag[t].public}
  OBVIOUS
<1> QED BY <1>1, <1>2 DEF Shared!vars

LEMMA SharedInit == Init => Shared!Init /\ WInv
<1> SUFFICES ASSUME Init PROVE Shared!Init /\ WInv
  OBVIOUS
<1> USE NoneAssumption
<1>1. ASSUME NEW t \in Tags
      PROVE  /\ tag[t].by = None
             /\ tag[t].public <=> t \in TagsOf(Legacy)
             /\ Committed[t] = IF t \in TagsOf(Legacy) THEN Shared!Spelled(t, Legacy)
                                                       ELSE None
  <2>1. CASE t \in TagsOf(Legacy)
    BY <2>1 DEF Init, Committed, Shared!Spelled
  <2>2. CASE t \notin TagsOf(Legacy)
    BY <2>2 DEF Init, Committed, Absent
  <2> QED BY <2>1, <2>2
<1>2. Committed = [t \in Tags |-> IF t \in Shared!TagsOf(Legacy)
                                  THEN Shared!Spelled(t, Legacy) ELSE None]
  BY <1>1, SharedTags DEF Committed
<1>3. {t \in Tags : tag[t].public} = Shared!TagsOf(Legacy)
  BY <1>1, SharedTags, TagsOfIn, LegacyAssumption
<1>4. WInv
  BY <1>1 DEF Init, Idle, At, WInv, OwnRow, ListFits
<1> QED BY <1>2, <1>3, <1>4 DEF Init, Shared!Init

LEMMA SharedNext ==
    ASSUME IInv, WInv, [Next]_vars PROVE [Shared!Next]_(Shared!vars)
<1> USE NoneAssumption
<1>1. ASSUME UNCHANGED <<tag, request, place>> PROVE UNCHANGED Shared!vars
  BY <1>1, Unseen DEF Committed
<1>2. ASSUME NEW c \in Calls, Attach(c) PROVE UNCHANGED Shared!vars
  <2> DEFINE t == NextTag(c)
  <2>1. CASE tag[t].name # None
    BY <1>1, <1>2, <2>1 DEF Attach
  <2>2. CASE tag[t].name = None
    <3>1. t \in Tags
      BY <1>2, NextTagIn DEF IInv, Attach
    <3>2. /\ tag' = [tag EXCEPT ![t] = [name |-> NextLink(c), public |-> FALSE,
                                        by |-> c]]
          /\ UNCHANGED <<request, place>>
      BY <1>2, <2>2 DEF Attach
    <3>3. /\ tag'[t].by = c /\ ~tag'[t].public
          /\ \A s \in Tags : s # t => tag'[s] = tag[s]
      BY <3>1, <3>2 DEF IInv, TypeOK
    <3>4. tag[t].public = FALSE /\ tag'[t].public = FALSE
      BY <2>2, <3>1, <3>2 DEF IInv, TypeOK, Row, RowsFit
    <3>5. Committed[t] = None /\ Committed'[t] = None
      BY <2>2, <3>1, <3>3 DEF Committed
    <3>6. \A s \in Tags : s # t => Committed'[s] = Committed[s]
      BY <3>3 DEF Committed
    <3> QED BY <3>2, <3>3, <3>4, <3>5, <3>6, Unseen
  <2> QED BY <2>1, <2>2
<1>3. ASSUME NEW c \in Calls, Rollback(c) PROVE UNCHANGED Shared!vars
  <2>1. /\ \A t \in Tags : tag'[t] = IF tag[t].by = c THEN Absent ELSE tag[t]
        /\ UNCHANGED <<request, place>>
    BY <1>3 DEF Rollback
  <2>2. ASSUME NEW t \in Tags, tag[t].by = c
        PROVE  Committed'[t] = Committed[t] /\ tag'[t].public = tag[t].public
    <3>1. tag[t].public = FALSE
      BY <2>2 DEF IInv, TypeOK, Row, RowsFit
    <3>2. tag'[t] = Absent /\ Absent.public = FALSE /\ Absent.name = None
      BY <2>1, <2>2 DEF Absent
    <3>3. Committed[t] = None /\ Committed'[t] = None
      BY <2>2, <3>2 DEF Committed
    <3> QED BY <3>1, <3>2, <3>3
  <2>3. ASSUME NEW t \in Tags, tag[t].by # c
        PROVE  Committed'[t] = Committed[t] /\ tag'[t].public = tag[t].public
    BY <2>1, <2>3 DEF Committed
  <2> QED BY <2>1, <2>2, <2>3, Unseen
<1>4. ASSUME NEW c \in Calls, Commit(c) \/ Promote(c) PROVE Shared!Next
  <2>1. CASE Commit(c)
    <3>1. /\ Shared!Submit(call[c].request, call[c].links)
          /\ call[c].links \in Inputs /\ call[c].request \in Requests
      BY <2>1, SubmitStep
    <3> QED BY <3>1 DEF Shared!Next
  <2>2. CASE Promote(c)
    BY <2>2, ApprovesStep DEF Shared!Next
  <2> QED BY <1>4, <2>1, <2>2
<1>5. ASSUME NEW r \in Requests, Finalize(r) \/ Close(r) PROVE Shared!Next
  <2>1. Committed' = Committed
        /\ {t \in Tags : tag'[t].public} = {t \in Tags : tag[t].public}
    BY <1>5 DEF Finalize, Close, Move, Committed
  <2> QED
    BY <1>5, <2>1 DEF Finalize, Close, Move, Shared!Finalize, Shared!Close,
       Shared!Move, Shared!Next
<1>6. ASSUME NEW c \in Calls, NEW r \in Requests,
             Approve(c, r) \/ \E input \in Inputs : Propose(c, r, input)
      PROVE  UNCHANGED Shared!vars
  BY <1>1, <1>6 DEF Approve, Propose, Begin
<1>7. ASSUME NEW c \in Calls, Attached(c) \/ Check(c) \/ Lock(c)
      PROVE  UNCHANGED Shared!vars
  BY <1>1, <1>7 DEF Attached, Check, Lock
<1>8. CASE UNCHANGED vars
  BY <1>1, <1>8 DEF vars
<1> QED BY <1>2, <1>3, <1>4, <1>5, <1>6, <1>7, <1>8 DEF Next

-----------------------------------------------------------------------------
\* The properties

\* Type correctness.
THEOREM TypeCorrect == Spec => []TypeOK
<1>1. IInv => TypeOK
  BY DEF IInv
<1> QED BY <1>1, Invariance, PTL

\* What refers to a tag refers to a row that stays, and public places have
\* public tags, whoever inserted the row and whoever fails
\* (attach_request_tags, _promote_tags_and_materialize_place).
THEOREM LinksResolve == Spec => []TagsResolve
<1>1. IInv => TagsResolve
  BY DEF IInv
<1> QED BY <1>1, Invariance, PTL

\* The name of a public tag is one that a moderator approved, or one from
\* before (Tag.save, _promote_tags_and_materialize_place).
THEOREM NamesReviewed == Spec => []PublicWasReviewed
<1>1. IInv => PublicWasReviewed
  BY DEF IInv
<1> QED BY <1>1, Invariance, PTL

\* The list of a proposal is accepted, and the tags of an approval are made
\* public, as a whole or not at all: rows that are inserted one by one, waits for
\* those of others and failures do not show (attach_request_tags,
\* _promote_tags_and_materialize_place).
THEOREM ListsAcceptedWhole == Spec => ListsAreWhole
<1>1. IInv /\ WInv /\ [Next]_vars => WInv' /\ [Shared!Next]_(Shared!vars)
  BY NextWInv, SharedNext
<1> QED BY <1>1, SharedInit, Invariance, PTL DEF Spec, ListsAreWhole, Shared!Spec

\* No later proposal or approval renames or withdraws a public tag.
THEOREM PublicTagsStay == Spec => PublicIsFinal
<1>1. IInv /\ [Next]_vars =>
          [\A t \in Tags : tag[t].public => tag'[t] = tag[t]]_vars
  <2> SUFFICES ASSUME IInv, Next, NEW t \in Tags, tag[t].public
               PROVE  tag'[t] = tag[t]
    OBVIOUS
  <2>1. tag[t].name # None /\ tag[t].by = None
    BY DEF IInv, RowsFit
  <2>2. ASSUME NEW c \in Calls, Attach(c) PROVE tag'[t] = tag[t]
    BY <2>1, <2>2 DEF Attach, IInv, TypeOK
  <2>3. ASSUME NEW c \in Calls, Commit(c) \/ Rollback(c) PROVE tag'[t] = tag[t]
    BY <2>1, <2>3, NoneAssumption DEF Commit, Rollback
  <2>4. ASSUME NEW c \in Calls, Promote(c) PROVE tag'[t] = tag[t]
    BY <2>4, PromoteRow
  <2> QED BY <2>2, <2>3, <2>4
          DEF Next, Approve, Propose, Begin, Attached, Check, Lock, Finalize,
              Close, Move
<1> QED BY <1>1, Invariance, PTL DEF Spec, PublicIsFinal

\* Approvals that wait for each other would lock ever later tags, and there is
\* a last one (the order of the locks in _promote_tags_and_materialize_place).
THEOREM NoDeadlock == Spec => []ApprovalsNeverDeadlock
<1>1. IInv => ApprovalsNeverDeadlock
  <2> SUFFICES ASSUME IInv, NEW cycle \in SUBSET {c \in Calls : At(c, "lock")},
                      cycle # {}, \A c \in cycle : \E d \in cycle : Blocks(d, c)
               PROVE  FALSE
    BY DEF ApprovalsNeverDeadlock
  <2> DEFINE S == {NextLock(c) : c \in cycle}
  <2>1. ASSUME NEW c \in cycle PROVE Todo(c) # {} /\ NextTag(c) = NextLock(c)
    BY DEF Blocks, NextTag
  <2>2. ASSUME NEW c \in cycle PROVE NextLock(c) \in Todo(c) /\ NextLock(c) \in Tags
    BY <2>1, NextTagIn DEF IInv
  <2>3. S \in SUBSET Tags /\ S # {}
    BY <2>2
  <2>4. PICK c \in cycle : \A d \in cycle : <<NextLock(c), NextLock(d)>> \notin older
    <3>1. Last(S)
      BY <2>3 DEF IInv, KeysOrder
    <3>2. PICK t \in S : \A u \in S : <<t, u>> \notin older
      BY <3>1 DEF Last
    <3> QED BY <3>2
  <2>5. PICK d \in cycle : NextLock(c) \in call[d].done
    BY <2>1 DEF Blocks, At
  <2>6. <<NextLock(c), NextLock(d)>> \in older
    BY <2>2, <2>5 DEF IInv, CallsFit, CallFits
  <2> QED BY <2>4, <2>6
<1> QED BY <1>1, Invariance, PTL
-----------------------------------------------------------------------------
\* What the vocabulary is worth

Public == {t \in Tags : tag[t].public}

SharedInv ==
    /\ request \in [Requests -> Request]
    /\ place \in [Requests -> SUBSET Tags]
    /\ \A r \in Requests :
           /\ \A t \in TagsOf(request[r].links) : Committed[t] # None
           /\ place[r] \subseteq Public
           /\ request[r].state = "approved" => place[r] = TagsOf(request[r].links)
    /\ \A t \in Public :
           /\ Committed[t] \in Displays /\ Canonical[Committed[t]] = t
           /\ \/ \E i \in DOMAIN Legacy : Legacy[i] = Committed[t]
              \/ \E r \in Requests :
                     /\ request[r].state = "approved"
                     /\ \E i \in DOMAIN request[r].links :
                            request[r].links[i] = Committed[t]

LEMMA SpelledIs ==
    ASSUME NEW links \in Seq(Displays), NEW t \in TagsOf(links)
    PROVE  /\ Shared!Spelled(t, links) \in Displays
           /\ Canonical[Shared!Spelled(t, links)] = t
           /\ \E i \in DOMAIN links : links[i] = Shared!Spelled(t, links)
<1> DEFINE P(d) == \E i \in DOMAIN links : d = links[i] /\ Canonical[d] = t
<1>1. \E d \in Displays : P(d)
  BY DEF TagsOf
<1>2. Shared!Spelled(t, links) = CHOOSE d \in Displays : P(d)
  BY DEF Shared!Spelled
<1>3. Shared!Spelled(t, links) \in Displays /\ P(Shared!Spelled(t, links))
  <2> HIDE DEF P
  <2> QED BY <1>1, <1>2
<1> QED BY <1>3

LEMMA TagsAre == ASSUME NEW links \in Seq(Displays) PROVE TagsOf(links) \subseteq Tags
BY CanonicalAssumption DEF TagsOf

\* A list is accepted: its tags are there, and the names of the others stay.
LEMMA SharedSubmits ==
    ASSUME SharedInv, NEW r \in Requests, NEW links \in Inputs, Shared!Submit(r, links)
    PROVE  SharedInv' /\ Public' = Public
           /\ \A t \in Public : Committed'[t] = Committed[t]
<1> USE NoneAssumption
<1>1. links \in Seq(Displays)
  BY InputsAssumption
<1>2. ASSUME NEW t \in Tags
      PROVE  Committed'[t] = IF t \in TagsOf(links) /\ Committed[t] = None
                             THEN Shared!Spelled(t, links) ELSE Committed[t]
  BY SharedTags DEF Shared!Submit
<1>3. /\ request[r].state \in {"none", "draft"} /\ place' = place /\ Public' = Public
      /\ request' = [request EXCEPT ![r] = [state |-> "draft", links |-> links]]
  BY DEF Shared!Submit, Public
<1>4. \A t \in Public : Committed'[t] = Committed[t]
  BY <1>2 DEF SharedInv, Public
<1>5. \A t \in Tags : /\ Committed[t] # None => Committed'[t] # None
                      /\ t \in TagsOf(links) => Committed'[t] # None
  BY <1>1, <1>2, SpelledIs
<1>6. request' \in [Requests -> Request]
  BY <1>1, <1>3 DEF SharedInv, Request
<1>7. ASSUME NEW q \in Requests
      PROVE  /\ \A t \in TagsOf(request'[q].links) : Committed'[t] # None
             /\ place'[q] \subseteq Public'
             /\ request'[q].state = "approved" => place'[q] = TagsOf(request'[q].links)
  <2>1. CASE q = r
    BY <1>1, <1>3, <1>5, <2>1, TagsAre DEF SharedInv
  <2>2. CASE q # r
    <3>1. request'[q] = request[q] /\ request[q].links \in Seq(Displays)
      BY <1>3, <2>2 DEF SharedInv, Request
    <3> QED BY <1>3, <1>5, <3>1, TagsAre DEF SharedInv
  <2> QED BY <2>1, <2>2
<1>8. \A q \in Requests : request[q].state = "approved" => request'[q] = request[q]
  BY <1>3 DEF SharedInv
<1> QED BY <1>3, <1>4, <1>6, <1>7, <1>8 DEF SharedInv

\* A submission moves on; an approval alone does more.
LEMMA SharedMoves ==
    ASSUME SharedInv, NEW r \in Requests,
           \/ Shared!Finalize(r) \/ Shared!Close(r) \/ Shared!Approve(r)
    PROVE  /\ request' \in [Requests -> Request]
           /\ \A q \in Requests : request'[q].links = request[q].links
           /\ \A q \in Requests : request[q].state = "approved"
                                      => request'[q].state = "approved"
           /\ \A q \in Requests : q # r => request'[q] = request[q]
           /\ request'[r].state = "approved" => Shared!Approve(r)
<1>1. PICK to \in {"pending", "closed", "approved"} :
          /\ request' = [request EXCEPT ![r] = [request[r] EXCEPT !.state = to]]
          /\ request[r].state # "approved"
          /\ to = "approved" => Shared!Approve(r)
  BY DEF Shared!Finalize, Shared!Close, Shared!Approve, Shared!Move
<1>2. request[r] \in Request
  BY DEF SharedInv
<1>3. /\ [request[r] EXCEPT !.state = to] \in Request
      /\ [request[r] EXCEPT !.state = to].links = request[r].links
      /\ [request[r] EXCEPT !.state = to].state = to
  BY <1>2 DEF Request
<1> QED BY <1>1, <1>3 DEF SharedInv

LEMMA SharedApproves ==
    ASSUME SharedInv, NEW r \in Requests, Shared!Approve(r)
    PROVE  SharedInv' /\ Public \subseteq Public'
           /\ \A t \in Public : Committed'[t] = Committed[t]
<1> USE NoneAssumption
<1> DEFINE links == request[r].links
<1>1. links \in Seq(Displays) /\ TagsOf(links) \subseteq Tags
  BY TagsAre DEF SharedInv, Request
<1>2. ASSUME NEW t \in Tags
      PROVE  Committed'[t] = IF t \in TagsOf(links) \ Public
                             THEN Shared!Spelled(t, links) ELSE Committed[t]
  BY SharedTags DEF Shared!Approve, Public
<1>3. /\ Public' = Public \cup TagsOf(links)
      /\ place' = [place EXCEPT ![r] = TagsOf(links)]
      /\ request'[r].state = "approved"
  <2>1. Public' = Public \cup TagsOf(links)
    BY SharedTags DEF Shared!Approve, Public
  <2>2. place' = [place EXCEPT ![r] = TagsOf(links)]
    BY SharedTags DEF Shared!Approve
  <2>3. request' = [request EXCEPT ![r] = [request[r] EXCEPT !.state = "approved"]]
    BY DEF Shared!Approve, Shared!Move
  <2>4. request'[r].state = "approved"
    BY <2>3 DEF SharedInv, Request
  <2> QED BY <2>1, <2>2, <2>4
<1>4. \A t \in Public : Committed'[t] = Committed[t]
  BY <1>2 DEF Public
<1>5. \A t \in Tags : Committed[t] # None => Committed'[t] # None
  BY <1>1, <1>2, SpelledIs
<1>6. ASSUME NEW q \in Requests
      PROVE  /\ \A t \in TagsOf(request'[q].links) : Committed'[t] # None
             /\ place'[q] \subseteq Public'
             /\ request'[q].state = "approved" => place'[q] = TagsOf(request'[q].links)
  <2>1. request'[q].links = request[q].links /\ request[q].links \in Seq(Displays)
    BY SharedMoves DEF SharedInv, Request
  <2>2. \A t \in TagsOf(request'[q].links) : Committed'[t] # None
    BY <1>5, <2>1, TagsAre DEF SharedInv
  <2>3. CASE q = r
    BY <1>3, <2>1, <2>2, <2>3 DEF SharedInv
  <2>4. CASE q # r
    BY <1>3, <2>1, <2>2, <2>4, SharedMoves DEF SharedInv
  <2> QED BY <2>3, <2>4
<1>7. ASSUME NEW t \in Public'
      PROVE  /\ Committed'[t] \in Displays /\ Canonical[Committed'[t]] = t
             /\ \/ \E i \in DOMAIN Legacy : Legacy[i] = Committed'[t]
                \/ \E q \in Requests :
                       /\ request'[q].state = "approved"
                       /\ \E i \in DOMAIN request'[q].links :
                              request'[q].links[i] = Committed'[t]
  <2>1. CASE t \in Public
    BY <1>4, <2>1, SharedMoves DEF SharedInv
  <2>2. CASE t \notin Public
    <3>1. t \in TagsOf(links) /\ Committed'[t] = Shared!Spelled(t, links)
      BY <1>1, <1>2, <1>3, <2>2
    <3>2. request'[r].links = links
      BY SharedMoves
    <3> QED BY <1>1, <1>3, <3>1, <3>2, SpelledIs
  <2> QED BY <2>1, <2>2
<1>8. place' \in [Requests -> SUBSET Tags]
  BY <1>1, <1>3 DEF SharedInv
<1>9. request' \in [Requests -> Request]
  BY SharedMoves
<1> QED BY <1>3, <1>4, <1>6, <1>7, <1>8, <1>9 DEF SharedInv

LEMMA SharedStep ==
    ASSUME SharedInv, [Shared!Next]_(Shared!vars)
    PROVE  SharedInv' /\ Public \subseteq Public'
           /\ \A t \in Public : Committed'[t] = Committed[t]
<1>1. CASE UNCHANGED Shared!vars
  <2>1. /\ request' = request /\ place' = place /\ Public' = Public
        /\ Committed' = Committed
    BY <1>1 DEF Shared!vars, Public
  <2> QED BY <2>1 DEF SharedInv
<1>2. ASSUME NEW r \in Requests, Shared!Finalize(r) \/ Shared!Close(r)
      PROVE  SharedInv' /\ Public' = Public /\ Committed' = Committed
  <2>1. /\ place' = place /\ Public' = Public /\ Committed' = Committed
        /\ request'[r].state # "approved"
    BY <1>2 DEF Shared!Finalize, Shared!Close, Shared!Move, Public, SharedInv, Request
  <2> QED BY <1>2, <2>1, SharedMoves DEF SharedInv
<1> QED BY <1>1, <1>2, SharedSubmits, SharedApproves DEF Shared!Next

LEMMA SharedStart == Shared!Init => SharedInv
<1> SUFFICES ASSUME Shared!Init PROVE SharedInv
  OBVIOUS
<1>1. /\ request = [r \in Requests |-> [state |-> "none", links |-> <<>>]]
      /\ place = [r \in Requests |-> {}]
      /\ Public = TagsOf(Legacy)
      /\ \A t \in TagsOf(Legacy) : Committed[t] = Shared!Spelled(t, Legacy)
  BY SharedTags, TagsAre, LegacyAssumption DEF Shared!Init, Public
<1>2. request \in [Requests -> Request]
  BY <1>1 DEF Request
<1>3. \A r \in Requests : /\ TagsOf(request[r].links) = {} /\ place[r] = {}
                          /\ request[r].state # "approved"
  BY <1>1 DEF TagsOf
<1>4. ASSUME NEW t \in Public
      PROVE  /\ Committed[t] \in Displays /\ Canonical[Committed[t]] = t
             /\ \E i \in DOMAIN Legacy : Legacy[i] = Committed[t]
  BY <1>1, SpelledIs, LegacyAssumption
<1> QED BY <1>1, <1>2, <1>3, <1>4 DEF SharedInv

\* A vocabulary that accepts lists as a whole keeps what refers to a tag, makes
\* public what was reviewed only, and never renames or withdraws it: Vocabulary
\* says so without transactions, keys and locks.
THEOREM ListsSuffice ==
    ListsAreWhole =>
        /\ [](TagsResolve /\ PublicWasReviewed)
        /\ [][\A t \in Tags : tag[t].public =>
                  tag'[t].public /\ Committed'[t] = Committed[t]]_vars
<1>1. SharedInv => TagsResolve /\ PublicWasReviewed
  <2> SUFFICES ASSUME SharedInv PROVE TagsResolve /\ PublicWasReviewed
    OBVIOUS
  <2>1. \A r \in Requests : request[r].links \in Seq(Displays)
    BY DEF SharedInv, Request
  <2>2. \A t \in Tags : Committed[t] # None
                           => tag[t].by = None /\ tag[t].name = Committed[t]
    BY DEF Committed
  <2>3. TagsResolve
    BY <2>1, <2>2, TagsAre DEF SharedInv, TagsResolve, Public
  <2>4. PublicWasReviewed
    BY <2>2, NoneAssumption DEF SharedInv, PublicWasReviewed, Public
  <2> QED BY <2>3, <2>4
<1>2. SharedInv /\ [Shared!Next]_(Shared!vars)
          => SharedInv' /\ [\A t \in Tags : tag[t].public =>
                                tag'[t].public /\ Committed'[t] = Committed[t]]_vars
  BY SharedStep DEF Public
<1> QED BY <1>1, <1>2, SharedStart, PTL DEF ListsAreWhole, Shared!Spec
=============================================================================

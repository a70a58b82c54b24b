------------------------ MODULE RefreshTokensProofs ------------------------
(***************************************************************************)
(* The row locks make what a request decides on still true when it         *)
(* commits, for any number of requests and credentials; from that follow   *)
(* the safety properties of the family.                                    *)
(***************************************************************************)
EXTENDS RefreshTokens, TLAPS

\* A request that waits for the family holds its credential, and one that has
\* the family still holds both.
Holding(c) ==
    /\ call[c].pc \in {"family", "decide", "revoking"} =>
           credLock[call[c].key] = c
    /\ call[c].pc \in {"decide", "revoking"} => familyLock = c

\* What it read under those locks is still so.
Fresh(c) ==
    /\ cred[call[c].key].status # "unissued"
    /\ call[c].pc \in {"family", "decide", "revoking"} =>
           call[c].status = cred[call[c].key].status
    /\ call[c].pc \in {"decide", "revoking"} =>
           call[c].revoked = family.revoked
    /\ call[c].pc = "revoking" => call[c].targets = Live

SuccessorsIssued ==
    \A k \in Credentials : cred[k].successor # None =>
        cred[cred[k].successor].status # "unissued"

\* The inductive invariant.
IInv == /\ TypeOK
        /\ \A c \in Calls : Holding(c)
        /\ \A c \in Calls : Fresh(c)
        /\ OneLive
        /\ RevokedFamilyIsDead
        /\ OneLine
        /\ SuccessorsIssued
        /\ ReuseIsAnswered

-----------------------------------------------------------------------------
\* Updates are well typed

LEMMA CredentialType ==
    ASSUME TypeOK, NEW k \in Credentials
    PROVE  [cred[k] EXCEPT !.status = "revoked"] \in Credential
BY DEF TypeOK, Credential, Status

LEMMA AnsweredType ==
    ASSUME NEW s \in Call, NEW a \in Answer
    PROVE  [s EXCEPT !.pc = "answered", !.answer = a, !.status = "live",
                     !.revoked = FALSE, !.targets = {}] \in Call
BY DEF Call, Place, Status

\* What the end of a transaction does to the requests and the locks.
LEMMA FinishType ==
    ASSUME TypeOK, NEW c \in Calls, NEW a \in Answer, Finish(c, a)
    PROVE  /\ call' \in [Calls -> Call]
           /\ familyLock' \in Calls \cup {None}
           /\ credLock' \in [Credentials -> Calls \cup {None}]
<1>1. call' = [call EXCEPT ![c] =
                  [call[c] EXCEPT !.pc = "answered", !.answer = a,
                                  !.status = "live", !.revoked = FALSE,
                                  !.targets = {}]]
  BY DEF Finish, TypeOK, Call
<1>2. call' \in [Calls -> Call]
  BY <1>1, AnsweredType DEF TypeOK
<1> QED BY <1>2 DEF Finish, Release, TypeOK

\* The others keep what they hold, and the finished request needs nothing.
LEMMA FinishHolding ==
    ASSUME TypeOK, NEW c \in Calls, NEW a \in Answer, Finish(c, a),
           \A d \in Calls : Holding(d)
    PROVE  \A d \in Calls : Holding(d)'
<1> SUFFICES ASSUME NEW d \in Calls PROVE Holding(d)'
  OBVIOUS
<1>1. call[d] \in Call /\ call[d].key \in Credentials
  BY DEF TypeOK, Call
<1>2. CASE d = c
  BY <1>2 DEF Finish, Holding, TypeOK
<1>3. CASE d # c
  <2>1. call'[d] = call[d]
    BY <1>3 DEF Finish, TypeOK
  <2> QED BY <1>1, <1>3, <2>1 DEF Finish, Release, Holding
<1> QED BY <1>2, <1>3

\* A family that is being written belongs to no other request.
LEMMA SoleWriter ==
    ASSUME IInv, NEW c \in Calls, call[c].pc \in {"decide", "revoking"},
           NEW d \in Calls, d # c
    PROVE  call[d].pc \notin {"decide", "revoking"}
BY NoneAssumption DEF IInv, Holding

\* A credential whose row one request holds is held by no other.
LEMMA SoleHolder ==
    ASSUME IInv, NEW c \in Calls, NEW d \in Calls, d # c,
           call[c].pc \in {"family", "decide", "revoking"},
           call[d].pc \in {"family", "decide", "revoking"}
    PROVE  call[c].key # call[d].key
BY DEF IInv, Holding

-----------------------------------------------------------------------------
\* Type correctness

LEMMA InitTypeOK == Init => TypeOK
BY DEF Init, TypeOK, Family, Credential, Status, Call, Place, Answer

LEMMA PresentTypeOK ==
    ASSUME TypeOK, NEW c \in Calls, NEW op \in {"rotate", "revoke"},
           NEW k \in Credentials, Present(c, op, k)
    PROVE  TypeOK'
<1>1. [call[c] EXCEPT !.pc = "credential", !.op = op, !.key = k,
                      !.answer = "none"] \in Call
  BY DEF TypeOK, Call, Place, Answer
<1> QED BY <1>1 DEF Present, TypeOK

LEMMA ProceedTypeOK ==
    ASSUME TypeOK, NEW c \in Calls, Proceed(c)
    PROVE  TypeOK'
<1>1. call[c] \in Call
  BY DEF TypeOK
<1>2. CASE LockCredential(c)
  <2>1. [call[c] EXCEPT !.pc = "family",
                        !.status = cred[call[c].key].status] \in Call
    BY <1>1 DEF TypeOK, Call, Place, Credential
  <2>2. call' \in [Calls -> Call]
    BY <1>2, <2>1 DEF LockCredential, TypeOK
  <2> QED BY <1>2, <2>2 DEF LockCredential, TypeOK
<1>3. CASE LockFamily(c)
  <2>1. [call[c] EXCEPT !.pc = "decide", !.revoked = family.revoked] \in Call
    BY <1>1 DEF TypeOK, Call, Place, Family
  <2>2. call' \in [Calls -> Call]
    BY <1>3, <2>1 DEF LockFamily, TypeOK
  <2> QED BY <1>3, <2>2 DEF LockFamily, TypeOK
<1>4. CASE AlreadyRevoked(c)
  BY <1>4, FinishType DEF AlreadyRevoked, TypeOK, Answer
<1>5. CASE Rotate(c)
  <2>1. PICK new \in Unissued :
           cred' = [cred EXCEPT
                       ![new].status = "live",
                       ![call[c].key] = [status |-> "rotated",
                                         successor |-> new]]
    BY <1>5 DEF Rotate
  <2>2. cred' \in [Credentials -> Credential]
    BY <2>1 DEF TypeOK, Credential, Status, Unissued
  <2> QED BY <1>5, <2>2, FinishType DEF Rotate, TypeOK, Answer
<1>6. CASE StartRevoking(c)
  <2>1. \A a \in Answer :
           [call[c] EXCEPT !.pc = "revoking", !.targets = Live,
                           !.answer = a] \in Call
    BY <1>1 DEF Call, Place, Live
  <2>2. call' \in [Calls -> Call]
    BY <1>6, <2>1 DEF StartRevoking, TypeOK, Answer
  <2> QED BY <1>6, <2>2 DEF StartRevoking, TypeOK
<1>7. CASE RevokeAll(c)
  <2>1. call[c].answer \in Answer
    BY <1>1 DEF Call
  <2>2. cred' \in [Credentials -> Credential]
    BY <1>7, CredentialType DEF RevokeAll, TypeOK
  <2>3. family' \in Family
    BY <1>7 DEF RevokeAll, TypeOK, Family
  <2> QED BY <1>7, <2>1, <2>2, <2>3, FinishType DEF RevokeAll, TypeOK
<1>8. CASE Abort(c)
  BY <1>8, FinishType DEF Abort, TypeOK, Answer
<1> QED BY <1>2, <1>3, <1>4, <1>5, <1>6, <1>7, <1>8 DEF Proceed

LEMMA ExpiryTypeOK == TypeOK /\ FamilyExpires => TypeOK'
BY DEF FamilyExpires, TypeOK, Family

-----------------------------------------------------------------------------
\* The invariant is inductive

LEMMA InitIInv == Init => IInv
<1> SUFFICES ASSUME Init PROVE IInv
  OBVIOUS
<1>1. TypeOK
  BY InitTypeOK
<1>2. PICK first \in Credentials :
         /\ cred = [k \in Credentials |->
                       [status |-> IF k = first THEN "live" ELSE "unissued",
                        successor |-> None]]
         /\ call = [c \in Calls |->
                       [pc |-> "idle", op |-> "rotate", key |-> first,
                        status |-> "live", revoked |-> FALSE,
                        answer |-> "none",
                        targets |-> {}]]
  BY DEF Init
<1>3. ASSUME NEW c \in Calls PROVE Holding(c) /\ Fresh(c)
  <2>1. call[c].key = first /\ call[c].pc = "idle"
    BY <1>2
  <2>2. cred[first].status = "live"
    BY <1>2
  <2> QED BY <2>1, <2>2 DEF Holding, Fresh
<1>4. OneLive
  <2>1. \A k \in Credentials : cred[k].status = "live" => k = first
    BY <1>2
  <2> QED BY <2>1 DEF OneLive, Live
<1>5. RevokedFamilyIsDead
  BY DEF Init, RevokedFamilyIsDead
<1>6. OneLine /\ SuccessorsIssued
  BY DEF Init, OneLine, SuccessorsIssued
<1>7. ReuseIsAnswered
  BY DEF Init, ReuseIsAnswered, At
<1> QED BY <1>1, <1>3, <1>4, <1>5, <1>6, <1>7 DEF IInv

\* What only the rows decide is kept by a step that leaves them alone.
LEMMA RowsKept ==
    ASSUME IInv, UNCHANGED <<family, cred>>
    PROVE  OneLive' /\ RevokedFamilyIsDead' /\ OneLine' /\ SuccessorsIssued'
BY DEF IInv, OneLive, RevokedFamilyIsDead, OneLine, SuccessorsIssued, Live

\* A request moves while every other stays where it is and the rows are kept.
LEMMA OneCallMoves ==
    ASSUME IInv, UNCHANGED <<family, cred>>, NEW c \in Calls, NEW s \in Call,
           call' = [call EXCEPT ![c] = s],
           \A k \in Credentials : credLock[k] # None => credLock'[k] = credLock[k],
           familyLock # None => familyLock' = familyLock,
           s.pc # "answered",
           Holding(c)', Fresh(c)'
    PROVE  /\ \A d \in Calls : Holding(d)' /\ Fresh(d)'
           /\ ReuseIsAnswered'
<1>1. \A d \in Calls : call[d].key \in Credentials
  BY DEF IInv, TypeOK, Call
<1>2. ASSUME NEW d \in Calls, d # c PROVE Holding(d)' /\ Fresh(d)'
  <2>1. call'[d] = call[d]
    BY <1>2 DEF IInv, TypeOK
  <2>2. Holding(d)'
    BY <1>1, <2>1, NoneAssumption DEF IInv, Holding
  <2>3. Fresh(d)'
    BY <1>1, <2>1 DEF IInv, Fresh, Live
  <2> QED BY <2>2, <2>3
<1>3. ReuseIsAnswered'
  BY DEF IInv, TypeOK, ReuseIsAnswered, At
<1> QED BY <1>2, <1>3

LEMMA PresentIInv ==
    ASSUME IInv, NEW c \in Calls, NEW op \in {"rotate", "revoke"},
           NEW k \in Credentials, Present(c, op, k)
    PROVE  IInv'
<1> DEFINE s == [call[c] EXCEPT !.pc = "credential", !.op = op, !.key = k,
                      !.answer = "none"]
<1>1. s \in Call
  BY DEF IInv, TypeOK, Call, Place, Answer
<1>2. call' = [call EXCEPT ![c] = s]
  BY DEF Present
<1>3. s.pc = "credential" /\ s.key = k
  BY DEF IInv, TypeOK, Call
<1>4. call'[c] = s
  BY <1>2 DEF IInv, TypeOK
<1> HIDE DEF s
<1>5. Holding(c)' /\ Fresh(c)'
  BY <1>3, <1>4 DEF Present, Holding, Fresh
<1>6. /\ \A d \in Calls : Holding(d)' /\ Fresh(d)'
      /\ ReuseIsAnswered'
  BY <1>1, <1>2, <1>3, <1>5, OneCallMoves DEF Present
<1>7. TypeOK'
  BY PresentTypeOK DEF IInv
<1> QED BY <1>6, <1>7, RowsKept DEF IInv, Present

LEMMA LockCredentialIInv ==
    ASSUME IInv, NEW c \in Calls, LockCredential(c) PROVE IInv'
<1> DEFINE s == [call[c] EXCEPT !.pc = "family",
                               !.status = cred[call[c].key].status]
<1>1. call[c] \in Call /\ call[c].key \in Credentials
      /\ cred[call[c].key] \in Credential
  BY DEF IInv, TypeOK, Call
<1>2. s \in Call /\ s.pc = "family" /\ s.key = call[c].key
      /\ s.status = cred[call[c].key].status
  BY <1>1 DEF Call, Place, Credential
<1>3. call' = [call EXCEPT ![c] = s] /\ call'[c] = s
  BY DEF LockCredential, IInv, TypeOK
<1> HIDE DEF s
<1>4. Holding(c)'
  BY <1>1, <1>2, <1>3 DEF LockCredential, Holding, IInv, TypeOK
<1>5. Fresh(c)'
  BY <1>2, <1>3 DEF LockCredential, Fresh, IInv
<1>6. \A k \in Credentials : credLock[k] # None => credLock'[k] = credLock[k]
  BY DEF LockCredential, IInv, TypeOK
<1>7. /\ \A d \in Calls : Holding(d)' /\ Fresh(d)'
      /\ ReuseIsAnswered'
  BY <1>2, <1>3, <1>4, <1>5, <1>6, OneCallMoves DEF LockCredential
<1>8. TypeOK'
  BY ProceedTypeOK DEF IInv, Proceed
<1> QED BY <1>7, <1>8, RowsKept DEF IInv, LockCredential

LEMMA LockFamilyIInv ==
    ASSUME IInv, NEW c \in Calls, LockFamily(c) PROVE IInv'
<1> DEFINE s == [call[c] EXCEPT !.pc = "decide", !.revoked = family.revoked]
<1>1. call[c] \in Call /\ call[c].key \in Credentials /\ family \in Family
  BY DEF IInv, TypeOK, Call
<1>2. s \in Call /\ s.pc = "decide" /\ s.key = call[c].key
      /\ s.status = call[c].status /\ s.revoked = family.revoked
  BY <1>1 DEF Call, Place, Family
<1>3. call' = [call EXCEPT ![c] = s] /\ call'[c] = s
  BY DEF LockFamily, IInv, TypeOK
<1> HIDE DEF s
<1>4. Holding(c)' /\ Fresh(c)'
  BY <1>2, <1>3 DEF LockFamily, At, Holding, Fresh, IInv
<1>5. /\ \A d \in Calls : Holding(d)' /\ Fresh(d)'
      /\ ReuseIsAnswered'
  BY <1>2, <1>3, <1>4, OneCallMoves DEF LockFamily
<1>6. TypeOK'
  BY ProceedTypeOK DEF IInv, Proceed
<1> QED BY <1>5, <1>6, RowsKept DEF IInv, LockFamily

LEMMA StartRevokingIInv ==
    ASSUME IInv, NEW c \in Calls, StartRevoking(c) PROVE IInv'
<1>1. PICK a \in Answer :
         call' = [call EXCEPT ![c].pc = "revoking", ![c].targets = Live,
                              ![c].answer = a]
  BY DEF StartRevoking, Answer
<1> DEFINE s == [call[c] EXCEPT !.pc = "revoking", !.targets = Live,
                               !.answer = a]
<1>2. call[c] \in Call
  BY DEF IInv, TypeOK
<1>3. s \in Call /\ s.pc = "revoking" /\ s.key = call[c].key
      /\ s.status = call[c].status /\ s.revoked = call[c].revoked
      /\ s.targets = Live
  BY <1>2 DEF Call, Place, Live
<1>4. call' = [call EXCEPT ![c] = s] /\ call'[c] = s
  BY <1>1 DEF IInv, TypeOK
<1> HIDE DEF s
<1>5. Holding(c)' /\ Fresh(c)'
  BY <1>3, <1>4 DEF StartRevoking, At, Holding, Fresh, IInv, Live
<1>6. /\ \A d \in Calls : Holding(d)' /\ Fresh(d)'
      /\ ReuseIsAnswered'
  BY <1>3, <1>4, <1>5, OneCallMoves DEF StartRevoking
<1>7. TypeOK'
  BY ProceedTypeOK DEF IInv, Proceed
<1> QED BY <1>6, <1>7, RowsKept DEF IInv, StartRevoking

\* A transaction that ends without writing a row.
LEMMA EndsUnwritten ==
    ASSUME IInv, NEW c \in Calls, NEW a \in Answer, a # "reused",
           Finish(c, a), UNCHANGED <<family, cred>>, TypeOK'
    PROVE  IInv'
<1>1. \A d \in Calls : Holding(d)'
  BY FinishHolding DEF IInv
<1>2. ASSUME NEW d \in Calls PROVE Fresh(d)'
  BY DEF Finish, Fresh, IInv, TypeOK, Call, Live
<1>3. ReuseIsAnswered'
  BY DEF Finish, ReuseIsAnswered, At, IInv, TypeOK
<1> QED BY <1>1, <1>2, <1>3, RowsKept DEF IInv

\* What a rotation makes of the credentials: the one that worked is replaced.
LEMMA RotateRows ==
    ASSUME IInv, NEW c \in Calls, Rotate(c)
    PROVE  /\ family.revoked = FALSE /\ Live = {call[c].key}
           /\ call[c].key \in Credentials /\ call[c].pc = "decide"
           /\ \E new \in Credentials \ {call[c].key} :
                  /\ cred[new].status = "unissued" /\ Live' = {new}
                  /\ cred'[call[c].key].status = "rotated"
                  /\ cred'[call[c].key].successor = new
                  /\ cred'[new].status = "live"
                  /\ cred'[new].successor = cred[new].successor
                  /\ \A l \in Credentials \ {call[c].key, new} :
                         cred'[l] = cred[l]
<1> DEFINE k == call[c].key
<1>1. PICK new \in Unissued :
         cred' = [cred EXCEPT
                     ![new].status = "live",
                     ![k] = [status |-> "rotated", successor |-> new]]
  BY DEF Rotate
<1>2. /\ k \in Credentials /\ new \in Credentials
      /\ cred \in [Credentials -> Credential]
      /\ call[c].pc = "decide" /\ credLock[k] = c
  BY DEF IInv, TypeOK, Call, Unissued, Rotate, At, Holding
<1>3. cred[k].status = "live" /\ cred[new].status = "unissued"
  BY <1>2 DEF IInv, Fresh, Rotate, Unissued
<1>4. family.revoked = FALSE
  BY <1>2 DEF IInv, Fresh, Rotate, TypeOK, Family
<1>5. k # new
  BY <1>3
<1>6. /\ cred'[k] = [status |-> "rotated", successor |-> new]
      /\ cred'[new] = [cred[new] EXCEPT !.status = "live"]
      /\ \A l \in Credentials \ {k, new} : cred'[l] = cred[l]
  BY <1>1, <1>2, <1>5
<1>7. /\ cred'[k].status = "rotated" /\ cred'[k].successor = new
      /\ cred'[new].status = "live"
      /\ cred'[new].successor = cred[new].successor
  BY <1>2, <1>6 DEF Credential
<1>0. Live = {k}
  BY <1>2, <1>3 DEF IInv, OneLive, Live
<1>8. Live' = {new}
  <2>1. Live = {k}
    BY <1>0
  <2>2. ASSUME NEW l \in Credentials
        PROVE  cred'[l].status = "live" <=> l = new
    <3>1. CASE l = k
      BY <3>1, <1>5, <1>7
    <3>2. CASE l = new
      BY <3>2, <1>7
    <3>3. CASE l \notin {k, new}
      <4>1. cred[l].status # "live"
        BY <2>1, <3>3 DEF Live
      <4>2. cred'[l] = cred[l]
        BY <1>6, <3>3
      <4> QED BY <3>3, <4>1, <4>2
    <3> QED BY <3>1, <3>2, <3>3
  <2> QED BY <1>2, <2>2 DEF Live
<1> QED BY <1>0, <1>2, <1>3, <1>4, <1>5, <1>6, <1>7, <1>8

LEMMA RotateIInv ==
    ASSUME IInv, NEW c \in Calls, Rotate(c) PROVE IInv'
<1> DEFINE k == call[c].key
<1>1. PICK new \in Credentials \ {k} :
         /\ cred[new].status = "unissued" /\ Live' = {new}
         /\ cred'[k].status = "rotated" /\ cred'[k].successor = new
         /\ cred'[new].status = "live"
         /\ cred'[new].successor = cred[new].successor
         /\ \A l \in Credentials \ {k, new} : cred'[l] = cred[l]
  BY RotateRows
<1>2. /\ k \in Credentials /\ new \in Credentials
      /\ cred \in [Credentials -> Credential]
      /\ call[c].pc = "decide" /\ credLock[k] = c
  BY <1>1, RotateRows DEF IInv, TypeOK, Holding
<1>3. cred[k].status = "live" /\ cred[new].status = "unissued"
  BY <1>1, RotateRows DEF Live
<1>4. family.revoked = FALSE
  BY RotateRows
<1>6. \A l \in Credentials \ {k, new} : cred'[l] = cred[l]
  BY <1>1
<1>7. /\ cred'[k].status = "rotated" /\ cred'[k].successor = new
      /\ cred'[new].status = "live"
      /\ cred'[new].successor = cred[new].successor
  BY <1>1
<1>8. Live' = {new}
  BY <1>1
<1>9. \A d \in Calls : Holding(d)'
  BY FinishHolding DEF IInv, Rotate, Answer
<1>10. ASSUME NEW d \in Calls PROVE Fresh(d)'
  <2>1. call[d].key \in Credentials /\ call[d].key # new
    BY <1>3 DEF IInv, TypeOK, Call, Fresh
  <2>2. call'[d].key = call[d].key
    BY DEF Rotate, Finish, IInv, TypeOK, Call
  <2>3. cred'[call[d].key].status # "unissued"
    BY <1>6, <1>7, <2>1 DEF IInv, Fresh
  <2>4. CASE d = c
    BY <2>2, <2>3, <2>4 DEF Rotate, Finish, IInv, TypeOK, Fresh
  <2>5. CASE d # c
    <3>1. call'[d] = call[d]
      BY <2>5 DEF Rotate, Finish, IInv, TypeOK
    <3>2. call[d].pc \in {"family", "decide", "revoking"} => call[d].key # k
      BY <1>2, <2>5, SoleHolder
    <3>3. call[d].pc \in {"family", "decide", "revoking"} =>
             cred'[call[d].key] = cred[call[d].key]
      BY <1>6, <2>1, <3>2
    <3>4. UNCHANGED family
      BY DEF Rotate
    <3>5. call[d].pc # "revoking"
      BY <1>2, <2>5, SoleWriter
    <3> QED BY <2>3, <3>1, <3>3, <3>4, <3>5 DEF IInv, Fresh
  <2> QED BY <2>4, <2>5
<1>11. OneLine'
  <2>1. cred[new].successor = None
    BY <1>2, <1>3 DEF IInv, OneLine
  <2>2. \A l \in Credentials : cred[l].successor # new
    BY <1>2, <1>3, NoneAssumption DEF IInv, SuccessorsIssued
  <2>3. new # None
    BY <1>2, NoneAssumption
  <2>4. ASSUME NEW l \in Credentials
        PROVE  cred'[l].status = "rotated" <=> cred'[l].successor # None
    <3>1. CASE l = k
      BY <1>7, <2>3, <3>1
    <3>2. CASE l = new
      BY <1>7, <2>1, <3>2
    <3>3. CASE l \notin {k, new}
      BY <1>6, <3>3 DEF IInv, OneLine
    <3> QED BY <3>1, <3>2, <3>3
  <2>5. ASSUME NEW l \in Credentials, NEW m \in Credentials,
               cred'[l].successor = cred'[m].successor,
               cred'[l].successor # None
        PROVE  l = m
    <3>1. ASSUME NEW n \in Credentials, n # k
          PROVE  cred'[n].successor = cred[n].successor
      BY <1>6, <1>7, <3>1
    <3>2. CASE l = k \/ m = k
      BY <1>7, <2>2, <2>5, <3>1, <3>2
    <3>3. CASE l # k /\ m # k
      BY <2>5, <3>1, <3>3 DEF IInv, OneLine
    <3> QED BY <3>2, <3>3
  <2> QED BY <2>4, <2>5 DEF OneLine
<1>12. SuccessorsIssued'
  <2> SUFFICES ASSUME NEW l \in Credentials, cred'[l].successor # None
               PROVE  cred'[cred'[l].successor].status # "unissued"
    BY DEF SuccessorsIssued
  <2>1. \A m \in Credentials :
           cred[m].status # "unissued" => cred'[m].status # "unissued"
    BY <1>6, <1>7
  <2>2. CASE l = k
    BY <1>7, <2>2
  <2>3. CASE l # k
    <3>1. cred'[l].successor = cred[l].successor
      BY <1>6, <1>7, <2>3
    <3>2. cred[l].successor \in Credentials
      BY <1>2, <3>1 DEF Credential
    <3> QED BY <2>1, <3>1, <3>2 DEF IInv, SuccessorsIssued
  <2> QED BY <2>2, <2>3
<1>13. OneLive' /\ RevokedFamilyIsDead'
  BY <1>4, <1>8 DEF OneLive, RevokedFamilyIsDead, Rotate
<1>14. ReuseIsAnswered'
  BY DEF Rotate, Finish, ReuseIsAnswered, At, IInv, TypeOK
<1>15. TypeOK'
  BY ProceedTypeOK DEF IInv, Proceed
<1> QED BY <1>9, <1>10, <1>11, <1>12, <1>13, <1>14, <1>15 DEF IInv

LEMMA RevokeAllIInv ==
    ASSUME IInv, NEW c \in Calls, RevokeAll(c) PROVE IInv'
<1>1. /\ cred \in [Credentials -> Credential] /\ family \in Family
      /\ call[c].pc = "revoking" /\ call[c].answer \in Answer
  BY DEF IInv, TypeOK, Call, RevokeAll, At
<1>0. call[c].targets = Live
  BY <1>1 DEF IInv, Fresh
<1>2. \A l \in Credentials :
         /\ l \in Live => cred'[l].status = "revoked"
                          /\ cred'[l].successor = cred[l].successor
         /\ l \notin Live => cred'[l] = cred[l]
  BY <1>0, <1>1 DEF RevokeAll, Credential
<1>3. \A l \in Credentials : l \in Live <=> cred[l].status = "live"
  BY DEF Live
<1>4. Live' = {}
  BY <1>2, <1>3 DEF Live
<1>5. family'.revoked = TRUE
      /\ (family'.compromised <=>
              family.compromised \/ call[c].answer = "reused")
  BY <1>1 DEF RevokeAll, Family
<1>6. \A d \in Calls : Holding(d)'
  BY <1>1, FinishHolding DEF IInv, RevokeAll
<1>7. ASSUME NEW d \in Calls PROVE Fresh(d)'
  <2>1. call[d].key \in Credentials
    BY DEF IInv, TypeOK, Call
  <2>2. cred'[call[d].key].status # "unissued"
    BY <1>2, <2>1 DEF IInv, Fresh
  <2>3. CASE d = c
    BY <2>2, <2>3 DEF RevokeAll, Finish, IInv, TypeOK, Fresh, Call
  <2>4. CASE d # c
    <3>1. call'[d] = call[d]
      BY <2>4 DEF RevokeAll, Finish, IInv, TypeOK
    <3>2. call[d].pc \notin {"decide", "revoking"}
      BY <1>1, <2>4, SoleWriter
    <3>3. call[d].pc = "family" => call[d].key \notin Live
      BY <1>0, <2>1, <2>4, NoneAssumption DEF IInv, Holding, RevokeAll
    <3> QED BY <1>2, <2>1, <2>2, <3>1, <3>2, <3>3 DEF IInv, Fresh
  <2> QED BY <2>3, <2>4
<1>8. \A l \in Credentials :
         /\ cred'[l].successor = cred[l].successor
         /\ cred'[l].status = "rotated" <=> cred[l].status = "rotated"
         /\ cred'[l].status = "unissued" <=> cred[l].status = "unissued"
  BY <1>2, <1>3
<1>9. OneLine'
  BY <1>8 DEF IInv, OneLine
<1>10. SuccessorsIssued'
  BY <1>1, <1>8 DEF IInv, SuccessorsIssued, Credential
<1>11. OneLive' /\ RevokedFamilyIsDead'
  BY <1>4 DEF OneLive, RevokedFamilyIsDead
<1>12. ReuseIsAnswered'
  <2> SUFFICES ASSUME NEW d \in Calls, call'[d].answer = "reused",
                      call'[d].pc = "answered"
               PROVE  family'.revoked /\ family'.compromised
    BY DEF ReuseIsAnswered, At
  <2>1. CASE d = c
    BY <1>5, <2>1 DEF RevokeAll, Finish, IInv, TypeOK
  <2>2. CASE d # c
    <3>1. call'[d] = call[d]
      BY <2>2 DEF RevokeAll, Finish, IInv, TypeOK
    <3> QED BY <1>5, <3>1 DEF IInv, ReuseIsAnswered, At
  <2> QED BY <2>1, <2>2
<1>13. TypeOK'
  BY ProceedTypeOK DEF IInv, Proceed
<1> QED BY <1>6, <1>7, <1>9, <1>10, <1>11, <1>12, <1>13 DEF IInv

LEMMA ExpiryIInv == IInv /\ FamilyExpires => IInv'
<1> SUFFICES ASSUME IInv, FamilyExpires PROVE IInv'
  OBVIOUS
<1>1. family'.revoked = family.revoked
      /\ family'.compromised = family.compromised
  BY DEF FamilyExpires, IInv, TypeOK, Family
<1>2. \A c \in Calls : Holding(c)' /\ Fresh(c)'
  BY <1>1 DEF FamilyExpires, IInv, Holding, Fresh, Live
<1>3. OneLive' /\ RevokedFamilyIsDead' /\ OneLine' /\ SuccessorsIssued'
      /\ ReuseIsAnswered'
  BY <1>1 DEF FamilyExpires, IInv, OneLive, RevokedFamilyIsDead, OneLine,
              SuccessorsIssued, ReuseIsAnswered, Live, At
<1> QED BY <1>2, <1>3, ExpiryTypeOK DEF IInv

LEMMA NextIInv == IInv /\ [Next]_vars => IInv'
<1> SUFFICES ASSUME IInv, [Next]_vars PROVE IInv'
  OBVIOUS
<1>1. ASSUME NEW c \in Calls, Proceed(c) PROVE IInv'
  <2>1. TypeOK'
    BY <1>1, ProceedTypeOK DEF IInv
  <2>2. CASE AlreadyRevoked(c)
    BY <2>1, <2>2, EndsUnwritten DEF AlreadyRevoked, Answer
  <2>3. CASE Abort(c)
    BY <2>1, <2>3, EndsUnwritten DEF Abort, Answer
  <2> QED BY <1>1, <2>2, <2>3, LockCredentialIInv, LockFamilyIInv, RotateIInv,
             StartRevokingIInv, RevokeAllIInv DEF Proceed
<1>2. CASE UNCHANGED vars
  BY <1>2 DEF vars, IInv, TypeOK, Holding, Fresh, OneLive,
             RevokedFamilyIsDead, OneLine, SuccessorsIssued,
             ReuseIsAnswered, Live, At
<1> QED BY <1>1, <1>2, PresentIInv, ExpiryIInv DEF Next

-----------------------------------------------------------------------------
\* The requests as they are seen from outside

\* What a request is about to answer when it revokes the family.
Revoking(c) == call[c].pc = "revoking" =>
    /\ ~call[c].revoked
    /\ \/ call[c].op = "revoke" /\ call[c].answer = "ok"
       \/ call[c].op = "rotate" /\ call[c].answer = "expired" /\ family.expired
       \/ /\ call[c].op = "rotate" /\ call[c].answer = "reused"
          /\ call[c].status # "live"

RInv == \A c \in Calls : Revoking(c)

LEMMA InitRInv == Init => RInv
BY DEF Init, RInv, Revoking

\* Whoever does not come to revoke the family has nothing to show for it.
LEMMA ElsewhereRInv ==
    ASSUME IInv, RInv, NEW c \in Calls, call'[c].pc # "revoking",
           \A d \in Calls \ {c} : call'[d] = call[d], UNCHANGED family.expired
    PROVE  RInv'
BY DEF RInv, Revoking

LEMMA NextRInv == ASSUME IInv, RInv, [Next]_vars PROVE RInv'
<1>1. ASSUME NEW c \in Calls, NEW op \in {"rotate", "revoke"},
             NEW k \in Credentials, Present(c, op, k)
      PROVE  RInv'
  <2>1. /\ call'[c].pc = "credential" /\ UNCHANGED family
        /\ \A d \in Calls \ {c} : call'[d] = call[d]
    BY <1>1 DEF Present, IInv, TypeOK, Call
  <2> QED BY <2>1, ElsewhereRInv
<1>2. ASSUME NEW c \in Calls, NEW a, Finish(c, a), UNCHANGED family.expired
      PROVE  RInv'
  <2>1. call'[c].pc = "answered" /\ \A d \in Calls \ {c} : call'[d] = call[d]
    BY <1>2 DEF Finish, IInv, TypeOK, Call
  <2> QED BY <1>2, <2>1, ElsewhereRInv
<1>3. ASSUME NEW c \in Calls, LockCredential(c) \/ LockFamily(c)
      PROVE  RInv'
  <2>1. /\ call'[c].pc \in {"family", "decide"} /\ UNCHANGED family
        /\ \A d \in Calls \ {c} : call'[d] = call[d]
    BY <1>3 DEF LockCredential, LockFamily, IInv, TypeOK, Call
  <2> QED BY <2>1, ElsewhereRInv
<1>4. ASSUME NEW c \in Calls, StartRevoking(c) PROVE RInv'
  <2>1. /\ call[c] \in Call /\ UNCHANGED family /\ ~call[c].revoked
        /\ call[c].op = "revoke" \/ family.expired \/ call[c].status # "live"
        /\ \A d \in Calls \ {c} : call'[d] = call[d]
    BY <1>4 DEF StartRevoking, IInv, TypeOK
  <2> DEFINE a == IF call[c].op = "revoke" THEN "ok"
                  ELSE IF family.expired THEN "expired" ELSE "reused"
  <2>2. /\ call'[c].revoked = call[c].revoked /\ call'[c].op = call[c].op
        /\ call'[c].status = call[c].status /\ call'[c].answer = a
    BY <1>4 DEF StartRevoking, IInv, TypeOK, Call
  <2>3. call[c].op \in {"rotate", "revoke"}
    BY <2>1 DEF Call
  <2>4. Revoking(c)'
    BY <2>1, <2>2, <2>3 DEF Revoking
  <2> QED BY <2>1, <2>4 DEF RInv, Revoking
<1>5. ASSUME NEW c \in Calls, RevokeAll(c) PROVE RInv'
  <2>1. UNCHANGED family.expired /\ Finish(c, call[c].answer)
    BY <1>5 DEF RevokeAll, IInv, TypeOK, Family
  <2> QED BY <1>2, <2>1
<1>6. CASE FamilyExpires
  <2>1. UNCHANGED call /\ family'.expired = TRUE
    BY <1>6 DEF FamilyExpires, IInv, TypeOK, Family
  <2> QED BY <2>1 DEF RInv, Revoking
<1>7. ASSUME NEW c \in Calls, Proceed(c) PROVE RInv'
  BY <1>2, <1>3, <1>4, <1>5, <1>7 DEF Proceed, AlreadyRevoked, Rotate, Abort
<1>8. CASE UNCHANGED vars
  BY <1>8 DEF vars, RInv, Revoking
<1> QED BY <1>1, <1>6, <1>7, <1>8 DEF Next

\* What is seen of a request.
LEMMA SeenCall ==
    ASSUME IInv, NEW c \in Calls
    PROVE  /\ asked[c].op = call[c].op /\ asked[c].key = call[c].key
           /\ asked[c].answer = IF call[c].pc \in {"idle", "answered"}
                                THEN call[c].answer ELSE "awaited"
           /\ call[c].answer # "awaited"
BY DEF asked, IInv, TypeOK, Call, Answer

LEMMA SeenFinish ==
    ASSUME IInv, NEW c \in Calls, NEW a, Finish(c, a),
           call[c].pc \notin {"idle", "answered"}
    PROVE  Promise!Answer(c, a)
<1> DEFINE s == [call[c] EXCEPT !.pc = "answered", !.answer = a,
                      !.status = "live", !.revoked = FALSE, !.targets = {}]
<1>1. call' = [call EXCEPT ![c] = s]
  BY DEF Finish, IInv, TypeOK, Call
<1>2. s.pc = "answered" /\ s.answer = a /\ s.op = call[c].op
      /\ s.key = call[c].key
  BY DEF IInv, TypeOK, Call
<1> HIDE DEF s
<1>3. call'[c] = s /\ \A d \in Calls \ {c} : call'[d] = call[d]
  BY <1>1 DEF IInv, TypeOK
<1>4. asked' = [asked EXCEPT ![c].answer = a]
  BY <1>2, <1>3 DEF asked
<1> QED BY <1>4, SeenCall DEF Promise!Answer

\* A request that goes on is not seen to.
LEMMA SeenMove ==
    ASSUME IInv, NEW c \in Calls,
           LockCredential(c) \/ LockFamily(c) \/ StartRevoking(c)
    PROVE  asked' = asked /\ UNCHANGED <<family, cred>>
<1>1. /\ call[c].pc \notin {"idle", "answered"}
      /\ call'[c].pc \notin {"idle", "answered"}
      /\ call'[c].op = call[c].op /\ call'[c].key = call[c].key
      /\ \A d \in Calls \ {c} : call'[d] = call[d]
  BY DEF LockCredential, LockFamily, StartRevoking, At, IInv, TypeOK, Call
<1>2. asked' = asked
  BY <1>1 DEF asked
<1> QED BY <1>2 DEF LockCredential, LockFamily, StartRevoking

LEMMA RowsSeen ==
    ASSUME UNCHANGED <<family, cred>>
    PROVE  /\ Live' = Live /\ Spent' = Spent /\ UNCHANGED family.revoked
           /\ UNCHANGED family.compromised /\ UNCHANGED family.expired
BY DEF Live, Spent

LEMMA AskStep ==
    ASSUME IInv, NEW c \in Calls, NEW op \in {"rotate", "revoke"},
           NEW k \in Credentials, Present(c, op, k)
    PROVE  Promise!Ask(c)
<1> DEFINE s == [call[c] EXCEPT !.pc = "credential", !.op = op, !.key = k,
                      !.answer = "none"]
<1>1. k \in Live \cup Spent
  BY DEF Present, Live, Spent, IInv, TypeOK, Credential, Status
<1>2. call' = [call EXCEPT ![c] = s]
  BY DEF Present
<1>3. s.pc = "credential" /\ s.op = op /\ s.key = k
  BY DEF IInv, TypeOK, Call
<1> HIDE DEF s
<1>4. call'[c] = s /\ \A d \in Calls \ {c} : call'[d] = call[d]
  BY <1>2 DEF IInv, TypeOK
<1>5. asked' = [asked EXCEPT ![c] = [op |-> op, key |-> k,
                                     answer |-> "awaited"]]
  BY <1>3, <1>4 DEF asked
<1>6. asked[c].answer # "awaited"
  BY SeenCall DEF Present
<1> QED BY <1>1, <1>5, <1>6, RowsSeen DEF Present, Promise!Ask

LEMMA RotateStep == ASSUME IInv, NEW c \in Calls, Rotate(c) PROVE Promise!Rotate(c)
<1> DEFINE k == call[c].key
<1>1. /\ family.revoked = FALSE /\ Live = {k} /\ k \in Credentials
      /\ call[c].pc = "decide" /\ call[c].op = "rotate" /\ ~family.expired
      /\ Finish(c, "ok") /\ UNCHANGED family
  BY RotateRows DEF Rotate
<1>2. PICK new \in Credentials \ {k} :
         /\ cred[new].status = "unissued" /\ Live' = {new}
         /\ cred'[k].status = "rotated" /\ cred'[new].status = "live"
         /\ \A l \in Credentials \ {k, new} : cred'[l] = cred[l]
  BY RotateRows
<1>3. new \notin Live \cup Spent
  BY <1>2 DEF Live, Spent
<1>4. Spent' = Spent \cup Live
  <2>1. ASSUME NEW l \in Credentials
        PROVE  l \in Spent' <=> l \in Spent \cup Live
    <3>1. CASE l = k
      BY <1>1, <1>2, <3>1 DEF Spent
    <3>2. CASE l = new
      BY <1>1, <1>2, <3>2 DEF Spent
    <3>3. CASE l \notin {k, new}
      BY <1>1, <1>2, <3>3 DEF Spent
    <3> QED BY <3>1, <3>2, <3>3
  <2>2. Spent' \subseteq Credentials /\ Spent \cup Live \subseteq Credentials
    BY DEF Spent, Live
  <2> QED BY <2>1, <2>2
<1>5. asked[c].op = "rotate" /\ asked[c].key \in Live
  BY <1>1, SeenCall
<1>6. Promise!Answer(c, "ok")
  BY <1>1, SeenFinish
<1>7. \E n \in Credentials \ (Live \cup Spent) : Live' = {n}
  BY <1>2, <1>3
<1> QED BY <1>1, <1>4, <1>5, <1>6, <1>7 DEF Promise!Rotate

LEMMA RevokeStep ==
    ASSUME IInv, RInv, NEW c \in Calls, RevokeAll(c) PROVE Promise!Revoke(c)
<1>1. /\ call[c].pc = "revoking" /\ call[c].targets = Live /\ Revoking(c)
      /\ Finish(c, call[c].answer) /\ call[c].key \in Credentials
      /\ family \in Family /\ cred \in [Credentials -> Credential]
      /\ call[c].status = cred[call[c].key].status
      /\ cred[call[c].key].status # "unissued"
      /\ call[c].revoked = family.revoked
  BY DEF IInv, RInv, TypeOK, Call, Fresh, RevokeAll, At
<1>2. \A l \in Credentials :
         cred'[l].status = IF l \in Live THEN "revoked" ELSE cred[l].status
  BY <1>1 DEF RevokeAll, Credential
<1>3. Live' = {} /\ Spent' = Spent \cup Live
  BY <1>2 DEF Live, Spent
<1>4. /\ ~family.revoked /\ family'.revoked = TRUE
      /\ family'.expired = family.expired
      /\ call[c].answer = "reused" => family'.compromised = TRUE
      /\ call[c].answer # "reused" => family'.compromised = family.compromised
  BY <1>1 DEF RevokeAll, Revoking, Family
<1>5. Promise!Answer(c, call[c].answer)
  BY <1>1, SeenFinish
<1>6. asked[c].op = call[c].op /\ asked[c].key = call[c].key
  BY SeenCall
<1>7. call[c].status # "live" => call[c].key \in Spent
  BY <1>1 DEF Spent, Credential, Status
<1>8. \/ asked[c].op = "revoke" /\ call[c].answer = "ok"
      \/ asked[c].op = "rotate" /\ family.expired /\ call[c].answer = "expired"
      \/ /\ asked[c].op = "rotate" /\ asked[c].key \in Spent
         /\ call[c].answer = "reused"
  BY <1>1, <1>6, <1>7 DEF Revoking
<1>9. \/ /\ asked[c].op = "revoke" /\ Promise!Answer(c, "ok")
         /\ family'.compromised = family.compromised
      \/ /\ asked[c].op = "rotate" /\ family.expired
         /\ Promise!Answer(c, "expired")
         /\ family'.compromised = family.compromised
      \/ /\ asked[c].op = "rotate" /\ asked[c].key \in Spent
         /\ Promise!Answer(c, "reused") /\ family'.compromised = TRUE
  BY <1>4, <1>5, <1>8
<1> QED BY <1>3, <1>4, <1>9 DEF Promise!Revoke

LEMMA RefuseStep ==
    ASSUME IInv, NEW c \in Calls, AlreadyRevoked(c) PROVE Promise!Refuse(c)
<1>1. /\ call[c].pc = "decide" /\ UNCHANGED <<family, cred>>
      /\ Finish(c, IF call[c].op = "rotate" THEN "invalid" ELSE "ok")
  BY DEF AlreadyRevoked, At
<1>2. family.revoked
  BY <1>1 DEF AlreadyRevoked, IInv, Fresh
<1>3. asked[c].op = call[c].op
  BY SeenCall
<1>4. Promise!Answer(c, IF asked[c].op = "rotate" THEN "invalid" ELSE "ok")
  BY <1>1, <1>3, SeenFinish
<1> QED BY <1>1, <1>2, <1>4, RowsSeen DEF Promise!Refuse

LEMMA FailStep ==
    ASSUME IInv, NEW c \in Calls, Abort(c) PROVE Promise!Fail(c)
<1>1. call[c].pc \notin {"idle", "answered"}
  BY DEF Abort, WaitsFor, At
<1>2. Promise!Answer(c, "error")
  BY <1>1, SeenFinish DEF Abort
<1> QED BY <1>2, RowsSeen DEF Abort, Promise!Fail

LEMMA ExpiryStep == ASSUME IInv, FamilyExpires PROVE Promise!Expire
<1>1. /\ family'.expired = TRUE /\ family'.revoked = family.revoked
      /\ family'.compromised = family.compromised
  BY DEF FamilyExpires, IInv, TypeOK, Family
<1>2. asked' = asked /\ Live' = Live /\ Spent' = Spent
  BY DEF FamilyExpires, asked, Live, Spent
<1> QED BY <1>1, <1>2 DEF Promise!Expire

LEMMA PromiseInit == Init => Promise!Init
<1> SUFFICES ASSUME Init PROVE Promise!Init
  OBVIOUS
<1>1. PICK first \in Credentials :
         /\ cred = [k \in Credentials |->
                       [status |-> IF k = first THEN "live" ELSE "unissued",
                        successor |-> None]]
         /\ \A c \in Calls : call[c].answer = "none" /\ call[c].pc = "idle"
  BY DEF Init
<1>2. Live = {first}
  <2>1. \A k \in Credentials : cred[k].status = "live" <=> k = first
    BY <1>1
  <2> QED BY <2>1 DEF Live
<1>3. Spent = {}
  <2>1. \A k \in Credentials : cred[k].status \in {"live", "unissued"}
    BY <1>1
  <2> QED BY <2>1 DEF Spent
<1>4. \A c \in Calls : asked[c].answer = "none"
  BY <1>1 DEF asked
<1>5. /\ family.revoked = FALSE /\ family.compromised = FALSE
      /\ family.expired = FALSE
  BY DEF Init
<1> QED BY <1>2, <1>3, <1>4, <1>5 DEF Promise!Init

LEMMA PromiseNext ==
    ASSUME IInv, RInv, [Next]_vars PROVE [Promise!Next]_(Promise!vars)
<1>1. ASSUME NEW c \in Calls, Proceed(c)
      PROVE  Promise!Next \/ UNCHANGED Promise!vars
  <2>1. CASE LockCredential(c) \/ LockFamily(c) \/ StartRevoking(c)
    BY <2>1, SeenMove, RowsSeen DEF Promise!vars
  <2>2. CASE AlreadyRevoked(c) \/ Rotate(c) \/ RevokeAll(c) \/ Abort(c)
    BY <2>2, RefuseStep, RotateStep, RevokeStep, FailStep DEF Promise!Next
  <2> QED BY <1>1, <2>1, <2>2 DEF Proceed
<1>2. ASSUME NEW c \in Calls, NEW op \in {"rotate", "revoke"},
             NEW k \in Credentials, Present(c, op, k)
      PROVE  Promise!Next
  BY <1>2, AskStep DEF Promise!Next
<1>3. CASE FamilyExpires
  BY <1>3, ExpiryStep DEF Promise!Next
<1>4. CASE UNCHANGED vars
  <2>1. asked' = asked
    BY <1>4 DEF vars, asked
  <2> QED BY <1>4, <2>1, RowsSeen DEF vars, Promise!vars
<1> QED BY <1>1, <1>2, <1>3, <1>4 DEF Next

-----------------------------------------------------------------------------
\* For any number of requests and credentials, every reachable state satisfies
\* the inductive invariant.
THEOREM LocksProtect == Spec => []IInv
BY InitIInv, NextIInv, PTL DEF Spec

\* A family never has two working credentials.
THEOREM AtMostOneLive == Spec => []OneLive
BY LocksProtect, PTL DEF IInv

\* No credential works once its family is revoked.
THEOREM DeadOnceRevoked == Spec => []RevokedFamilyIsDead
BY LocksProtect, PTL DEF IInv

\* The successors of a family form one line.
THEOREM SuccessorsInLine == Spec => []OneLine
BY LocksProtect, PTL DEF IInv

\* An answered reuse has revoked the family.
THEOREM ReuseAnsweredRevokes == Spec => []ReuseIsAnswered
BY LocksProtect, PTL DEF IInv

\* Every request on a family takes effect at one moment between being asked and
\* answered: the row locks, the reads under them and the deadlocks that the
\* database breaks do not show.
THEOREM RequestsAnsweredAtOnce == Spec => AnsweredAtOnce
<1>1. Init => Promise!Init /\ RInv
  BY PromiseInit, InitRInv
<1>2. IInv /\ RInv /\ [Next]_vars => RInv' /\ [Promise!Next]_(Promise!vars)
  BY NextRInv, PromiseNext
<1> QED BY <1>1, <1>2, LocksProtect, PTL DEF Spec, AnsweredAtOnce, Promise!Spec

-----------------------------------------------------------------------------
\* What a family is worth that keeps its promise

PromiseInv ==
    /\ Live = {} \/ \E k : Live = {k}
    /\ family.revoked => Live = {}
    /\ \A c \in Calls :
           asked[c].answer = "reused" => family.revoked /\ family.compromised

LEMMA PromiseStep ==
    ASSUME PromiseInv, [Promise!Next]_(Promise!vars) PROVE PromiseInv'
<1> DEFINE Kept == \A c \in Calls :
                       asked'[c].answer \in {asked[c].answer, "awaited", "ok",
                                             "expired", "invalid", "error"}
<1>1. DOMAIN asked = Calls /\ DOMAIN asked' = Calls
  BY DEF asked
<1>2. ASSUME NEW c \in Calls, NEW a, Promise!Answer(c, a)
      PROVE  \A d \in Calls : asked'[d].answer = IF d = c THEN a ELSE asked[d].answer
  <2>1. asked' = [asked EXCEPT ![c] = [asked[c] EXCEPT !.answer = a]]
    BY <1>2 DEF Promise!Answer
  <2>2. [asked[c] EXCEPT !.answer = a].answer = a
    BY DEF asked
  <2> QED BY <1>1, <2>1, <2>2
<1>3. CASE UNCHANGED Promise!vars
  BY <1>3 DEF PromiseInv, Promise!vars
<1>4. ASSUME NEW c \in Calls, Promise!Ask(c)
      PROVE  PromiseInv'
  <2>1. Kept
    BY <1>1, <1>4 DEF Promise!Ask
  <2> QED BY <1>4, <2>1 DEF Promise!Ask, PromiseInv
<1>5. ASSUME NEW c \in Calls, Promise!Rotate(c)
      PROVE  PromiseInv'
  <2>1. Kept /\ \E k : Live' = {k}
    BY <1>2, <1>5 DEF Promise!Rotate
  <2> QED BY <1>5, <2>1 DEF Promise!Rotate, PromiseInv
<1>6. ASSUME NEW c \in Calls, Promise!Revoke(c)
      PROVE  PromiseInv'
  <2>1. /\ family'.revoked /\ Live' = {}
        /\ family.compromised => family'.compromised
    BY <1>6 DEF Promise!Revoke
  <2>2. Kept \/ family'.compromised
    BY <1>2, <1>6 DEF Promise!Revoke
  <2> QED BY <2>1, <2>2 DEF PromiseInv
<1>7. ASSUME NEW c \in Calls, Promise!Refuse(c) \/ Promise!Fail(c)
      PROVE  PromiseInv'
  <2>1. Kept
    BY <1>2, <1>7 DEF Promise!Refuse, Promise!Fail
  <2> QED BY <1>7, <2>1 DEF Promise!Refuse, Promise!Fail, PromiseInv
<1>8. CASE Promise!Expire
  BY <1>8 DEF Promise!Expire, PromiseInv
<1> QED BY <1>3, <1>4, <1>5, <1>6, <1>7, <1>8 DEF Promise!Next

\* TokenFamily is all that is to be said: it implies that one credential works
\* at most, none of a revoked family, and that an answered reuse revoked it.
THEOREM PromiseSuffices ==
    AnsweredAtOnce => [](OneLive /\ RevokedFamilyIsDead /\ ReuseIsAnswered)
<1>1. Promise!Init => PromiseInv
  BY DEF Promise!Init, PromiseInv
<1>2. PromiseInv => OneLive /\ RevokedFamilyIsDead /\ ReuseIsAnswered
  <2> SUFFICES ASSUME PromiseInv
               PROVE  OneLive /\ RevokedFamilyIsDead /\ ReuseIsAnswered
    OBVIOUS
  <2>1. OneLive /\ RevokedFamilyIsDead
    BY DEF PromiseInv, OneLive, RevokedFamilyIsDead
  <2>2. \A c \in Calls : call[c].answer = "reused" /\ At(c, "answered")
                             => asked[c].answer = "reused"
    BY DEF asked, At
  <2>3. ReuseIsAnswered
    BY <2>2 DEF PromiseInv, ReuseIsAnswered
  <2> QED BY <2>1, <2>3
<1>3. PromiseInv /\ [Promise!Next]_(Promise!vars) => PromiseInv'
  BY PromiseStep
<1> QED BY <1>1, <1>2, <1>3, PTL DEF AnsweredAtOnce, Promise!Spec
=============================================================================

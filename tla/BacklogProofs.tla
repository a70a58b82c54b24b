--------------------------- MODULE BacklogProofs ----------------------------
(***************************************************************************)
(* A moderator's pass through the queue is complete, for any submissions,  *)
(* dates and page size, and however long it takes.                         *)
(***************************************************************************)
EXTENDS Backlog, FiniteSetTheorems, SequenceTheorems, TLAPS

-----------------------------------------------------------------------------
\* The inductive invariant

\* What has been shown goes up in the order of the queue.
InOrder(s) == \A i, j \in DOMAIN s : i < j => Before(s[i], s[j])

\* What has awaited review all the time was shown or is still to come.
NotPassedBy ==
    \A r \in waiting : r \in ToSet(shown) \/ (pass # "read" /\ Behind(r))

IInv ==
    /\ state \in [Requests -> {"absent", "draft", "pending", "closed", "expired"}]
    /\ shown \in Seq(Requests)
    /\ waiting \subseteq Pending
    /\ pass \in {"unread", "reading", "read"}
    /\ pass = "unread" => shown = <<>> /\ waiting = {}
    /\ InOrder(shown)
    /\ NotPassedBy

-----------------------------------------------------------------------------
\* The order of the queue and its portions

LEMMA BeforeIsStrict ==
    ASSUME NEW a \in Requests, NEW b \in Requests
    PROVE  /\ ~Before(a, a)
           /\ \A c \in Requests : Before(a, b) /\ Before(b, c) => Before(a, c)
  BY KeysAssumption DEF Before

\* A portion of a list is how it begins.
LEMMA FirstOfIs ==
    ASSUME NEW S, NEW s \in Seq(S), NEW n \in Nat
    PROVE  LET k == IF Len(s) < n THEN Len(s) ELSE n
           IN  /\ FirstOf(s, n) \in Seq(S) /\ Len(FirstOf(s, n)) = k
               /\ \A i \in 1..k : FirstOf(s, n)[i] = s[i]
<1> DEFINE k == IF Len(s) < n THEN Len(s) ELSE n
<1>1. k \in Nat /\ k <= Len(s)
  OBVIOUS
<1>2. \A i \in 1..k : s[i] \in S
  BY <1>1
<1>3. FirstOf(s, n) = SubSeq(s, 1, k)
  BY DEF FirstOf
<1> HIDE DEF k
<1>4. /\ SubSeq(s, 1, k) \in Seq(S)
      /\ Len(SubSeq(s, 1, k)) = IF 1 <= k THEN k - 1 + 1 ELSE 0
      /\ \A i \in 1..(k - 1 + 1) : SubSeq(s, 1, k)[i] = s[1 + i - 1]
  BY <1>1, <1>2, SubSeqProperties
<1>5. FirstOf(s, n) \in Seq(S) /\ Len(FirstOf(s, n)) = k
      /\ \A i \in 1..k : FirstOf(s, n)[i] = s[i]
  BY <1>1, <1>3, <1>4
<1> QED BY <1>5 DEF k

\* The query finds all that follow the cursor, each once and in order.
LEMMA FoundIs ==
    ASSUME IInv, NEW rows \in Found
    PROVE  /\ rows \in Seq(Requests) /\ InOrder(rows)
           /\ ToSet(rows) = {r \in Pending : Behind(r)}
<1> DEFINE S == {r \in Pending : Behind(r)}
           D == 1..Cardinality(S)
<1>1. S \in SUBSET Requests
  BY DEF Pending
<1>2. IsFiniteSet(S) /\ Cardinality(S) \in Nat
  BY <1>1, KeysAssumption, FS_Subset, FS_CardinalityType
<1>3. rows \in [D -> S] /\ \A i, j \in D : i # j => rows[i] # rows[j]
  BY DEF Found, SetToSeqs
<1>4. InOrder(rows)
  BY DEF Found, InOrder
<1> HIDE DEF S
<1>5. rows \in Seq(Requests)
  BY <1>1, <1>2, <1>3
<1>6. rows \in Injection(D, S)
  BY <1>3 DEF Injection, IsInjective
<1>7. IsFiniteSet(D) /\ Cardinality(D) = Cardinality(S)
  BY <1>2, FS_Interval
<1>8. rows \in Surjection(D, S)
  BY <1>2, <1>6, <1>7, FS_Injection
<1>9. ToSet(rows) = S
  BY <1>3, <1>8 DEF ToSet, Surjection
<1> QED BY <1>4, <1>5, <1>9 DEF S

-----------------------------------------------------------------------------
LEMMA InitIInv == Init => IInv
<1> SUFFICES ASSUME Init PROVE IInv
  OBVIOUS
<1>1. state \in [Requests -> {"absent", "draft", "pending", "closed", "expired"}]
  BY DEF Init
<1>2. shown = <<>> /\ waiting = {} /\ pass = "unread"
  BY DEF Init
<1>3. <<>> \in Seq(Requests) /\ InOrder(<<>>)
  BY DEF InOrder
<1> QED BY <1>1, <1>2, <1>3 DEF IInv, NotPassedBy

\* A submission that changes leaves the pass if it was in it.
LEMMA SaveStep ==
    ASSUME IInv, NEW r, NEW to \in {"draft", "pending", "closed", "expired"},
           Save(r, to)
    PROVE  IInv'
<1>1. state' \in [Requests -> {"absent", "draft", "pending", "closed", "expired"}]
  BY DEF IInv, Save
<1>2. waiting' \subseteq Pending'
  BY DEF IInv, Save, Pending
<1> QED BY <1>1, <1>2 DEF IInv, Save, InOrder, NotPassedBy, Behind

\* A page shows what comes next and leaves what comes after it.
LEMMA ReadPageStep == IInv /\ ReadPage => IInv'
<1> SUFFICES ASSUME IInv, ReadPage PROVE IInv'
  OBVIOUS
<1> USE PortionsAssumption
<1>1. PICK rows \in Found :
          /\ shown' = shown \o FirstOf(rows, PageSize)
          /\ pass' = IF Len(rows) > PageSize THEN "reading" ELSE "read"
  BY DEF ReadPage
<1>2. /\ rows \in Seq(Requests) /\ InOrder(rows)
      /\ ToSet(rows) = {r \in Pending : Behind(r)}
  BY FoundIs
<1>3. PICK page, k :
          /\ page = FirstOf(rows, PageSize)
          /\ k = IF Len(rows) < PageSize THEN Len(rows) ELSE PageSize
  OBVIOUS
<1>4. /\ page \in Seq(Requests) /\ Len(page) = k /\ k \in Nat /\ k <= Len(rows)
      /\ \A i \in 1..k : page[i] = rows[i]
  <2>1. k \in Nat /\ k <= Len(rows)
    BY <1>2, <1>3
  <2> QED BY <1>2, <1>3, <2>1, FirstOfIs
<1>5. /\ shown \in Seq(Requests) /\ shown' = shown \o page
      /\ shown' \in Seq(Requests) /\ Len(shown') = Len(shown) + k
      /\ \A i \in 1..Len(shown) : shown'[i] = shown[i]
      /\ \A i \in 1..k : shown'[Len(shown) + i] = page[i]
  <2>1. shown \in Seq(Requests) /\ shown' = shown \o page
    BY <1>1, <1>3 DEF IInv
  <2>2. /\ shown' \in Seq(Requests) /\ Len(shown') = Len(shown) + k
        /\ \A i \in 1..(Len(shown) + k) :
               shown'[i] = IF i <= Len(shown) THEN shown[i] ELSE page[i - Len(shown)]
    BY <1>4, <2>1, ConcatProperties
  <2> QED BY <1>4, <2>1, <2>2
<1>6. \A i \in 1..Len(rows) : rows[i] \in Pending /\ Behind(rows[i])
  BY <1>2 DEF ToSet
<1>7. InOrder(shown')
  <2> SUFFICES ASSUME NEW i \in 1..Len(shown'), NEW j \in 1..Len(shown'), i < j
               PROVE  Before(shown'[i], shown'[j])
    BY <1>5 DEF InOrder
  <2>1. CASE j <= Len(shown)
    BY <1>5, <2>1 DEF IInv, InOrder
  <2>2. CASE i > Len(shown)
    <3>1. PICK m, n \in 1..k : i = Len(shown) + m /\ j = Len(shown) + n /\ m < n
      <4>1. i - Len(shown) \in 1..k /\ j - Len(shown) \in 1..k
        BY <1>4, <1>5, <2>2
      <4> QED BY <1>5, <4>1
    <3>2. shown'[i] = rows[m] /\ shown'[j] = rows[n]
      BY <1>4, <1>5, <3>1
    <3> QED BY <1>2, <1>4, <3>1, <3>2 DEF InOrder
  <2>3. CASE i <= Len(shown) /\ j > Len(shown)
    <3>1. PICK n \in 1..k : j = Len(shown) + n
      <4>1. j - Len(shown) \in 1..k
        BY <1>4, <1>5, <2>3
      <4> QED BY <1>5, <4>1
    <3>2. shown'[i] = shown[i] /\ shown'[j] = rows[n] /\ n \in 1..Len(rows)
      BY <1>4, <1>5, <2>3, <3>1
    <3>3. Before(shown[Len(shown)], rows[n])
      BY <1>5, <1>6, <2>3, <3>2 DEF Behind, Last
    <3>4. i = Len(shown) \/ Before(shown[i], shown[Len(shown)])
      BY <1>5, <2>3 DEF IInv, InOrder
    <3>5. shown[i] \in Requests /\ shown[Len(shown)] \in Requests /\ rows[n] \in Requests
      BY <1>2, <1>5, <2>3, <3>2
    <3> QED BY <3>2, <3>3, <3>4, <3>5, BeforeIsStrict
  <2> QED BY <1>5, <2>1, <2>2, <2>3
<1>8. ASSUME NEW r \in waiting'
      PROVE  r \in ToSet(shown') \/ (pass' # "read" /\ Behind(r)')
  <2>1. CASE r \in ToSet(shown)
    <3>1. PICK i \in 1..Len(shown) : r = shown[i]
      BY <1>5, <2>1 DEF ToSet
    <3>2. i \in DOMAIN shown' /\ r = shown'[i]
      BY <1>4, <1>5, <3>1
    <3> QED BY <3>2 DEF ToSet
  <2>2. CASE r \notin ToSet(shown)
    <3>1. r \in Pending /\ Behind(r)
      BY <2>2 DEF IInv, NotPassedBy, ReadPage, Behind
    <3>2. PICK i \in 1..Len(rows) : r = rows[i]
      BY <1>2, <3>1 DEF ToSet
    <3>3. CASE i <= k
      <4>1. Len(shown) + i \in DOMAIN shown' /\ r = shown'[Len(shown) + i]
        BY <1>4, <1>5, <3>2, <3>3
      <4> QED BY <4>1 DEF ToSet
    <3>4. CASE i > k
      <4>1. k = PageSize /\ k > 0 /\ Len(rows) > PageSize
        BY <1>2, <1>3, <3>2, <3>4
      <4>2. shown'[Len(shown')] = rows[k] /\ Len(shown') > 0
        BY <1>4, <1>5, <4>1
      <4>3. Before(rows[k], r)
        BY <1>2, <1>4, <3>2, <3>4, <4>1 DEF InOrder
      <4>4. Behind(r)'
        BY <1>5, <4>2, <4>3 DEF Behind, Last, Before
      <4> QED BY <1>1, <4>1, <4>4
    <3> QED BY <1>4, <3>2, <3>3, <3>4
  <2> QED BY <2>1, <2>2
<1>9. state' = state /\ waiting' \subseteq Pending'
  BY DEF IInv, ReadPage, Pending
<1>10. pass' \in {"reading", "read"}
  BY <1>1
<1> QED BY <1>5, <1>7, <1>8, <1>9, <1>10 DEF IInv, NotPassedBy

LEMMA NextIInv == IInv /\ [Next]_vars => IInv'
<1> SUFFICES ASSUME IInv, [Next]_vars PROVE IInv'
  OBVIOUS
<1>1. ASSUME UNCHANGED <<state, queue>> PROVE IInv'
  BY <1>1 DEF queue, IInv, Pending, InOrder, NotPassedBy, Behind
<1>2. ASSUME NEW r, NEW to \in {"draft", "pending", "closed", "expired"}, Save(r, to)
      PROVE  IInv'
  BY <1>2, SaveStep
<1>3. ASSUME NEW r \in Requests, Create(r) PROVE IInv'
  BY <1>2, <1>3 DEF Create
<1>4. ASSUME NEW r \in Requests, Unlock(r) PROVE IInv'
  BY <1>1, <1>2, <1>4 DEF Unlock
<1>5. ASSUME NEW r \in Requests, Close(r) PROVE IInv'
  BY <1>2, <1>5 DEF Close
<1>6. ASSUME NEW r \in Requests, Lock(r) \/ Age(r) PROVE IInv'
  BY <1>1, <1>6 DEF Lock, Age
<1>7. ASSUME NEW u \in Uploads, Retire(u) \/ RetryDue(u) PROVE IInv'
  BY <1>1, <1>7 DEF Retire, RetryDue
<1>8. CASE ExpireNext
  BY <1>1, <1>2, <1>8 DEF ExpireNext
<1>9. CASE StartJob \/ StartCleanup \/ CleanNext \/ EndJob
  BY <1>1, <1>9 DEF StartJob, StartCleanup, CleanNext, EndJob
<1>10. CASE ReadPage
  BY <1>10, ReadPageStep
<1>11. CASE UNCHANGED vars
  BY <1>1, <1>11 DEF vars
<1> QED BY <1>3, <1>4, <1>5, <1>6, <1>7, <1>8, <1>9, <1>10, <1>11 DEF Next

-----------------------------------------------------------------------------
\* Whoever reads the queue to its end has seen, once, every submission that
\* awaited review all the while (moderation_queue_page and its cursor).
THEOREM PassIsComplete == Spec => []PassComplete
<1>1. IInv => PassComplete
  <2> SUFFICES ASSUME IInv PROVE PassComplete
    OBVIOUS
  <2>1. pass = "read" => waiting \subseteq ToSet(shown)
    BY DEF IInv, NotPassedBy
  <2> DEFINE D == 1..Len(shown)
  <2>2. shown \in [D -> ToSet(shown)] /\ Len(shown) \in Nat
    BY DEF IInv, ToSet
  <2>3. ASSUME NEW i \in D, NEW j \in D, shown[i] = shown[j] PROVE i = j
    <3>1. shown[i] \in Requests /\ DOMAIN shown = D
      BY <2>2 DEF IInv
    <3>2. ~(i < j) /\ ~(j < i)
      BY <2>3, <3>1, BeforeIsStrict DEF IInv, InOrder
    <3> QED BY <3>2
  <2>4. shown \in Injection(D, ToSet(shown))
    BY <2>2, <2>3 DEF Injection, IsInjective
  <2>5. shown \in Surjection(D, ToSet(shown))
    BY <2>2 DEF Surjection, ToSet
  <2>6. IsFiniteSet(D) /\ Cardinality(D) = Len(shown)
    <3>1. PICK n \in Nat : n = Len(shown)
      BY <2>2
    <3>2. IsFiniteSet(1..n) /\ Cardinality(1..n) = IF 1 > n THEN 0 ELSE n - 1 + 1
      BY FS_Interval
    <3> QED BY <3>1, <3>2
  <2>7. Cardinality(ToSet(shown)) = Len(shown)
    BY <2>4, <2>5, <2>6, FS_Surjection
  <2> QED BY <2>1, <2>7 DEF PassComplete
<1>2. Spec => []IInv
  BY InitIInv, NextIInv, PTL DEF Spec
<1> QED BY <1>1, <1>2, PTL
=============================================================================

------------------------ MODULE MediaIntentProofs ------------------------
(***************************************************************************)
(* Proofs about MediaIntent for any sets of calls and any bounds.  The     *)
(* inductive invariant Inv ties three things together: what calls in the   *)
(* deleting loops may touch (CallInv), what a writer that has not committed*)
(* can rely on (StoreInv), and that a key seen empty is empty still or some*)
(* writer answers for it (ClaimInv, DeletedInv, through Covered).  A step  *)
(* is one of four shapes, each with its lemma: a change of the row alone   *)
(* (RowFactsInv), a request of a writer (InspectFrame), a request of a     *)
(* deleter (DeleteInv), and a transaction of a call (TransactionFrame).    *)
(***************************************************************************)
EXTENDS MediaIntent, TLAPS

-----------------------------------------------------------------------------
\* The updates of a row and of a call are well typed

LEMMA StateType ==
    ASSUME NEW i \in IntentRow, NEW s \in State
    PROVE  [i EXCEPT !.state = s] \in IntentRow
BY DEF IntentRow, State

LEMMA ExpiredType ==
    ASSUME NEW i \in IntentRow PROVE Expired(i) \in IntentRow
BY DEF Expired, IntentRow, State

LEMMA ClaimedType ==
    ASSUME NEW i \in IntentRow, NEW c \in Calls
    PROVE  Claimed(i, c) \in IntentRow
BY DEF Claimed, IntentRow, State

LEMMA StaleClaimedType ==
    ASSUME NEW i \in IntentRow, NEW c \in Calls
    PROVE  StaleClaimed(i, c) \in IntentRow
BY DEF StaleClaimed, Claimed, IntentRow, State

LEMMA ReleasedType ==
    ASSUME NEW i \in IntentRow, NEW s \in State,
           NEW r \in {"none", "waiting", "due"}
    PROVE  /\ [Released(i) EXCEPT !.retry = r] \in IntentRow
           /\ [Released(i) EXCEPT !.retry = r, !.state = s] \in IntentRow
           /\ [Released(i) EXCEPT !.state = s, !.retry = r] \in IntentRow
BY DEF Released, IntentRow, State

LEMMA DeletedType ==
    ASSUME NEW i \in IntentRow PROVE Deleted(i) \in IntentRow
BY DEF Deleted, Released, IntentRow, State

LEMMA RetiredType ==
    ASSUME NEW i \in IntentRow PROVE Retired(i) \in IntentRow
BY ExpiredType DEF Retired

LEMMA SourceType ==
    ASSUME NEW i \in IntentRow, NEW b \in BOOLEAN,
           NEW r \in {"none", "waiting", "presign", "due"}
    PROVE  /\ [i EXCEPT !.srcRetry = r] \in IntentRow
           /\ [i EXCEPT !.srcPending = b, !.srcRetry = r] \in IntentRow
BY DEF IntentRow

LEMMA IdleType == Idle \in CallState
BY DEF Idle, CallState, Place, Kind, Objects

LEMMA AfterCallType == ASSUME NEW c PROVE AfterCall(c) \in CallState
BY DEF AfterCall, Idle, CallState, Place, Kind, Objects

LEMMA DeletingType ==
    ASSUME NEW k \in Kind, NEW o \in Objects
    PROVE  Deleting(k, o) \in CallState
BY DEF Deleting, Idle, CallState, Place, Kind, Objects

LEMMA StaleDeletingType == StaleDeleting \in CallState
BY DEF StaleDeleting, Deleting, Idle, CallState, Place, Kind, Objects

LEMMA InspectingType ==
    ASSUME NEW k \in Kind PROVE Inspecting(k) \in CallState
BY DEF Inspecting, Idle, CallState, Place, Kind, Objects

LEMMA PlaceType ==
    ASSUME NEW s \in CallState, NEW p \in Place
    PROVE  [s EXCEPT !.pc = p] \in CallState
BY DEF CallState

LEMMA SealedType ==
    ASSUME NEW s \in CallState
    PROVE  [s EXCEPT !.pc = "sealCheck", !.wrote = TRUE] \in CallState
BY DEF CallState, Place

LEMMA InspectedType ==
    ASSUME NEW s \in CallState, NEW g \in BOOLEAN, NEW w \in BOOLEAN
    PROVE  [s EXCEPT !.pc = "commit", !.good = g, !.wrote = w] \in CallState
BY DEF CallState, Place

LEMMA BecomeType ==
    ASSUME TypeOK, NEW c \in Calls, NEW s \in CallState, Become(c, s)
    PROVE  call' \in [Calls -> CallState]
BY DEF TypeOK, Become

LEMMA InspectedStep ==
    ASSUME TypeOK, NEW c \in Calls, NEW g \in BOOLEAN, NEW w \in BOOLEAN,
           Inspected(c, g, w)
    PROVE  call' \in [Calls -> CallState]
BY InspectedType DEF Inspected, Become, TypeOK

LEMMA PlaceStep ==
    ASSUME TypeOK, NEW c \in Calls, NEW p \in Place,
           Become(c, [call[c] EXCEPT !.pc = p])
    PROVE  call' \in [Calls -> CallState]
BY PlaceType DEF Become, TypeOK

LEMMA AdvanceStep ==
    ASSUME TypeOK, NEW c \in Calls, NEW b \in BOOLEAN, Advance(c, b)
    PROVE  call' \in [Calls -> CallState]
<1>1. call[c] \in CallState
  BY DEF TypeOK
<1>2. [call[c] EXCEPT !.pc = "finish", !.gone = @ /\ b] \in CallState
  BY <1>1 DEF CallState, Place
<1>3. [call[c] EXCEPT !.pc = "delete", !.gone = @ /\ b,
                      !.cursor = NextObject(call[c].cursor)] \in CallState
  BY <1>1 DEF CallState, Place, NextObject, Objects
<1> QED BY <1>2, <1>3, BecomeType DEF Advance

-----------------------------------------------------------------------------
\* Type correctness

LEMMA InitTypeOK == Init => TypeOK
<1> SUFFICES ASSUME Init PROVE TypeOK
  OBVIOUS
<1>1. NewIntent \in IntentRow
  BY DEF NewIntent, IntentRow, State
<1>2. intent \in IntentRow
  BY <1>1, StateType DEF Init, State
<1>3. call \in [Calls -> CallState]
  BY IdleType DEF Init
<1>4. store \in [Objects -> Content]
  BY DEF Init, Content
<1>5. image \in BOOLEAN /\ overdue \in BOOLEAN
  BY BoundsAssumption DEF Init
<1>6. faults \in 0..MaxFaults /\ crashes \in 0..MaxCrashes
  BY BoundsAssumption DEF Init
<1> QED BY <1>2, <1>3, <1>4, <1>5, <1>6 DEF Init, TypeOK, SubmissionState

LEMMA RowOnlyTypeOK ==
    TypeOK /\ (OwnerStep \/ SubmissionStep \/ Expire \/ Time) => TypeOK'
<1> SUFFICES ASSUME TypeOK, OwnerStep \/ SubmissionStep \/ Expire \/ Time
             PROVE  TypeOK'
  OBVIOUS
<1> USE DEF TypeOK, RowStep
<1>1. CASE IssueUpload
  BY <1>1, ExpiredType, StateType DEF IssueUpload, State
<1>2. CASE Attach
  BY <1>2, ExpiredType, StateType DEF Attach, State
<1>3. CASE Remove
  BY <1>3, ExpiredType DEF Remove
<1>4. CASE ClientPut
  BY <1>4 DEF ClientPut, rows, Objects, Content
<1>5. CASE Finalize
  BY <1>5 DEF Finalize, SubmissionState
<1>6. CASE Withdraw
  BY <1>6, RetiredType DEF Withdraw, SubmissionState
<1>7. CASE ExpireDraft
  <2>1. [Expired(intent) EXCEPT !.retry = "none", !.srcPending = FALSE,
                                !.srcRetry = "none"] \in IntentRow
    BY DEF Expired, IntentRow, State
  <2> QED BY <1>7, <2>1 DEF ExpireDraft, SubmissionState
<1>8. CASE Revoke
  BY <1>8, ExpiredType DEF Revoke
<1>9. CASE SetActive
  BY <1>9 DEF SetActive
<1>10. CASE Expire
  BY <1>10, ExpiredType DEF Expire
<1>11. CASE PresignExpires
  BY <1>11, SourceType DEF PresignExpires
<1>12. CASE IntentOverdue
  BY <1>12 DEF IntentOverdue
<1>13. CASE LeaseExpires
  <2>1. [intent EXCEPT !.lease = "over"] \in IntentRow
    BY DEF IntentRow
  <2> QED BY <1>13, <2>1 DEF LeaseExpires, TimePasses
<1>14. CASE RetryDue
  <2>1. [intent EXCEPT !.retry = "due"] \in IntentRow
    BY DEF IntentRow
  <2> QED BY <1>14, <2>1 DEF RetryDue, TimePasses
<1>15. CASE SourceRetryDue
  BY <1>15, SourceType DEF SourceRetryDue, TimePasses
<1> QED BY <1>1, <1>2, <1>3, <1>4, <1>5, <1>6, <1>7, <1>8, <1>9, <1>10,
           <1>11, <1>12, <1>13, <1>14, <1>15
        DEF OwnerStep, SubmissionStep, Time

LEMMA StartTypeOK ==
    ASSUME TypeOK,
           \/ \E v \in Verifiers : StartVerify(v)
           \/ \E a \in Approvers : StartApprove(a)
           \/ \E o \in Owners : StartOwnerCleanup(o)
           \/ \E s \in Sweepers : ClaimCleanup(s) \/ ClaimSource(s)
    PROVE  TypeOK'
<1> USE DEF TypeOK
<1>1. ASSUME NEW v \in Verifiers, StartVerify(v) PROVE TypeOK'
  <2>1. intent' \in IntentRow
    BY <1>1, ExpiredType DEF StartVerify
  <2>2. call' \in [Calls -> CallState]
    BY <1>1, BecomeType, InspectingType DEF StartVerify, Calls, Kind
  <2>3. recorded' \subseteq {KeyOf[c] : c \in Verifiers \cup Owners}
    BY <1>1 DEF StartVerify
  <2> QED BY <1>1, <2>1, <2>2, <2>3 DEF StartVerify
<1>2. ASSUME NEW a \in Approvers, StartApprove(a) PROVE TypeOK'
  <2>1. [Idle EXCEPT !.pc = "backfill"] \in CallState
    BY IdleType, PlaceType DEF Place
  <2> QED BY <1>2, <2>1, BecomeType DEF StartApprove, Calls, rows
<1>3. ASSUME NEW o \in Owners, StartOwnerCleanup(o) PROVE TypeOK'
  <2>1. o \in Calls
    BY DEF Calls
  <2>2. intent' \in IntentRow
    BY <1>3, <2>1, ClaimedType DEF StartOwnerCleanup
  <2>3. call' \in [Calls -> CallState]
    BY <1>3, <2>1, BecomeType, DeletingType
    DEF StartOwnerCleanup, Kind, Objects
  <2>4. recorded' \subseteq {KeyOf[c] : c \in Verifiers \cup Owners}
    BY <1>3 DEF StartOwnerCleanup
  <2> QED BY <1>3, <2>2, <2>3, <2>4 DEF StartOwnerCleanup
<1>4. ASSUME NEW s \in Sweepers, ClaimCleanup(s) PROVE TypeOK'
  <2>1. s \in Calls
    BY DEF Calls
  <2> QED BY <1>4, <2>1, ClaimedType, BecomeType, DeletingType
          DEF ClaimCleanup, Kind, Objects
<1>5. ASSUME NEW s \in Sweepers, ClaimSource(s) PROVE TypeOK'
  <2>1. s \in Calls
    BY DEF Calls
  <2> QED BY <1>5, <2>1, SourceType, BecomeType, DeletingType
          DEF ClaimSource, Kind, Objects
<1> QED BY <1>1, <1>2, <1>3, <1>4, <1>5

LEMMA FaultType ==
    ASSUME TypeOK, Fault \/ UNCHANGED faults PROVE faults' \in 0..MaxFaults
BY BoundsAssumption DEF TypeOK, Fault

\* What every storage request leaves alone.
LEMMA StorageStep ==
    ASSUME TypeOK, UNCHANGED <<rows, crashes>>, stray' \in BOOLEAN,
           faults' \in 0..MaxFaults, store' \in [Objects -> Content],
           call' \in [Calls -> CallState]
    PROVE  TypeOK'
BY DEF TypeOK, rows

LEMMA StorageTypeOK ==
    ASSUME TypeOK, NEW c \in Calls, Inspect(c) \/ Delete(c)
    PROVE  TypeOK'
<1>1. /\ call[c] \in CallState
      /\ store \in [Objects -> Content]
      /\ stray \in BOOLEAN
  BY DEF TypeOK
<1>2. CASE ReadSource(c)
  <2>1. call' \in [Calls -> CallState]
    BY <1>2, InspectedStep, PlaceStep DEF ReadSource, Place
  <2>2. store' \in [Objects -> Content]
    BY <1>1, <1>2 DEF ReadSource
  <2>3. faults' \in 0..MaxFaults
    <3>1. Fault \/ UNCHANGED faults
      BY <1>2 DEF ReadSource
    <3> QED BY <3>1, FaultType
  <2>4. UNCHANGED <<rows, crashes>> /\ stray' \in BOOLEAN
    BY <1>1, <1>2 DEF ReadSource
  <2> QED BY <2>1, <2>2, <2>3, <2>4, StorageStep
<1>3. CASE Seal(c)
  <2>1. call' \in [Calls -> CallState]
    BY <1>3, <1>1, InspectedStep, SealedType, BecomeType DEF Seal
  <2>2. store' \in [Objects -> Content]
    BY <1>1, <1>3 DEF Seal, Holding, Content
  <2>3. faults' \in 0..MaxFaults
    <3>1. Fault \/ UNCHANGED faults
      BY <1>3 DEF Seal
    <3> QED BY <3>1, FaultType
  <2>4. UNCHANGED <<rows, crashes>> /\ stray' \in BOOLEAN
    BY <1>1, <1>3 DEF Seal
  <2> QED BY <2>1, <2>2, <2>3, <2>4, StorageStep
<1>4. CASE CheckSealed(c)
  <2>1. call' \in [Calls -> CallState]
    BY <1>4, InspectedStep, PlaceStep DEF CheckSealed, Place
  <2>2. store' \in [Objects -> Content]
    BY <1>1, <1>4 DEF CheckSealed
  <2>3. faults' \in 0..MaxFaults
    <3>1. Fault \/ UNCHANGED faults
      BY <1>4 DEF CheckSealed
    <3> QED BY <3>1, FaultType
  <2>4. UNCHANGED <<rows, crashes>> /\ stray' \in BOOLEAN
    BY <1>1, <1>4 DEF CheckSealed
  <2> QED BY <2>1, <2>2, <2>3, <2>4, StorageStep
<1>5. CASE Render(c)
  <2>1. call' \in [Calls -> CallState]
    BY <1>5, InspectedStep, PlaceStep DEF Render, Place
  <2>2. store' \in [Objects -> Content]
    BY <1>1, <1>5 DEF Render, Holding, Content
  <2>3. faults' \in 0..MaxFaults
    <3>1. Fault \/ UNCHANGED faults
      BY <1>5 DEF Render
    <3> QED BY <3>1, FaultType
  <2>4. UNCHANGED <<rows, crashes>> /\ stray' \in BOOLEAN
    BY <1>1, <1>5 DEF Render
  <2> QED BY <2>1, <2>2, <2>3, <2>4, StorageStep
<1>6. CASE CheckRendition(c)
  <2>1. call' \in [Calls -> CallState]
    BY <1>6, InspectedStep DEF CheckRendition
  <2>2. store' \in [Objects -> Content]
    BY <1>1, <1>6 DEF CheckRendition
  <2>3. faults' \in 0..MaxFaults
    <3>1. Fault \/ UNCHANGED faults
      BY <1>6 DEF CheckRendition
    <3> QED BY <3>1, FaultType
  <2>4. UNCHANGED <<rows, crashes>> /\ stray' \in BOOLEAN
    BY <1>1, <1>6 DEF CheckRendition
  <2> QED BY <2>1, <2>2, <2>3, <2>4, StorageStep
<1>7. CASE DeleteObject(c)
  <2>1. call' \in [Calls -> CallState]
    BY <1>7, AdvanceStep, PlaceStep DEF DeleteObject, Place
  <2>2. store' \in [Objects -> Content]
    BY <1>1, <1>7 DEF DeleteObject, Erasing, Content
  <2>3. faults' \in 0..MaxFaults
    <3>1. Fault \/ UNCHANGED faults
      BY <1>7 DEF DeleteObject
    <3> QED BY <3>1, FaultType
  <2>4. UNCHANGED <<rows, crashes>> /\ stray' \in BOOLEAN
    BY <1>1, <1>7 DEF DeleteObject
  <2> QED BY <2>1, <2>2, <2>3, <2>4, StorageStep
<1>8. CASE CheckAbsent(c)
  <2>1. call' \in [Calls -> CallState]
    BY <1>8, AdvanceStep DEF CheckAbsent
  <2>2. store' \in [Objects -> Content]
    BY <1>1, <1>8 DEF CheckAbsent
  <2>3. faults' \in 0..MaxFaults
    <3>1. Fault \/ UNCHANGED faults
      BY <1>8 DEF CheckAbsent
    <3> QED BY <3>1, FaultType
  <2>4. UNCHANGED <<rows, crashes>> /\ stray' \in BOOLEAN
    BY <1>1, <1>8 DEF CheckAbsent
  <2> QED BY <2>1, <2>2, <2>3, <2>4, StorageStep
<1> QED BY <1>2, <1>3, <1>4, <1>5, <1>6, <1>7, <1>8 DEF Inspect, Delete

LEMMA FinishTypeOK ==
    ASSUME TypeOK, NEW c \in Calls,
           \/ FinishStale(c) \/ FinishSource(c)
           \/ c \in Verifiers /\ Verify(c)
           \/ c \in Approvers /\ Approve(c)
           \/ c \in Owners /\ FinishOwnerCleanup(c)
           \/ c \in Sweepers /\ FinishCleanup(c)
    PROVE  TypeOK'
<1> USE DEF TypeOK
<1>1. CASE FinishStale(c)
  <2>1. intent' \in IntentRow
    BY <1>1, ReleasedType DEF FinishStale, State
  <2> QED BY <1>1, <2>1, AfterCallType, BecomeType DEF FinishStale, FinishStep
<1>2. CASE FinishSource(c)
  <2>1. intent' \in IntentRow
    BY <1>2, SourceType DEF FinishSource
  <2> QED BY <1>2, <2>1, AfterCallType, BecomeType DEF FinishSource, FinishStep
<1>3. ASSUME c \in Verifiers, Verify(c) PROVE TypeOK'
  <2>1. recorded' \subseteq {KeyOf[d] : d \in Verifiers \cup Owners}
    BY <1>3 DEF Verify, VerifyLost, VerifyFailed, VerifySucceeded
  <2>2. call' \in [Calls -> CallState]
    BY <1>3, IdleType, StaleDeletingType, DeletingType, BecomeType
    DEF Verify, VerifyLost, VerifyFailed, VerifySucceeded, Kind, Objects
  <2>3. intent' \in IntentRow
    <3>1. [intent EXCEPT !.state = "verified", !.rendered = TRUE,
                         !.srcPending = TRUE] \in IntentRow
      BY DEF IntentRow, State
    <3> QED BY <1>3, <3>1, StaleClaimedType, StateType
            DEF Verify, VerifyLost, VerifyFailed, VerifySucceeded, State
  <2> QED BY <1>3, <2>1, <2>2, <2>3
          DEF Verify, VerifyLost, VerifyFailed, VerifySucceeded, CommitStep
<1>4. ASSUME c \in Approvers, Approve(c) PROVE TypeOK'
  <2>1. call' \in [Calls -> CallState]
    BY <1>4, AfterCallType, IdleType, StaleDeletingType, InspectingType,
       BecomeType
    DEF Approve, ClaimBackfill, FinishBackfill, FinishApprove, Kind
  <2>2. intent' \in IntentRow
    <3>1. [intent EXCEPT !.rendered = TRUE] \in IntentRow
      BY DEF IntentRow
    <3> QED BY <1>4, <3>1, StaleClaimedType
            DEF Approve, ClaimBackfill, FinishBackfill, FinishApprove, rows
  <2> QED BY <1>4, <2>1, <2>2
          DEF Approve, ClaimBackfill, FinishBackfill, FinishApprove, rows,
              SubmissionState
<1>5. ASSUME c \in Owners, FinishOwnerCleanup(c) PROVE TypeOK'
  <2>1. intent' \in IntentRow
    BY <1>5, DeletedType, ReleasedType DEF FinishOwnerCleanup, State
  <2>2. recorded' \subseteq {KeyOf[d] : d \in Verifiers \cup Owners}
    BY <1>5 DEF FinishOwnerCleanup
  <2> QED BY <1>5, <2>1, <2>2, AfterCallType, BecomeType
          DEF FinishOwnerCleanup, FinishStep
<1>6. CASE FinishCleanup(c)
  <2>1. intent' \in IntentRow
    BY <1>6, DeletedType, ReleasedType DEF FinishCleanup, State
  <2> QED BY <1>6, <2>1, AfterCallType, BecomeType
          DEF FinishCleanup, FinishStep
<1> QED BY <1>1, <1>2, <1>3, <1>4, <1>5, <1>6

LEMMA CrashTypeOK ==
    ASSUME TypeOK, NEW c \in Calls, Crash(c) PROVE TypeOK'
<1>1. call[c].wrote \in BOOLEAN
  BY DEF TypeOK, CallState
<1> QED BY <1>1, IdleType, BecomeType, BoundsAssumption
        DEF Crash, TypeOK, rows

LEMMA NextTypeOK == TypeOK /\ [Next]_vars => TypeOK'
<1> SUFFICES ASSUME TypeOK, [Next]_vars PROVE TypeOK'
  OBVIOUS
<1>1. ASSUME NEW c \in Calls, Proceed(c) PROVE TypeOK'
  BY <1>1, StorageTypeOK, FinishTypeOK DEF Proceed
<1>2. CASE UNCHANGED vars
  BY <1>2 DEF vars, rows, TypeOK
<1> QED BY <1>1, <1>2, RowOnlyTypeOK, StartTypeOK, CrashTypeOK DEF Next

\* Every reachable state is well typed, for any calls and bounds.
THEOREM TypeCorrect == Spec => []TypeOK
BY InitTypeOK, NextTypeOK, PTL DEF Spec

-----------------------------------------------------------------------------
\* The inductive invariant

Gone == intent.state \in {"cleanup_pending", "deleted"}
Kept == intent.state \in {"verified", "attached"}

\* A call in one of the loops that delete, and one that answers for what it
\* may have written.
Deletes(c) == call[c].pc \in {"delete", "check", "finish"}
Owes(c) == /\ call[c].pc \in {"sealCheck", "render", "renderCheck", "commit"}
           /\ call[c].wrote

\* A key is empty, or a call will see to it, or died before it could.
Covered(o) == store[o] = "absent" \/ stray \/ \E c \in Calls : Owes(c)

\* More than a source is deleted only once the intent is given up, and a call
\* knows from its first write on that it wrote.
CallInv == \A c \in Calls :
    /\ Deletes(c) => IF call[c].kind = "source"
                     THEN call[c].cursor = "upload" /\ intent.token # c
                     ELSE Gone
    /\ call[c].pc \in {"sealCheck", "render", "renderCheck"} => call[c].wrote

\* Until then what calls have written stays.
StoreInv == ~Gone => \A c \in Calls :
    /\ call[c].pc \in {"sealCheck", "render", "renderCheck"}
           => store["sealed"] = "good"
    /\ call[c].pc = "renderCheck" => store["rendition"] = "good"
    /\ call[c].pc = "commit" /\ call[c].good
           => store["sealed"] = "good" /\ store["rendition"] = "good"

\* What the state of the submission says of its attachment.
SubmissionInv ==
    /\ submission = "closed" => Gone
    /\ submission = "approved" /\ image => intent.rendered
    /\ SourceWatched

\* What the holder of the claim has seen absent is covered.
ClaimInv == \A c \in Calls :
    Deletes(c) /\ intent.token = c /\ call[c].gone =>
        /\ call[c].pc = "finish" => Covered("sealed") /\ Covered("rendition")
        /\ call[c].cursor = "rendition" => Covered("sealed")
DeletedInv ==
    intent.state = "deleted" => Covered("sealed") /\ Covered("rendition")

Inv == /\ TypeOK
       /\ RowConsistent
       /\ CallInv
       /\ StoreInv
       /\ KeptObjectsPresent
       /\ SubmissionInv
       /\ ClaimInv
       /\ DeletedInv

LEMMA InitInv == Init => Inv
<1> SUFFICES ASSUME Init PROVE Inv
  OBVIOUS
<1>1. TypeOK
  BY InitTypeOK
<1>2. intent = IF Legacy THEN [NewIntent EXCEPT !.state = "attached"]
                         ELSE NewIntent
  BY DEF Init
<1>3. /\ intent.state = IF Legacy THEN "attached" ELSE "created"
      /\ intent.token = NoToken /\ intent.lease = "none"
      /\ intent.rendered = FALSE
  BY <1>2 DEF NewIntent
<1>4. RowConsistent /\ KeptObjectsPresent /\ SubmissionInv /\ DeletedInv
  BY <1>3, BoundsAssumption
  DEF Init, RowConsistent, KeptObjectsPresent, SubmissionInv, DeletedInv,
      SourceWatched, Gone, Objects
<1>5. \A c \in Calls : call[c].pc = "idle"
  BY DEF Init, Idle
<1>6. CallInv /\ StoreInv /\ ClaimInv
  BY <1>5 DEF CallInv, StoreInv, ClaimInv, Deletes
<1> QED BY <1>1, <1>4, <1>6 DEF Inv

-----------------------------------------------------------------------------
\* Steps of the row alone

\* What a step that leaves the sealed object alone does to the intent.
PhaseStep ==
    /\ store'["sealed"] = store["sealed"]
    /\ Gone => Gone'
    /\ Kept => Kept' \/ Gone'
    /\ Kept' => Kept \/ store["sealed"] = "good"
    /\ intent'.state = "deleted" => Gone

\* What such a step makes of the row and of the submission.
RowFacts ==
    /\ RowConsistent'
    /\ SubmissionInv'
    /\ Gone => Gone'
    /\ Kept => Kept' \/ Gone'
    /\ Kept' => Kept /\ intent'.rendered = intent.rendered
    /\ intent'.state = "deleted" => intent.state = "deleted"
    /\ intent'.token \in {intent.token, NoToken}

LEMMA RowFactsInv ==
    ASSUME Inv, TypeOK', RowFacts, UNCHANGED <<call, stray>>,
           store'["sealed"] = store["sealed"],
           store'["rendition"] = store["rendition"]
    PROVE  Inv' /\ PhaseStep
<1>1. NoToken \notin Calls
  BY CallsAssumption
<1>2. \A c \in Calls : Deletes(c)' = Deletes(c) /\ Owes(c)' = Owes(c)
  BY DEF Deletes, Owes
<1>3. Covered("sealed")' = Covered("sealed")
      /\ Covered("rendition")' = Covered("rendition")
  BY <1>2 DEF Covered
<1>4. CallInv'
  BY <1>1, <1>2 DEF Inv, CallInv, RowFacts, Gone
<1>5. StoreInv'
  BY DEF Inv, StoreInv, RowFacts
<1>6. KeptObjectsPresent'
  BY DEF Inv, KeptObjectsPresent, RowFacts, Kept
<1>7. ClaimInv' /\ DeletedInv'
  BY <1>1, <1>2, <1>3 DEF Inv, ClaimInv, DeletedInv, RowFacts
<1>8. PhaseStep
  BY DEF RowFacts, PhaseStep, Gone
<1> QED BY <1>4, <1>5, <1>6, <1>7, <1>8 DEF Inv, RowFacts

\* The columns of a row that is given up.
LEMMA ExpiredRow ==
    ASSUME NEW i \in IntentRow
    PROVE  /\ Expired(i).state = "cleanup_pending"
           /\ Expired(i).token = NoToken /\ Expired(i).lease = "none"
           /\ Expired(i).rendered = i.rendered
BY DEF Expired, IntentRow

LEMMA GivenUpFacts ==
    ASSUME Inv, intent.state \notin {"deleted", "cleanup_pending"},
           intent' = Expired(intent), image' = FALSE
    PROVE  RowFacts
<1>1. intent \in IntentRow
  BY DEF Inv, TypeOK
<1>2. /\ intent'.state = "cleanup_pending"
      /\ intent'.token = NoToken /\ intent'.lease = "none"
  BY <1>1, ExpiredRow
<1> QED BY <1>2 DEF RowFacts, RowConsistent, SubmissionInv, SourceWatched,
                    Gone, Kept

LEMMA RowOnlyInv ==
    ASSUME Inv, OwnerStep \/ SubmissionStep \/ Expire \/ Time PROVE Inv' /\ PhaseStep
<1>1. TypeOK'
  BY RowOnlyTypeOK DEF Inv
<1>2. /\ intent \in IntentRow
      /\ store \in [Objects -> Content]
      /\ image \in BOOLEAN
  BY DEF Inv, TypeOK
<1>3. /\ image <=> intent.state = "attached"
      /\ intent.token # NoToken <=> intent.lease # "none"
      /\ intent.token # NoToken => intent.state = "cleanup_pending"
  BY DEF Inv, RowConsistent
<1>4. SubmissionInv
  BY DEF Inv
<1> USE DEF RowStep
<1>5. CASE IssueUpload
  <2>1. CASE overdue
    <3>1. RowFacts
      BY <1>2, <1>3, <1>5, <2>1, GivenUpFacts DEF IssueUpload
    <3> QED BY <1>1, <1>5, <3>1, RowFactsInv DEF IssueUpload
  <2>2. CASE ~overdue
    <3>1. intent' = [intent EXCEPT !.state = "issued"]
      BY <1>5, <2>2 DEF IssueUpload
    <3>2. RowFacts
      BY <1>2, <1>3, <1>4, <1>5, <3>1
      DEF IssueUpload, RowFacts, RowConsistent, SubmissionInv, SourceWatched,
          Gone, Kept, IntentRow
    <3> QED BY <1>1, <1>5, <3>2, RowFactsInv DEF IssueUpload
  <2> QED BY <2>1, <2>2
<1>6. CASE Attach
  <2>1. CASE overdue
    <3>1. RowFacts
      BY <1>2, <1>3, <1>6, <2>1, GivenUpFacts DEF Attach
    <3> QED BY <1>1, <1>6, <3>1, RowFactsInv DEF Attach
  <2>2. CASE ~overdue
    <3>1. intent' = [intent EXCEPT !.state = "attached"] /\ image' = TRUE
      BY <1>6, <2>2 DEF Attach
    <3>2. RowFacts
      BY <1>2, <1>3, <1>4, <1>6, <3>1
      DEF Attach, RowFacts, RowConsistent, SubmissionInv, SourceWatched,
          Gone, Kept, IntentRow
    <3> QED BY <1>1, <1>6, <3>2, RowFactsInv DEF Attach
  <2> QED BY <2>1, <2>2
<1>7. CASE Remove
  <2>1. RowFacts
    BY <1>7, GivenUpFacts DEF Remove
  <2> QED BY <1>1, <1>7, <2>1, RowFactsInv DEF Remove
<1>8. CASE ClientPut
  <2>1. RowFacts
    BY <1>3, <1>4, <1>8
    DEF ClientPut, rows, RowFacts, RowConsistent, SubmissionInv,
        SourceWatched, Gone, Kept
  <2> QED BY <1>1, <1>2, <1>8, <2>1, RowFactsInv DEF ClientPut, Objects
<1>9. CASE Finalize
  <2>1. RowFacts
    BY <1>3, <1>4, <1>9
    DEF Finalize, RowFacts, RowConsistent, SubmissionInv, SourceWatched,
        Gone, Kept
  <2> QED BY <1>1, <1>9, <2>1, RowFactsInv DEF Finalize
<1>10. CASE Withdraw
  <2>1. RowFacts
    <3>1. CASE Gone
      BY <1>3, <1>4, <1>10, <3>1
      DEF Withdraw, Retired, RowFacts, RowConsistent, SubmissionInv,
          SourceWatched, Gone, Kept
    <3>2. CASE ~Gone
      BY <1>10, <3>2, GivenUpFacts DEF Withdraw, Retired, Gone
    <3> QED BY <3>1, <3>2
  <2> QED BY <1>1, <1>10, <2>1, RowFactsInv DEF Withdraw
<1>11. CASE ExpireDraft
  <2>1. RowFacts
    <3>1. CASE Gone
      BY <1>3, <1>4, <1>11, <3>1
      DEF ExpireDraft, RowFacts, RowConsistent, SubmissionInv,
          SourceWatched, Gone, Kept
    <3>2. CASE ~Gone
      <4>1. intent' = [Expired(intent) EXCEPT !.retry = "none",
                           !.srcPending = FALSE, !.srcRetry = "none"]
        BY <1>11, <3>2 DEF ExpireDraft, Gone
      <4>2. /\ intent'.state = "cleanup_pending"
            /\ intent'.token = NoToken /\ intent'.lease = "none"
        BY <1>2, <4>1 DEF Expired, IntentRow
      <4> QED BY <1>11, <4>2
              DEF ExpireDraft, RowFacts, RowConsistent, SubmissionInv,
                  SourceWatched, Gone, Kept
    <3> QED BY <3>1, <3>2
  <2> QED BY <1>1, <1>11, <2>1, RowFactsInv DEF ExpireDraft
<1>12. CASE Revoke
  <2>1. RowFacts
    BY <1>12, GivenUpFacts DEF Revoke
  <2> QED BY <1>1, <1>12, <2>1, RowFactsInv DEF Revoke
<1>13. CASE SetActive
  <2>1. RowFacts
    BY <1>3, <1>4, <1>13
    DEF SetActive, RowFacts, RowConsistent, SubmissionInv, SourceWatched,
        Gone, Kept
  <2> QED BY <1>1, <1>13, <2>1, RowFactsInv DEF SetActive
<1>14. CASE Expire
  <2>1. RowFacts
    BY <1>2, <1>3, <1>14, GivenUpFacts DEF Expire
  <2> QED BY <1>1, <1>14, <2>1, RowFactsInv DEF Expire
<1>15. CASE PresignExpires \/ SourceRetryDue
  <2>1. /\ intent'.state = intent.state /\ intent'.token = intent.token
        /\ intent'.lease = intent.lease /\ intent'.rendered = intent.rendered
        /\ intent'.srcPending = intent.srcPending
    BY <1>2, <1>15
    DEF PresignExpires, SourceRetryDue, TimePasses, IntentRow
  <2>2. RowFacts
    BY <1>3, <1>4, <1>15, <2>1
    DEF PresignExpires, SourceRetryDue, TimePasses, RowFacts, RowConsistent,
        SubmissionInv, SourceWatched, Gone, Kept
  <2> QED BY <1>1, <1>15, <2>2, RowFactsInv
          DEF PresignExpires, SourceRetryDue, TimePasses
<1>16. CASE IntentOverdue
  <2>1. RowFacts
    BY <1>3, <1>4, <1>16
    DEF IntentOverdue, RowFacts, RowConsistent, SubmissionInv, SourceWatched,
        Gone, Kept
  <2> QED BY <1>1, <1>16, <2>1, RowFactsInv DEF IntentOverdue
<1>17. CASE LeaseExpires \/ RetryDue
  <2>1. /\ intent'.state = intent.state /\ intent'.token = intent.token
        /\ intent'.lease # "none" <=> intent.lease # "none"
        /\ intent'.rendered = intent.rendered
        /\ intent'.srcPending = intent.srcPending
    BY <1>2, <1>17 DEF LeaseExpires, RetryDue, TimePasses, IntentRow
  <2>2. RowFacts
    BY <1>3, <1>4, <1>17, <2>1
    DEF LeaseExpires, RetryDue, TimePasses, RowFacts, RowConsistent,
        SubmissionInv, SourceWatched, Gone, Kept
  <2> QED BY <1>1, <1>17, <2>2, RowFactsInv
          DEF LeaseExpires, RetryDue, TimePasses
<1> QED BY <1>5, <1>6, <1>7, <1>8, <1>9, <1>10, <1>11, <1>12, <1>13, <1>14,
           <1>15, <1>16, <1>17
        DEF OwnerStep, SubmissionStep, Time

-----------------------------------------------------------------------------
\* Steps of a call

LEMMA OneCall ==
    ASSUME TypeOK, NEW c \in Calls, NEW s, Become(c, s)
    PROVE  /\ call'[c] = s
           /\ \A d \in Calls \ {c} :
                  /\ call'[d] = call[d]
                  /\ Deletes(d)' = Deletes(d) /\ Owes(d)' = Owes(d)
BY DEF TypeOK, Become, Deletes, Owes

\* A key stays covered by a step that does not write it and leaves no call's
\* debt behind.
LEMMA CoveredKept ==
    ASSUME TypeOK, NEW c \in Calls, NEW s, Become(c, s), NEW o,
           Covered(o), store'[o] \in {store[o], "absent"} \/ Owes(c)' \/ stray',
           stray => stray', Owes(c) => Owes(c)' \/ stray'
    PROVE  Covered(o)'
<1>1. CASE \E d \in Calls : Owes(d)
  <2>1. PICK d \in Calls : Owes(d)
    BY <1>1
  <2>2. Owes(d)' \/ stray'
    BY <2>1, OneCall
  <2> QED BY <2>2 DEF Covered
<1>2. CASE ~\E d \in Calls : Owes(d)
  BY <1>2 DEF Covered
<1> QED BY <1>1, <1>2

\* A request of inspect_uploaded_object: it may write, and what it has written
\* is answered for.
LEMMA InspectFrame ==
    ASSUME Inv, TypeOK', NEW c \in Calls, NEW s, Become(c, s), UNCHANGED rows,
           ~Deletes(c), s.pc \notin {"delete", "check", "finish"},
           \A o \in {"sealed", "rendition"} :
               \/ store'[o] = store[o]
               \/ store'[o] = "good" /\ (Owes(c)' \/ stray'),
           stray => stray', Owes(c) => Owes(c)',
           s.pc \in {"sealCheck", "render", "renderCheck"} => s.wrote,
           ~Gone /\ s.pc \in {"sealCheck", "render", "renderCheck"}
               => store'["sealed"] = "good",
           ~Gone /\ s.pc = "renderCheck" => store'["rendition"] = "good",
           ~Gone /\ s.pc = "commit" /\ s.good
               => store'["sealed"] = "good" /\ store'["rendition"] = "good"
    PROVE  Inv'
<1>1. /\ call'[c] = s
      /\ \A d \in Calls \ {c} :
             /\ call'[d] = call[d]
             /\ Deletes(d)' = Deletes(d) /\ Owes(d)' = Owes(d)
  BY OneCall DEF Inv
<1>2. ~Deletes(c)'
  BY <1>1 DEF Deletes
<1>3. \A o \in {"sealed", "rendition"} : Covered(o) => Covered(o)'
  BY CoveredKept DEF Inv
<1>4. UNCHANGED <<intent, image, submission, presign>> /\ Gone' = Gone
  BY DEF rows, Gone
<1>5. RowConsistent' /\ SubmissionInv'
  BY <1>4 DEF Inv, RowConsistent, SubmissionInv, SourceWatched
<1>6. CallInv'
  BY <1>1, <1>2, <1>4 DEF Inv, CallInv
<1>7. StoreInv'
  BY <1>1, <1>4 DEF Inv, StoreInv
<1>8. KeptObjectsPresent'
  BY <1>4 DEF Inv, KeptObjectsPresent
<1>9. ClaimInv' /\ DeletedInv'
  BY <1>1, <1>2, <1>3, <1>4 DEF Inv, ClaimInv, DeletedInv
<1> QED BY <1>5, <1>6, <1>7, <1>8, <1>9 DEF Inv

LEMMA InspectInv ==
    ASSUME Inv, NEW c \in Calls, Inspect(c) PROVE Inv'
<1>1. TypeOK'
  BY StorageTypeOK DEF Inv
<1>2. /\ call[c] \in CallState /\ store \in [Objects -> Content]
      /\ "sealed" \in Objects /\ "rendition" \in Objects
  BY DEF Inv, TypeOK, Objects
<1>3. ~Gone => /\ call[c].pc \in {"sealCheck", "render", "renderCheck"}
                      => store["sealed"] = "good"
               /\ call[c].pc = "renderCheck" => store["rendition"] = "good"
  BY DEF Inv, StoreInv
<1>4. call[c].pc \in {"sealCheck", "render", "renderCheck"} => call[c].wrote
  BY DEF Inv, CallInv
<1>5. UNCHANGED rows
  BY DEF Inspect, ReadSource, Seal, CheckSealed, Render, CheckRendition
<1>6. ASSUME NEW s, Become(c, s) PROVE call'[c] = s
  BY <1>6, OneCall DEF Inv
<1>7. CASE ReadSource(c)
  <2>1. PICK s : /\ Become(c, s)
                 /\ \/ s = [call[c] EXCEPT !.pc = "seal"]
                    \/ s = [call[c] EXCEPT !.pc = "commit", !.good = FALSE,
                                           !.wrote = FALSE]
    BY <1>7 DEF ReadSource, Inspected
  <2>2. s.pc = "seal" \/ (s.pc = "commit" /\ s.good = FALSE)
    BY <1>2, <2>1 DEF CallState
  <2>3. call[c].pc = "read" /\ UNCHANGED <<store, stray>>
    BY <1>7 DEF ReadSource, At
  <2> QED BY <1>1, <1>5, <2>1, <2>2, <2>3, InspectFrame DEF Deletes, Owes
<1>8. CASE Seal(c)
  <2>1. PICK s :
            /\ Become(c, s)
            /\ \/ /\ s = [call[c] EXCEPT !.pc = "sealCheck", !.wrote = TRUE]
                  /\ Holding("sealed") /\ UNCHANGED stray
               \/ /\ s = [call[c] EXCEPT !.pc = "commit", !.good = FALSE,
                                         !.wrote = FALSE]
                  /\ \/ UNCHANGED <<store, stray>>
                     \/ Holding("sealed") /\ stray' = TRUE
    BY <1>8 DEF Seal, Inspected
  <2>2. \/ s.pc = "sealCheck" /\ s.wrote = TRUE
        \/ s.pc = "commit" /\ s.good = FALSE
    BY <1>2, <2>1 DEF CallState
  <2>3. s.pc = "sealCheck" => Owes(c)' /\ store'["sealed"] = "good"
    BY <1>2, <1>6, <2>1, <2>2 DEF Holding, Owes, CallState
  <2>4. \A o \in {"sealed", "rendition"} :
            \/ store'[o] = store[o]
            \/ store'[o] = "good" /\ (Owes(c)' \/ stray')
    <3>1. CASE UNCHANGED <<store, stray>>
      BY <3>1
    <3>2. CASE Holding("sealed") /\ stray' = TRUE
      BY <1>2, <3>2 DEF Holding
    <3>3. CASE s = [call[c] EXCEPT !.pc = "sealCheck", !.wrote = TRUE]
               /\ Holding("sealed")
      <4>1. s.pc = "sealCheck"
        BY <1>2, <3>3 DEF CallState
      <4> QED BY <1>2, <2>3, <3>3, <4>1 DEF Holding
    <3> QED BY <2>1, <3>1, <3>2, <3>3
  <2>5. call[c].pc = "seal" /\ (stray => stray')
    BY <1>8, <2>1 DEF Seal, At
  <2> QED BY <1>1, <1>5, <2>1, <2>2, <2>3, <2>4, <2>5, InspectFrame
          DEF Deletes, Owes
<1>9. CASE CheckSealed(c)
  <2>1. PICK s :
            /\ Become(c, s)
            /\ \/ s = [call[c] EXCEPT !.pc = "render"]
               \/ s = [call[c] EXCEPT !.pc = "commit", !.good = FALSE,
                                      !.wrote = TRUE]
    BY <1>9 DEF CheckSealed, Inspected
  <2>2. call[c].pc = "sealCheck" /\ UNCHANGED <<store, stray>>
    BY <1>9 DEF CheckSealed, At
  <2>3. /\ s.pc = "render" \/ (s.pc = "commit" /\ s.good = FALSE)
        /\ s.wrote = TRUE
    BY <1>2, <1>4, <2>1, <2>2 DEF CallState
  <2>4. Owes(c)'
    BY <1>6, <2>1, <2>3 DEF Owes
  <2> QED BY <1>1, <1>3, <1>5, <2>1, <2>2, <2>3, <2>4, InspectFrame
          DEF Deletes
<1>10. CASE Render(c)
  <2>1. PICK s :
            /\ Become(c, s)
            /\ \/ /\ s = [call[c] EXCEPT !.pc = "renderCheck"]
                  /\ Holding("rendition")
               \/ /\ s = [call[c] EXCEPT !.pc = "commit", !.good = FALSE,
                                         !.wrote = TRUE]
                  /\ UNCHANGED store \/ Holding("rendition")
    BY <1>10 DEF Render, Inspected
  <2>2. call[c].pc = "render" /\ UNCHANGED stray
    BY <1>10 DEF Render, At
  <2>3. /\ \/ s.pc = "renderCheck" /\ store'["rendition"] = "good"
           \/ s.pc = "commit" /\ s.good = FALSE
        /\ s.wrote = TRUE
    BY <1>2, <1>4, <2>1, <2>2 DEF CallState, Holding
  <2>4. Owes(c)'
    BY <1>6, <2>1, <2>3 DEF Owes
  <2>5. store'["sealed"] = store["sealed"]
        /\ store'["rendition"] \in {store["rendition"], "good"}
    BY <1>2, <2>1 DEF Holding
  <2> QED BY <1>1, <1>3, <1>5, <2>1, <2>2, <2>3, <2>4, <2>5, InspectFrame
          DEF Deletes
<1>11. CASE CheckRendition(c)
  <2>1. PICK g \in BOOLEAN :
            Become(c, [call[c] EXCEPT !.pc = "commit", !.good = g,
                                      !.wrote = TRUE])
    BY <1>11 DEF CheckRendition, Inspected
  <2> DEFINE s == [call[c] EXCEPT !.pc = "commit", !.good = g, !.wrote = TRUE]
  <2>2. call[c].pc = "renderCheck" /\ UNCHANGED <<store, stray>>
    BY <1>11 DEF CheckRendition, At
  <2>3. s.pc = "commit" /\ s.wrote = TRUE
    BY <1>2, <2>1 DEF CallState
  <2>4. Owes(c)'
    BY <1>6, <2>1, <2>3 DEF Owes
  <2> QED BY <1>1, <1>3, <1>5, <2>1, <2>2, <2>3, <2>4, InspectFrame
          DEF Deletes
<1> QED BY <1>7, <1>8, <1>9, <1>10, <1>11 DEF Inspect

\* On to the next key, or to the transaction that ends the deletion.
LEMMA AdvanceEffect ==
    ASSUME TypeOK, NEW c \in Calls, NEW w \in BOOLEAN, Advance(c, w)
    PROVE  \E s : /\ Become(c, s) /\ s.kind = call[c].kind
                  /\ s.gone = (call[c].gone /\ w)
                  /\ \/ /\ s.pc = "finish" /\ s.cursor = call[c].cursor
                        /\ call[c].cursor = LastObject(call[c].kind)
                     \/ /\ s.pc = "delete"
                        /\ s.cursor = NextObject(call[c].cursor)
                        /\ call[c].cursor # LastObject(call[c].kind)
<1>1. call[c] \in CallState
  BY DEF TypeOK
<1>2. CASE call[c].cursor = LastObject(call[c].kind)
  <2> DEFINE s == [call[c] EXCEPT !.pc = "finish", !.gone = @ /\ w]
  <2>1. Become(c, s)
    BY <1>2 DEF Advance
  <2>2. /\ s.kind = call[c].kind /\ s.gone = (call[c].gone /\ w)
        /\ s.pc = "finish" /\ s.cursor = call[c].cursor
    BY <1>1 DEF CallState
  <2> QED BY <1>2, <2>1, <2>2
<1>3. CASE call[c].cursor # LastObject(call[c].kind)
  <2> DEFINE s == [call[c] EXCEPT !.pc = "delete", !.gone = @ /\ w,
                                  !.cursor = NextObject(call[c].cursor)]
  <2>1. Become(c, s)
    BY <1>1, <1>3 DEF Advance, CallState
  <2>2. /\ s.kind = call[c].kind /\ s.gone = (call[c].gone /\ w)
        /\ s.pc = "delete" /\ s.cursor = NextObject(call[c].cursor)
    BY <1>1 DEF CallState
  <2> QED BY <1>3, <2>1, <2>2
<1> QED BY <1>2, <1>3

\* A request of one of the deleting loops.
LEMMA DeleteInv ==
    ASSUME Inv, NEW c \in Calls, Delete(c) PROVE Inv'
<1>1. TypeOK'
  BY StorageTypeOK DEF Inv
<1>2. /\ call[c] \in CallState /\ store \in [Objects -> Content]
      /\ "sealed" \in Objects /\ "rendition" \in Objects
  BY DEF Inv, TypeOK, Objects
<1>3. /\ UNCHANGED <<rows, stray>>
      /\ Deletes(c) /\ ~Owes(c)
  BY DEF Delete, DeleteObject, CheckAbsent, At, Deletes, Owes
<1>4. UNCHANGED <<intent, image, submission, presign>> /\ Gone' = Gone
  BY <1>3 DEF rows, Gone
<1>5. IF call[c].kind = "source"
      THEN call[c].cursor = "upload" /\ intent.token # c
      ELSE Gone
  BY <1>3 DEF Inv, CallInv
<1>6. RowConsistent' /\ SubmissionInv'
  BY <1>4 DEF Inv, RowConsistent, SubmissionInv, SourceWatched
<1>7. \/ Erasing(call[c].cursor)
      \/ UNCHANGED store
  BY DEF Delete, DeleteObject, CheckAbsent
<1>8. PICK s :
          /\ Become(c, s) /\ s.kind = call[c].kind
          /\ s.pc \in {"delete", "check", "finish"}
          /\ s.pc = "check" => s.cursor = call[c].cursor
                              /\ s.gone = call[c].gone
          /\ s.pc = "finish" => s.cursor = call[c].cursor
                               /\ s.cursor = LastObject(s.kind)
          /\ s.pc = "delete" => s.cursor = NextObject(call[c].cursor)
                               /\ call[c].cursor # LastObject(s.kind)
          /\ s.pc # "check" /\ s.gone
                 => /\ call[c].gone /\ store[call[c].cursor] = "absent"
                    /\ UNCHANGED store
  <2>1. CASE \E w \in BOOLEAN :
                 /\ Advance(c, w)
                 /\ w => store[call[c].cursor] = "absent" /\ UNCHANGED store
    <3>1. PICK w \in BOOLEAN :
                 /\ Advance(c, w)
                 /\ w => store[call[c].cursor] = "absent" /\ UNCHANGED store
      BY <2>1
    <3>2. TypeOK
      BY DEF Inv
    <3> QED BY <3>1, <3>2, AdvanceEffect
  <2>2. CASE Become(c, [call[c] EXCEPT !.pc = "check"])
    <3> DEFINE s == [call[c] EXCEPT !.pc = "check"]
    <3>1. /\ s.kind = call[c].kind /\ s.pc = "check"
          /\ s.cursor = call[c].cursor /\ s.gone = call[c].gone
      BY <1>2 DEF CallState
    <3> QED BY <2>2, <3>1
  <2> QED BY <2>1, <2>2 DEF Delete, DeleteObject, CheckAbsent
<1>9. /\ call'[c] = s
      /\ \A d \in Calls \ {c} :
             /\ call'[d] = call[d]
             /\ Deletes(d)' = Deletes(d) /\ Owes(d)' = Owes(d)
  BY <1>8, OneCall DEF Inv
<1>10. \A o \in {"sealed", "rendition"} :
           store'[o] \in {store[o], "absent"}
  BY <1>2, <1>7 DEF Erasing
<1>11. ~Gone => UNCHANGED <<store["sealed"], store["rendition"]>>
  <2>1. ~Gone => call[c].cursor = "upload"
    BY <1>5
  <2> QED BY <1>2, <1>7, <2>1 DEF Erasing
<1>12. \A o \in {"sealed", "rendition"} : Covered(o) => Covered(o)'
  BY <1>3, <1>8, <1>10, CoveredKept DEF Inv
<1>13. CallInv'
  <2>1. call[c].kind = "source" => s.cursor = "upload"
    BY <1>5, <1>8 DEF LastObject
  <2> QED BY <1>4, <1>5, <1>8, <1>9, <2>1 DEF Inv, CallInv
<1>14. StoreInv' /\ KeptObjectsPresent'
  BY <1>4, <1>8, <1>9, <1>11 DEF Inv, StoreInv, KeptObjectsPresent, Gone
<1>15. DeletedInv'
  BY <1>4, <1>12 DEF Inv, DeletedInv
<1>16. ClaimInv'
  <2>1. ASSUME intent.token = c, s.gone
        PROVE  /\ s.pc = "finish" => Covered("sealed")' /\ Covered("rendition")'
               /\ s.cursor = "rendition" => Covered("sealed")'
    <3>1. call[c].kind # "source" /\ LastObject(s.kind) = "rendition"
      BY <1>5, <1>8, <2>1 DEF LastObject
    <3>2. call[c].gone /\ (call[c].cursor = "rendition" => Covered("sealed"))
      BY <1>3, <1>8, <2>1 DEF Inv, ClaimInv
    <3>3. CASE s.pc = "check"
      BY <1>8, <1>12, <3>2, <3>3
    <3>4. CASE s.pc = "finish"
      <4>1. s.cursor = "rendition" /\ call[c].cursor = "rendition"
            /\ store["rendition"] = "absent"
        BY <1>8, <2>1, <3>1, <3>4
      <4> QED BY <1>12, <3>2, <4>1 DEF Covered
    <3>5. CASE s.pc = "delete"
      <4>1. s.cursor = "rendition" => call[c].cursor = "sealed"
        BY <1>2, <1>8, <3>1, <3>5 DEF NextObject, CallState, Objects
      <4> QED BY <1>8, <1>12, <2>1, <3>5, <4>1 DEF Covered
    <3> QED BY <1>8, <3>3, <3>4, <3>5
  <2> QED BY <1>4, <1>9, <1>12, <2>1 DEF Inv, ClaimInv
<1> QED BY <1>1, <1>6, <1>13, <1>14, <1>15, <1>16 DEF Inv

\* What a transaction of a call makes of the row and of the call.
TransactionFacts(c, s) ==
    /\ Become(c, s) /\ UNCHANGED store /\ (stray => stray')
    /\ RowConsistent' /\ SubmissionInv' /\ (Gone => Gone')
    /\ intent'.token \in {intent.token, NoToken, c}
    /\ s.pc \in {"idle", "read", "backfill", "approve", "delete"}
    /\ s.pc = "delete" => IF s.kind = "source"
                         THEN s.cursor = "upload" /\ intent'.token # c
                         ELSE s.cursor # "rendition" /\ Gone'
    \* a debt is taken up by the claim, or there is nothing to cover
    /\ Owes(c) => stray' \/ (/\ intent'.state # "deleted"
                             /\ intent'.token \in {NoToken, c})
    /\ Kept' => \/ Kept /\ intent'.rendered = intent.rendered
                \/ store["sealed"] = "good" /\ store["rendition"] = "good"
    /\ Kept => Kept' \/ Gone'
    /\ intent'.state = "deleted" =>
           \/ intent.state = "deleted"
           \/ Gone /\ Covered("sealed") /\ Covered("rendition")

LEMMA TransactionFrame ==
    ASSUME Inv, TypeOK', NEW c \in Calls, NEW s, TransactionFacts(c, s)
    PROVE  Inv' /\ PhaseStep
<1>1. /\ call'[c] = s
      /\ \A d \in Calls \ {c} :
             /\ call'[d] = call[d]
             /\ Deletes(d)' = Deletes(d) /\ Owes(d)' = Owes(d)
  BY OneCall DEF Inv, TransactionFacts
<1>2. NoToken \notin Calls
  BY CallsAssumption
<1>3. (Owes(c) => stray') =>
          \A o \in {"sealed", "rendition"} : Covered(o) => Covered(o)'
  BY CoveredKept DEF Inv, TransactionFacts
<1>4. CallInv'
  <2>1. ASSUME NEW d \in Calls, d # c
        PROVE  /\ Deletes(d)' => IF call'[d].kind = "source"
                     THEN call'[d].cursor = "upload" /\ intent'.token # d
                     ELSE Gone'
               /\ call'[d].pc \in {"sealCheck", "render", "renderCheck"}
                      => call'[d].wrote
    BY <1>1, <1>2, <2>1 DEF Inv, CallInv, TransactionFacts
  <2>2. Deletes(c)' => s.pc = "delete"
    BY <1>1 DEF Deletes, TransactionFacts
  <2> QED BY <1>1, <2>1, <2>2 DEF CallInv, TransactionFacts
<1>5. StoreInv'
  <2>1. Gone' \/ ~Gone
    BY DEF TransactionFacts
  <2> QED BY <1>1, <2>1 DEF Inv, StoreInv, TransactionFacts
<1>6. KeptObjectsPresent'
  BY DEF Inv, KeptObjectsPresent, TransactionFacts, Kept
<1>7. DeletedInv'
  BY <1>3 DEF Inv, DeletedInv, TransactionFacts
<1>8. ClaimInv'
  <2>1. ASSUME NEW d \in Calls, d # c, Deletes(d)', intent'.token = d,
               call'[d].gone
        PROVE  /\ call'[d].pc = "finish"
                      => Covered("sealed")' /\ Covered("rendition")'
               /\ call'[d].cursor = "rendition" => Covered("sealed")'
    <3>1. intent.token = d /\ (Owes(c) => stray')
      BY <1>2, <2>1 DEF TransactionFacts
    <3> QED BY <1>1, <1>3, <2>1, <3>1 DEF Inv, ClaimInv
  <2>2. Deletes(c)' /\ intent'.token = c =>
            s.pc = "delete" /\ s.cursor # "rendition"
    BY <1>1 DEF Deletes, TransactionFacts
  <2> QED BY <1>1, <2>1, <2>2 DEF ClaimInv
<1>9. PhaseStep
  BY DEF TransactionFacts, PhaseStep, Gone
<1> QED BY <1>4, <1>5, <1>6, <1>7, <1>8, <1>9 DEF Inv, TransactionFacts

\* The calls and rows that transactions produce.
LEMMA CallColumns ==
    /\ Idle.pc = "idle"
    /\ \A c : AfterCall(c).pc \in {"idle", "approve"}
    /\ \A k, o : /\ Deleting(k, o).pc = "delete" /\ Deleting(k, o).kind = k
                 /\ Deleting(k, o).cursor = o
    /\ StaleDeleting.pc = "delete" /\ StaleDeleting.kind = "stale"
    /\ StaleDeleting.cursor = "sealed"
    /\ \A k : Inspecting(k).pc = "read"
BY DEF Idle, AfterCall, Deleting, StaleDeleting, Inspecting

LEMMA ClaimedRow ==
    ASSUME NEW i \in IntentRow, NEW c
    PROVE  /\ Claimed(i, c).state = "cleanup_pending"
           /\ Claimed(i, c).token = c /\ Claimed(i, c).lease = "live"
           /\ StaleClaimed(i, c).state = "cleanup_pending"
           /\ StaleClaimed(i, c).token = c /\ StaleClaimed(i, c).lease = "live"
BY DEF Claimed, StaleClaimed, IntentRow

LEMMA ReleasedRow ==
    ASSUME NEW i \in IntentRow, NEW r, NEW t
    PROVE  /\ Deleted(i).state = "deleted"
           /\ Deleted(i).token = NoToken /\ Deleted(i).lease = "none"
           /\ [Released(i) EXCEPT !.retry = r].state = i.state
           /\ [Released(i) EXCEPT !.retry = r].token = NoToken
           /\ [Released(i) EXCEPT !.retry = r].lease = "none"
           /\ [Released(i) EXCEPT !.retry = r, !.state = t].state = t
           /\ [Released(i) EXCEPT !.retry = r, !.state = t].token = NoToken
           /\ [Released(i) EXCEPT !.retry = r, !.state = t].lease = "none"
           /\ [Released(i) EXCEPT !.state = t, !.retry = r].state = t
           /\ [Released(i) EXCEPT !.state = t, !.retry = r].token = NoToken
           /\ [Released(i) EXCEPT !.state = t, !.retry = r].lease = "none"
BY DEF Deleted, Released, IntentRow

\* A row that a call claims, or gives up, while it has no image.
LEMMA ClaimFacts ==
    ASSUME Inv, ~image, UNCHANGED <<image, submission, presign>>,
           intent'.state = "cleanup_pending", intent'.lease # "none",
           intent'.token # NoToken
    PROVE  RowConsistent' /\ SubmissionInv' /\ Gone'
BY DEF RowConsistent, SubmissionInv, SourceWatched, Gone, Inv

LEMMA ReleaseFacts ==
    ASSUME Inv, ~image, UNCHANGED <<image, submission, presign>>,
           intent'.state \in {"cleanup_pending", "deleted"},
           intent'.lease = "none", intent'.token = NoToken
    PROVE  RowConsistent' /\ SubmissionInv' /\ Gone'
BY DEF RowConsistent, SubmissionInv, SourceWatched, Gone, Inv

\* A row that keeps what the invariant is about.
LEMMA SameFacts ==
    ASSUME Inv, UNCHANGED <<image, submission, presign>>,
           intent'.state = intent.state, intent'.token = intent.token,
           intent'.lease = intent.lease,
           intent.rendered => intent'.rendered,
           presign = "live" => intent'.srcPending = intent.srcPending
    PROVE  RowConsistent' /\ SubmissionInv' /\ (Gone => Gone')
BY DEF RowConsistent, SubmissionInv, SourceWatched, Gone, Inv

\* The first transactions: a call starts, at most claiming the row.
LEMMA StartInv ==
    ASSUME Inv,
           \/ \E v \in Verifiers : StartVerify(v)
           \/ \E a \in Approvers : StartApprove(a)
           \/ \E o \in Owners : StartOwnerCleanup(o)
           \/ \E s \in Sweepers : ClaimCleanup(s) \/ ClaimSource(s)
    PROVE  Inv' /\ PhaseStep
<1>1. TypeOK'
  BY StartTypeOK DEF Inv
<1>2. /\ intent \in IntentRow /\ call \in [Calls -> CallState]
      /\ NoToken \notin Calls
  BY CallsAssumption DEF Inv, TypeOK
<1>3. RowConsistent /\ SubmissionInv
  BY DEF Inv
<1>4. ASSUME NEW c \in Calls, NEW s, At(c, "idle"), Become(c, s),
             UNCHANGED <<store, stray>>, RowConsistent', SubmissionInv',
             Gone => Gone', intent'.token \in {intent.token, NoToken, c},
             s.pc \in {"idle", "read", "backfill", "approve", "delete"},
             s.pc = "delete" => IF s.kind = "source"
                               THEN s.cursor = "upload" /\ intent'.token # c
                               ELSE s.cursor # "rendition" /\ Gone',
             Kept => Kept' \/ Gone',
             Kept' => Kept /\ intent'.rendered = intent.rendered,
             intent'.state = "deleted" => intent.state = "deleted"
      PROVE  Inv' /\ PhaseStep
  <2>1. ~Owes(c)
    BY <1>4 DEF At, Owes
  <2>2. TransactionFacts(c, s)
    BY <1>4, <2>1 DEF TransactionFacts
  <2> QED BY <1>1, <1>4, <2>2, TransactionFrame
<1>5. ASSUME NEW v \in Verifiers, StartVerify(v) PROVE Inv' /\ PhaseStep
  <2>1. v \in Calls /\ At(v, "idle")
    BY <1>5 DEF Calls, StartVerify
  <2>2. CASE /\ intent.state = "issued" /\ UNCHANGED call
             /\ intent' = Expired(intent)
    <3>1. image' = FALSE /\ ~Gone
      BY <1>3, <1>5, <2>2
      DEF StartVerify, RowConsistent, Gone, Inv, TypeOK
    <3>2. RowFacts
      BY <2>2, <3>1, GivenUpFacts DEF Gone
    <3> QED BY <1>1, <1>5, <2>2, <3>1, <3>2, RowFactsInv DEF StartVerify
  <2>3. CASE UNCHANGED intent
    <3>1. PICK s : Become(v, s) /\ s.pc \in {"idle", "read"}
      <4>1. CASE UNCHANGED call
        BY <1>2, <2>1, <4>1 DEF Become, At
      <4>2. CASE Become(v, Inspecting("verify"))
        BY <4>2, CallColumns
      <4> QED BY <1>5, <4>1, <4>2 DEF StartVerify
    <3>2. RowConsistent' /\ SubmissionInv' /\ (Gone => Gone')
      BY <1>5, <2>3, SameFacts DEF StartVerify
    <3> QED BY <1>4, <1>5, <2>1, <2>3, <3>1, <3>2 DEF StartVerify, Kept
  <2> QED BY <1>5, <2>2, <2>3 DEF StartVerify
<1>6. ASSUME NEW a \in Approvers, StartApprove(a)
      PROVE  Inv' /\ PhaseStep
  <2> DEFINE s == [Idle EXCEPT !.pc = "backfill"]
  <2>1. a \in Calls /\ At(a, "idle") /\ Become(a, s) /\ s.pc = "backfill"
    BY <1>6 DEF Calls, StartApprove, Idle
  <2>2. UNCHANGED <<intent, image, submission, presign, store, stray>>
    BY <1>6 DEF StartApprove, rows
  <2>3. RowConsistent' /\ SubmissionInv' /\ (Gone => Gone')
    BY <2>2, SameFacts
  <2> QED BY <1>4, <2>1, <2>2, <2>3 DEF Kept
<1>7. ASSUME NEW o \in Owners, StartOwnerCleanup(o)
      PROVE  Inv' /\ PhaseStep
  <2>1. o \in Calls /\ At(o, "idle")
    BY <1>7 DEF Calls, StartOwnerCleanup
  <2>2. CASE UNCHANGED <<intent, call>>
    <3>1. Become(o, call[o]) /\ call[o].pc = "idle"
      BY <1>2, <2>1, <2>2 DEF Become, At
    <3>2. RowConsistent' /\ SubmissionInv' /\ (Gone => Gone')
      BY <1>7, <2>2, SameFacts DEF StartOwnerCleanup
    <3> QED BY <1>4, <1>7, <2>1, <2>2, <3>1, <3>2 DEF StartOwnerCleanup, Kept
  <2>3. CASE /\ CleanupDue /\ intent' = Claimed(intent, o)
             /\ Become(o, Deleting("owner", "upload"))
    <3>1. /\ intent'.state = "cleanup_pending" /\ intent'.token = o
          /\ intent'.lease # "none" /\ o # NoToken
      BY <1>2, <2>1, <2>3, ClaimedRow
    <3>2. RowConsistent' /\ SubmissionInv' /\ Gone'
      BY <1>7, <2>3, <3>1, ClaimFacts DEF StartOwnerCleanup, CleanupDue
    <3> QED BY <1>4, <1>7, <2>1, <2>3, <3>1, <3>2, CallColumns
            DEF StartOwnerCleanup, Kept
  <2> QED BY <1>7, <2>2, <2>3 DEF StartOwnerCleanup
<1>8. ASSUME NEW c \in Sweepers, ClaimCleanup(c)
      PROVE  Inv' /\ PhaseStep
  <2>1. c \in Calls /\ c # NoToken
    BY <1>2 DEF Calls
  <2>2. /\ intent'.state = "cleanup_pending" /\ intent'.token = c
        /\ intent'.lease # "none"
    BY <1>2, <1>8, ClaimedRow DEF ClaimCleanup
  <2>3. RowConsistent' /\ SubmissionInv' /\ Gone'
    BY <1>8, <2>1, <2>2, ClaimFacts DEF ClaimCleanup, CleanupDue
  <2> QED BY <1>4, <1>8, <2>1, <2>2, <2>3, CallColumns DEF ClaimCleanup, Kept
<1>9. ASSUME NEW c \in Sweepers, ClaimSource(c) PROVE Inv' /\ PhaseStep
  <2>1. c \in Calls /\ c # NoToken
    BY <1>2 DEF Calls
  <2>2. /\ intent'.state = intent.state /\ intent'.token = intent.token
        /\ intent'.lease = intent.lease /\ intent'.rendered = intent.rendered
        /\ intent'.srcPending = intent.srcPending
    BY <1>2, <1>9 DEF ClaimSource, IntentRow
  <2>3. intent.token = NoToken
    BY <1>3, <1>9 DEF ClaimSource, RowConsistent
  <2>4. RowConsistent' /\ SubmissionInv' /\ (Gone => Gone')
    BY <1>9, <2>2, SameFacts DEF ClaimSource
  <2> QED BY <1>4, <1>9, <2>1, <2>2, <2>3, <2>4, CallColumns
          DEF ClaimSource, Kept
<1> QED BY <1>5, <1>6, <1>7, <1>8, <1>9

\* A row whose state, claim and lease a transaction leaves alone.
LEMMA KeptRowInv ==
    ASSUME Inv, TypeOK', NEW c \in Calls, NEW s, Become(c, s),
           UNCHANGED <<image, submission, presign, store>>, stray => stray',
           s.pc \in {"idle", "read", "backfill", "approve"},
           UNCHANGED intent, Owes(c) => Kept \/ stray'
    PROVE  Inv' /\ PhaseStep
<1>1. RowConsistent' /\ SubmissionInv' /\ (Gone => Gone')
  BY SameFacts
<1>2. Kept => intent.token = NoToken /\ intent.state # "deleted"
  BY DEF Inv, RowConsistent, Kept
<1>3. TransactionFacts(c, s)
  BY <1>1, <1>2 DEF TransactionFacts, Kept
<1> QED BY <1>1, <1>3, TransactionFrame

\* A call that wrote objects nobody keeps claims the row to delete them.
LEMMA StaleClaimInv ==
    ASSUME Inv, TypeOK', NEW c \in Calls, Become(c, StaleDeleting),
           intent' = StaleClaimed(intent, c), ~image,
           UNCHANGED <<image, submission, presign, store, stray>>
    PROVE  Inv' /\ PhaseStep
<1>1. intent \in IntentRow /\ c # NoToken
  BY CallsAssumption DEF Inv, TypeOK
<1>2. /\ intent'.state = "cleanup_pending" /\ intent'.token = c
      /\ intent'.lease # "none"
  BY <1>1, ClaimedRow
<1>3. RowConsistent' /\ SubmissionInv' /\ Gone'
  BY <1>1, <1>2, ClaimFacts
<1>4. TransactionFacts(c, StaleDeleting)
  BY <1>2, <1>3, CallColumns DEF TransactionFacts, Kept
<1> QED BY <1>3, <1>4, TransactionFrame

\* The second transaction of a verification.
LEMMA VerifyInv ==
    ASSUME Inv, NEW v \in Verifiers, Verify(v) PROVE Inv' /\ PhaseStep
<1>1. v \in Calls
  BY DEF Calls
<1>2. TypeOK'
  BY <1>1, FinishTypeOK DEF Inv
<1>3. intent \in IntentRow /\ call[v] \in CallState
  BY <1>1 DEF Inv, TypeOK
<1>4. RowConsistent /\ SubmissionInv /\ StoreInv
  BY DEF Inv
<1>5. /\ call[v].pc = "commit"
      /\ UNCHANGED <<image, submission, presign, store, stray>>
  BY DEF Verify, VerifyLost, VerifyFailed, VerifySucceeded, CommitStep, At
<1>6. CASE VerifyLost(v)
  <2>1. CASE call[v].wrote /\ StaleClaimable(intent)
    BY <1>1, <1>2, <1>5, <1>6, <2>1, StaleClaimInv
    DEF VerifyLost, StaleClaimable
  <2>2. CASE ~(call[v].wrote /\ StaleClaimable(intent))
    <3>1. Owes(v) => Kept
      BY <1>4, <2>2 DEF Owes, StaleClaimable, Kept, RowConsistent
    <3> QED BY <1>1, <1>2, <1>5, <1>6, <2>2, <3>1, KeptRowInv, CallColumns
            DEF VerifyLost
  <2> QED BY <2>1, <2>2
<1>7. CASE VerifyFailed(v)
  <2>1. ~image /\ intent.state = "issued" /\ intent.token = NoToken
        /\ intent.lease = "none"
    BY <1>4, <1>7 DEF VerifyFailed, StillIssued, RowConsistent
  <2>2. CASE call[v].wrote
    BY <1>1, <1>2, <1>5, <1>7, <2>1, <2>2, StaleClaimInv DEF VerifyFailed
  <2>3. CASE ~call[v].wrote
    <3>1. intent' = [intent EXCEPT !.state = "cleanup_pending"]
          /\ Become(v, Idle) /\ ~Owes(v)
      BY <1>7, <2>3 DEF VerifyFailed, Owes
    <3>2. /\ intent'.state = "cleanup_pending" /\ intent'.token = NoToken
          /\ intent'.lease = "none"
      BY <1>3, <2>1, <3>1 DEF IntentRow
    <3>3. RowConsistent' /\ SubmissionInv' /\ Gone'
      BY <1>5, <2>1, <3>2, ReleaseFacts
    <3>4. TransactionFacts(v, Idle)
      BY <1>5, <3>1, <3>2, <3>3, CallColumns DEF TransactionFacts, Kept
    <3> QED BY <1>1, <1>2, <3>3, <3>4, TransactionFrame
  <2> QED BY <2>2, <2>3
<1>8. CASE VerifySucceeded(v)
  <2> DEFINE s == Deleting("source", "upload")
  <2>1. /\ intent.state = "issued" /\ intent.token = NoToken
        /\ intent.lease = "none" /\ ~image /\ ~Gone
        /\ submission = "draft" /\ call[v].good
    BY <1>4, <1>8
    DEF VerifySucceeded, StillIssued, Confirmed, RowConsistent, Gone
  <2>2. /\ intent'.state = "verified" /\ intent'.rendered
        /\ intent'.srcPending /\ intent'.token = NoToken
        /\ intent'.lease = "none"
    BY <1>3, <1>8, <2>1 DEF VerifySucceeded, IntentRow
  <2>3. store["sealed"] = "good" /\ store["rendition"] = "good"
    BY <1>1, <1>4, <1>5, <2>1 DEF StoreInv
  <2>4. RowConsistent' /\ SubmissionInv'
    BY <1>5, <2>1, <2>2
    DEF RowConsistent, SubmissionInv, SourceWatched, Gone
  <2>5. NoToken # v
    BY <1>1, CallsAssumption
  <2>6. TransactionFacts(v, s)
    BY <1>5, <1>8, <2>1, <2>2, <2>3, <2>4, <2>5, CallColumns
    DEF VerifySucceeded, TransactionFacts, Kept
  <2> QED BY <1>1, <1>2, <2>1, <2>6, TransactionFrame
<1> QED BY <1>6, <1>7, <1>8 DEF Verify

\* A finisher that lets go of the row it claimed.
LEMMA LetGoInv ==
    ASSUME Inv, TypeOK', NEW c \in Calls, Become(c, AfterCall(c)),
           call[c].pc = "finish", Gone,
           UNCHANGED <<image, submission, presign, store, stray>>,
           intent'.state \in {"cleanup_pending", "deleted"},
           intent'.token = NoToken, intent'.lease = "none",
           intent'.state = "deleted" => intent.token = c /\ call[c].gone
    PROVE  Inv' /\ PhaseStep
<1>1. ~image /\ ~Owes(c) /\ Deletes(c)
  BY DEF Gone, Inv, RowConsistent, Owes, Deletes
<1>2. RowConsistent' /\ SubmissionInv' /\ Gone'
  BY <1>1, ReleaseFacts
<1>3. intent'.state = "deleted" => Covered("sealed") /\ Covered("rendition")
  BY <1>1 DEF Inv, ClaimInv
<1>4. TransactionFacts(c, AfterCall(c))
  BY <1>1, <1>2, <1>3, CallColumns DEF TransactionFacts, Kept
<1> QED BY <1>2, <1>4, TransactionFrame

LEMMA FinishInv ==
    ASSUME Inv, NEW c \in Calls,
           \/ FinishStale(c) \/ FinishSource(c)
           \/ c \in Owners /\ FinishOwnerCleanup(c)
           \/ c \in Sweepers /\ FinishCleanup(c)
    PROVE  Inv' /\ PhaseStep
<1>1. TypeOK'
  BY FinishTypeOK DEF Inv
<1>2. /\ intent \in IntentRow /\ c # NoToken
  BY CallsAssumption DEF Inv, TypeOK
<1>3. RowConsistent
  BY DEF Inv
<1>4. /\ call[c].pc = "finish" /\ Become(c, AfterCall(c)) /\ ~Owes(c)
      /\ UNCHANGED <<image, submission, presign, store, stray>>
  BY DEF FinishStale, FinishSource, FinishOwnerCleanup, FinishCleanup,
         FinishStep, At, Owes
<1>5. CASE UNCHANGED intent
  BY <1>1, <1>4, <1>5, KeptRowInv, CallColumns
<1>6. CASE /\ Gone /\ intent'.token = NoToken /\ intent'.lease = "none"
           /\ intent'.state \in {"cleanup_pending", "deleted"}
           /\ intent'.state = "deleted" => intent.token = c /\ call[c].gone
  BY <1>1, <1>4, <1>6, LetGoInv
<1>7. CASE FinishStale(c)
  <2>1. ASSUME HoldsClaim(c), call[c].gone
        PROVE  \A t \in {"cleanup_pending", "deleted"} :
                   intent' = [Released(intent) EXCEPT !.retry = "none",
                                                      !.state = t]
                       => Inv' /\ PhaseStep
    BY <1>2, <1>6, <2>1, ReleasedRow DEF HoldsClaim, Gone
  <2>2. ASSUME HoldsClaim(c),
               intent' = [Released(intent) EXCEPT !.retry = "waiting"]
        PROVE  Inv' /\ PhaseStep
    BY <1>2, <1>6, <2>2, ReleasedRow DEF HoldsClaim, Gone
  <2> QED BY <1>5, <1>7, <2>1, <2>2 DEF FinishStale
<1>8. CASE FinishSource(c)
  <2>1. CASE intent.state \in {"verified", "attached"}
    <3>1. /\ intent'.state = intent.state /\ intent'.token = intent.token
          /\ intent'.lease = intent.lease
          /\ intent'.rendered = intent.rendered
          /\ presign = "live" => intent'.srcPending = intent.srcPending
      BY <1>2, <1>8, <2>1 DEF FinishSource, IntentRow
    <3>2. RowConsistent' /\ SubmissionInv' /\ (Gone => Gone')
      BY <1>4, <3>1, SameFacts
    <3>3. TransactionFacts(c, AfterCall(c))
      BY <1>4, <3>1, <3>2, CallColumns DEF TransactionFacts, Kept
    <3> QED BY <1>1, <3>2, <3>3, TransactionFrame
  <2>2. CASE intent.state \notin {"verified", "attached"}
    BY <1>5, <1>8, <2>2 DEF FinishSource
  <2> QED BY <2>1, <2>2
<1>9. CASE FinishOwnerCleanup(c)
  <2>1. CASE active /\ intent.token = c /\ ~image
    <3>1. Gone
      BY <1>2, <1>3, <2>1 DEF RowConsistent, Gone
    <3>2. CASE call[c].gone /\ intent' = Deleted(intent)
      BY <1>2, <1>6, <2>1, <3>1, <3>2, ReleasedRow
    <3>3. CASE intent' = [Released(intent) EXCEPT !.state = "cleanup_pending",
                                                  !.retry = "waiting"]
      <4>1. /\ intent'.state = "cleanup_pending"
            /\ intent'.token = NoToken /\ intent'.lease = "none"
        BY <1>2, <3>3, ReleasedRow
      <4> QED BY <1>6, <3>1, <4>1
    <3> QED BY <1>9, <2>1, <3>2, <3>3 DEF FinishOwnerCleanup
  <2>2. CASE ~(active /\ intent.token = c /\ ~image)
    BY <1>5, <1>9, <2>2 DEF FinishOwnerCleanup
  <2> QED BY <2>1, <2>2
<1>10. CASE FinishCleanup(c)
  BY <1>2, <1>5, <1>6, <1>10, ReleasedRow DEF FinishCleanup, HoldsClaim, Gone
<1> QED BY <1>7, <1>8, <1>9, <1>10

\* The transactions of an approval.
LEMMA ApproveInv ==
    ASSUME Inv, NEW a \in Approvers, Approve(a) PROVE Inv' /\ PhaseStep
<1>1. a \in Calls
  BY DEF Calls
<1>2. TypeOK'
  BY <1>1, FinishTypeOK DEF Inv
<1>3. intent \in IntentRow
  BY DEF Inv, TypeOK
<1>4. RowConsistent /\ SubmissionInv /\ StoreInv /\ KeptObjectsPresent
  BY DEF Inv
<1>5. UNCHANGED <<image, presign, store, stray>>
  BY DEF Approve, ClaimBackfill, FinishBackfill, FinishApprove, rows
<1>6. CASE ClaimBackfill(a)
  <2>1. PICK s : Become(a, s) /\ s.pc \in {"read", "idle", "approve"}
    BY <1>6, CallColumns DEF ClaimBackfill
  <2>2. ~Owes(a) /\ UNCHANGED <<intent, submission>>
    BY <1>6 DEF ClaimBackfill, At, Owes, rows
  <2> QED BY <1>1, <1>2, <1>5, <2>1, <2>2, KeptRowInv
<1>7. CASE FinishBackfill(a)
  <2>1. call[a].pc = "commit" /\ UNCHANGED submission
    BY <1>7 DEF FinishBackfill, At
  <2>2. CASE call[a].wrote /\ StaleClaimable(intent)
    BY <1>1, <1>2, <1>5, <1>7, <2>1, <2>2, StaleClaimInv
    DEF FinishBackfill, StaleClaimable, StillAttached
  <2>3. CASE UNCHANGED intent /\ ~(call[a].wrote /\ StaleClaimable(intent))
    <3>1. Owes(a) => Kept
      BY <1>4, <2>3 DEF Owes, StaleClaimable, Kept, RowConsistent
    <3>2. Become(a, AfterCall(a))
      BY <1>7, <2>3 DEF FinishBackfill, StaleClaimable, StillAttached
    <3> QED BY <1>1, <1>2, <1>5, <2>1, <2>3, <3>1, <3>2, KeptRowInv,
               CallColumns
  <2>4. CASE /\ intent' = [intent EXCEPT !.rendered = TRUE]
             /\ StillAttached /\ call[a].good /\ Become(a, AfterCall(a))
    <3>1. /\ intent'.state = "attached" /\ intent'.token = intent.token
          /\ intent'.lease = intent.lease /\ intent'.rendered
          /\ intent'.srcPending = intent.srcPending
          /\ intent.state = "attached"
      BY <1>3, <2>4 DEF StillAttached, IntentRow
    <3>2. RowConsistent' /\ SubmissionInv' /\ (Gone => Gone')
      BY <1>5, <2>1, <3>1, SameFacts
    <3>3. store["sealed"] = "good" /\ store["rendition"] = "good"
      BY <1>1, <1>4, <2>1, <2>4, <3>1 DEF StoreInv, Gone
    <3>4. intent'.token = NoToken
      BY <1>4, <3>1 DEF RowConsistent
    <3>5. TransactionFacts(a, AfterCall(a))
      BY <1>5, <2>4, <3>1, <3>2, <3>3, <3>4, CallColumns
      DEF TransactionFacts, Kept
    <3> QED BY <1>1, <1>2, <3>2, <3>5, TransactionFrame
  <2> QED BY <1>7, <2>2, <2>3, <2>4
          DEF FinishBackfill, StaleClaimable, StillAttached
<1>8. CASE FinishApprove(a)
  <2>1. /\ Become(a, Idle) /\ ~Owes(a) /\ UNCHANGED intent
        /\ submission' \in {submission, "approved"}
        /\ submission' # submission => (image => intent.rendered)
    BY <1>8 DEF FinishApprove, At, Owes
  <2>2. RowConsistent' /\ SubmissionInv' /\ (Gone => Gone')
    BY <1>4, <1>5, <2>1
    DEF RowConsistent, SubmissionInv, SourceWatched, Gone
  <2>3. TransactionFacts(a, Idle)
    BY <1>5, <2>1, <2>2, CallColumns DEF TransactionFacts, Kept
  <2> QED BY <1>1, <1>2, <2>2, <2>3, TransactionFrame
<1> QED BY <1>6, <1>7, <1>8 DEF Approve

\* A call that dies leaves what it wrote behind.
LEMMA CrashInv ==
    ASSUME Inv, NEW c \in Calls, Crash(c) PROVE Inv' /\ PhaseStep
<1>1. TypeOK'
  BY CrashTypeOK DEF Inv
<1>2. /\ Become(c, Idle) /\ (stray => stray') /\ (Owes(c) => stray')
      /\ UNCHANGED <<intent, image, submission, presign, store>>
  BY DEF Crash, rows, Owes
<1> QED BY <1>1, <1>2, KeptRowInv, CallColumns

LEMMA NextInv == Inv /\ [Next]_vars => Inv'
<1> SUFFICES ASSUME Inv, [Next]_vars PROVE Inv'
  OBVIOUS
<1>1. ASSUME NEW c \in Calls, Proceed(c) PROVE Inv'
  BY <1>1, InspectInv, DeleteInv, FinishInv, VerifyInv, ApproveInv DEF Proceed
<1>2. CASE UNCHANGED vars
  <2>1. TypeOK'
    BY <1>2, NextTypeOK DEF Inv
  <2>2. RowFacts
    BY <1>2 DEF vars, rows, RowFacts, Inv, RowConsistent, SubmissionInv,
                SourceWatched, Gone, Kept
  <2> QED BY <1>2, <2>1, <2>2, RowFactsInv DEF vars, rows
<1> QED BY <1>1, <1>2, RowOnlyInv, StartInv, CrashInv DEF Next

\* Rows, calls and the object store stay in agreement in every reachable
\* state.
THEOREM Invariance == Spec => []Inv
BY InitInv, NextInv, PTL DEF Spec

-----------------------------------------------------------------------------
\* What follows from it

\* The managed Image exists exactly while the intent is attached, and a claim
\* has a token and a lease together, only while cleanup is pending
\* (the check constraints of models.py).
THEOREM RowsConsistent == Spec => []RowConsistent
<1>1. Inv => RowConsistent
  BY DEF Inv
<1> QED BY <1>1, Invariance, PTL

\* Verified and attached media keep their sealed object and their recorded
\* rendition, however late verifications, cleanups and crashes interleave.
THEOREM KeptPresent == Spec => []KeptObjectsPresent
<1>1. Inv => KeptObjectsPresent
  BY DEF Inv
<1> QED BY <1>1, Invariance, PTL

\* An approved submission's attachment can be served: its rendition is
\* recorded and stored.
THEOREM PublishedServable == Spec => []PublishedIsServable
<1>1. Inv => PublishedIsServable
  BY DEF Inv, SubmissionInv, KeptObjectsPresent, RowConsistent,
         PublishedIsServable
<1> QED BY <1>1, Invariance, PTL

\* A withdrawn, rejected or expired submission retains no image.
THEOREM ClosedEmpty == Spec => []ClosedRetainsNothing
<1>1. Inv => ClosedRetainsNothing
  BY DEF Inv, SubmissionInv, RowConsistent, ClosedRetainsNothing, Gone, TypeOK
<1> QED BY <1>1, Invariance, PTL

\* A deleted intent has no sealed object and no rendition, unless a writer is
\* still to commit or died.
THEOREM DeletedEmpty == Spec => []DeletedIsEmpty
<1>1. Inv => DeletedIsEmpty
  BY DEF Inv, DeletedInv, DeletedIsEmpty, Covered, Owes, Writing, TypeOK
<1> QED BY <1>1, Invariance, PTL

\* While a client can still write the upload of kept media, its cleanup stays
\* scheduled.
THEOREM SourceStaysWatched == Spec => []SourceWatched
<1>1. Inv => SourceWatched
  BY DEF Inv, SubmissionInv
<1> QED BY <1>1, Invariance, PTL

\* A storage request touches the sealed object alone: a writer stores it, and
\* only a call whose intent is given up erases it.
StoreStep == /\ UNCHANGED intent
             /\ \/ store'["sealed"] \in {store["sealed"], "good"}
                \/ Gone /\ store'["sealed"] = "absent"

LEMMA StorePhase ==
    ASSUME Inv, NEW c \in Calls, Inspect(c) \/ Delete(c) PROVE StoreStep
<1>1. store \in [Objects -> Content] /\ "sealed" \in Objects
  BY DEF Inv, TypeOK, Objects
<1>2. UNCHANGED intent
  BY DEF Inspect, ReadSource, Seal, CheckSealed, Render, CheckRendition,
         Delete, DeleteObject, CheckAbsent, rows
<1>3. CASE Inspect(c)
  <2>1. UNCHANGED store \/ Holding("sealed") \/ Holding("rendition")
    BY <1>3 DEF Inspect, ReadSource, Seal, CheckSealed, Render, CheckRendition
  <2> QED BY <1>1, <1>2, <2>1 DEF Holding, StoreStep
<1>4. CASE Delete(c)
  <2>1. Deletes(c) /\ (UNCHANGED store \/ Erasing(call[c].cursor))
    BY <1>4 DEF Delete, DeleteObject, CheckAbsent, At, Deletes
  <2>2. ~Gone => call[c].cursor = "upload"
    BY <2>1 DEF Inv, CallInv
  <2> QED BY <1>1, <1>2, <2>1, <2>2 DEF Erasing, StoreStep
<1> QED BY <1>3, <1>4

LEMMA NextPhase ==
    ASSUME Inv, [Next]_vars PROVE PhaseStep \/ StoreStep
<1>1. CASE OwnerStep \/ SubmissionStep \/ Expire \/ Time
  BY <1>1, RowOnlyInv
<1>2. ASSUME NEW c \in Calls, Proceed(c) PROVE PhaseStep \/ StoreStep
  BY <1>2, StorePhase, FinishInv, VerifyInv, ApproveInv DEF Proceed
<1>3. CASE UNCHANGED vars
  BY <1>3 DEF vars, rows, StoreStep
<1> QED BY <1>1, <1>2, <1>3, StartInv, CrashInv DEF Next

\* A retired intent never comes back: cleanup_pending and deleted lead only to
\* each other.
THEOREM RetirementFinal == Spec => NeverRevived
<1>1. Inv /\ [Next]_vars =>
          [intent.state \in {"cleanup_pending", "deleted"} =>
              intent'.state \in {"cleanup_pending", "deleted"}]_vars
  BY NextPhase DEF PhaseStep, StoreStep, Gone
<1> QED BY <1>1, Invariance, PTL DEF Spec, NeverRevived

\* Who holds the claim: as before, nobody, or a call that found no live lease
\* or wrote objects itself.
TokenStep ==
    \/ intent'.token \in {intent.token, NoToken}
    \/ intent.lease # "live"
    \/ call[intent'.token].wrote

LEMMA TokenKept ==
    ASSUME NEW i \in IntentRow
    PROVE  /\ Expired(i).token = NoToken /\ Retired(i).token \in {i.token, NoToken}
           /\ Deleted(i).token = NoToken
           /\ \A s \in State, r \in {"none", "waiting", "due"} :
                  /\ [Released(i) EXCEPT !.retry = r].token = NoToken
                  /\ [Released(i) EXCEPT !.retry = r, !.state = s].token = NoToken
                  /\ [Released(i) EXCEPT !.state = s, !.retry = r].token = NoToken
  BY DEF Expired, Retired, Deleted, Released, IntentRow

LEMMA TokenClaimed ==
    ASSUME NEW i \in IntentRow, NEW c \in Calls
    PROVE  Claimed(i, c).token = c /\ StaleClaimed(i, c).token = c
  BY DEF Claimed, StaleClaimed, IntentRow

LEMMA NextToken ==
    ASSUME TypeOK, [Next]_vars PROVE TokenStep
<1>1. intent \in IntentRow
  BY DEF TypeOK
<1>2. CASE UNCHANGED intent
  BY <1>2 DEF TokenStep
<1>3. CASE OwnerStep \/ SubmissionStep \/ Expire
  <2>1. \/ intent' \in {intent, Expired(intent), Retired(intent)}
        \/ intent' = [Expired(intent) EXCEPT !.retry = "none",
                           !.srcPending = FALSE, !.srcRetry = "none"]
        \/ \E s \in State : intent' = [intent EXCEPT !.state = s]
    BY <1>3 DEF OwnerStep, IssueUpload, Attach, Remove, ClientPut, Finalize, rows,
                SubmissionStep, Withdraw, ExpireDraft, Revoke, SetActive, Expire,
                State
  <2>2. CASE intent' \in {intent, Expired(intent), Retired(intent)}
    BY <1>1, <2>2, TokenKept DEF TokenStep
  <2>3. CASE intent' = [Expired(intent) EXCEPT !.retry = "none",
                            !.srcPending = FALSE, !.srcRetry = "none"]
    BY <1>1, <2>3 DEF TokenStep, Expired, IntentRow
  <2>4. ASSUME NEW s \in State, intent' = [intent EXCEPT !.state = s]
        PROVE  TokenStep
    BY <1>1, <2>4 DEF TokenStep, IntentRow
  <2> QED BY <2>1, <2>2, <2>3, <2>4
<1>4. CASE Time
  BY <1>1, <1>4
     DEF Time, PresignExpires, IntentOverdue, LeaseExpires, RetryDue,
         SourceRetryDue, TimePasses, TokenStep, IntentRow
<1>5. ASSUME NEW v \in Verifiers, StartVerify(v) PROVE TokenStep
  BY <1>1, <1>5, TokenKept DEF StartVerify, TokenStep
<1>6. ASSUME NEW o \in Owners, StartOwnerCleanup(o) PROVE TokenStep
  BY <1>6 DEF StartOwnerCleanup, CleanupDue, TokenStep
<1>7. ASSUME NEW s \in Sweepers, ClaimCleanup(s) \/ ClaimSource(s) PROVE TokenStep
  BY <1>1, <1>7 DEF ClaimCleanup, ClaimSource, CleanupDue, TokenStep, IntentRow
<1>8. ASSUME NEW c \in Calls, Inspect(c) \/ Delete(c) \/ Crash(c) PROVE TokenStep
  <2>1. UNCHANGED intent
    BY <1>8 DEF Inspect, ReadSource, Seal, CheckSealed, Render, CheckRendition,
                Delete, DeleteObject, CheckAbsent, Crash, rows
  <2> QED BY <2>1 DEF TokenStep
<1>9. ASSUME NEW c \in Calls, Verify(c) \/ Approve(c) PROVE TokenStep
  <2>1. \/ call[c].wrote /\ intent' = StaleClaimed(intent, c)
        \/ intent' = intent
        \/ \E s \in State : intent' = [intent EXCEPT !.state = s]
        \/ intent' = [intent EXCEPT !.state = "verified", !.rendered = TRUE,
                                    !.srcPending = TRUE]
        \/ intent' = [intent EXCEPT !.rendered = TRUE]
    BY <1>9 DEF Verify, VerifyLost, VerifyFailed, VerifySucceeded, Approve,
                ClaimBackfill, FinishBackfill, FinishApprove, rows, State
  <2>2. CASE call[c].wrote /\ intent' = StaleClaimed(intent, c)
    BY <1>1, <2>2, TokenClaimed DEF TokenStep
  <2>3. ASSUME NEW s \in State, intent' = [intent EXCEPT !.state = s]
        PROVE  TokenStep
    BY <1>1, <2>3 DEF TokenStep, IntentRow
  <2>4. CASE \/ intent' = [intent EXCEPT !.state = "verified", !.rendered = TRUE,
                                         !.srcPending = TRUE]
             \/ intent' = [intent EXCEPT !.rendered = TRUE]
    BY <1>1, <2>4 DEF TokenStep, IntentRow
  <2>5. CASE intent' = intent
    BY <2>5 DEF TokenStep
  <2> QED BY <2>1, <2>2, <2>3, <2>4, <2>5
<1>10. ASSUME NEW c \in Calls,
              \/ FinishStale(c) \/ FinishSource(c)
              \/ FinishOwnerCleanup(c) \/ FinishCleanup(c)
       PROVE  TokenStep
  <2>1. \/ intent'.token = NoToken
        \/ intent' = intent
        \/ \E b \in BOOLEAN, r \in {"none", "waiting", "presign"} :
               intent' = [intent EXCEPT !.srcPending = b, !.srcRetry = r]
    <3>1. CASE FinishStale(c)
      BY <1>1, <3>1, TokenKept DEF FinishStale, State
    <3>2. CASE FinishSource(c)
      BY <1>1, <3>2 DEF FinishSource, IntentRow
    <3>3. CASE FinishOwnerCleanup(c)
      BY <1>1, <3>3, TokenKept DEF FinishOwnerCleanup, State
    <3>4. CASE FinishCleanup(c)
      BY <1>1, <3>4, TokenKept DEF FinishCleanup, State
    <3> QED BY <1>10, <3>1, <3>2, <3>3, <3>4
  <2> QED BY <1>1, <2>1 DEF TokenStep, IntentRow
<1>11. ASSUME NEW a \in Approvers, StartApprove(a) PROVE UNCHANGED intent
  BY <1>11 DEF StartApprove, rows
<1>12. CASE UNCHANGED vars
  BY <1>2, <1>12 DEF vars, rows
<1> QED BY <1>2, <1>3, <1>4, <1>5, <1>6, <1>7, <1>8, <1>9, <1>10, <1>11, <1>12
        DEF Next, Proceed

\* A claim is overridden only once its lease is over, or by a call that wrote
\* objects the claim's holder may have missed
\* (_claim_stale_seal_cleanup_locked, _claim_due_system_cleanup).
THEOREM ClaimsTakenOverDuly == Spec => ClaimTakenOverDuly
<1>1. TypeOK /\ [Next]_vars =>
          [(/\ intent.token # NoToken /\ intent.lease = "live"
            /\ intent'.token \notin {NoToken, intent.token}) =>
               call[intent'.token].wrote]_vars
  BY NextToken DEF TokenStep
<1> QED BY <1>1, TypeCorrect, PTL DEF Spec, ClaimTakenOverDuly

-----------------------------------------------------------------------------
\* The rows and calls implement the promise of MediaObject

LEMMA PhaseMeaning ==
    ASSUME TypeOK
    PROVE  /\ Gone => Phase = IF intent.state = "deleted" THEN "gone"
                                                       ELSE "retiring"
           /\ Kept => Phase = "retained"
           /\ ~Gone /\ ~Kept => Phase = "reserved"
<1>1. intent.state \in State
  BY DEF TypeOK, IntentRow
<1> QED BY <1>1 DEF Phase, Gone, Kept, State

LEMMA StepPromise ==
    ASSUME Inv, [Next]_vars PROVE [Promise!Next]_(Promise!vars)
<1>1. TypeOK /\ TypeOK'
  BY NextTypeOK DEF Inv
<1>2. /\ Gone => Phase = IF intent.state = "deleted" THEN "gone"
                                                    ELSE "retiring"
      /\ Kept => Phase = "retained"
      /\ ~Gone /\ ~Kept => Phase = "reserved"
  BY <1>1, PhaseMeaning
<1>3. /\ Gone' => Phase' = IF intent'.state = "deleted" THEN "gone"
                                                      ELSE "retiring"
      /\ Kept' => Phase' = "retained"
      /\ ~Gone' /\ ~Kept' => Phase' = "reserved"
  <2>1. intent'.state \in State
    BY <1>1 DEF TypeOK, IntentRow
  <2> QED BY <2>1 DEF Phase, Gone, Kept, State
<1>4. CASE StoreStep
  <2>1. Phase' = Phase
    BY <1>4 DEF StoreStep, Phase
  <2>2. CASE store'["sealed"] = store["sealed"]
    BY <2>1, <2>2 DEF Promise!vars
  <2>3. CASE store'["sealed"] = "good"
    BY <2>1, <2>3 DEF Promise!Next, Promise!Write
  <2>4. CASE Gone /\ store'["sealed"] = "absent"
    <3>1. Phase \in {"retiring", "gone"}
      BY <1>2, <2>4
    <3> QED BY <2>1, <2>4, <3>1 DEF Promise!Next, Promise!Erase
  <2> QED BY <1>4, <2>2, <2>3, <2>4 DEF StoreStep
<1>5. CASE PhaseStep
  <2>1. (store["sealed"] # "absent")' = (store["sealed"] # "absent")
    BY <1>5 DEF PhaseStep
  <2>2. CASE Gone
    <3>1. Gone'
      BY <1>5, <2>2 DEF PhaseStep
    <3> QED BY <1>2, <1>3, <2>1, <2>2, <3>1
            DEF Promise!Next, Promise!Delete, Promise!Reopen, Promise!vars
  <2>3. CASE ~Gone /\ Gone'
    <3>1. Phase' = "retiring" /\ Phase \in {"reserved", "retained"}
      BY <1>2, <1>3, <1>5, <2>3 DEF PhaseStep
    <3> QED BY <2>1, <3>1 DEF Promise!Next, Promise!Retire
  <2>4. CASE ~Gone /\ ~Gone'
    <3>1. CASE Kept
      BY <1>2, <1>3, <1>5, <2>1, <2>4, <3>1 DEF PhaseStep, Promise!vars
    <3>2. CASE ~Kept /\ Kept'
      <4>1. store["sealed"] = "good"
        BY <1>5, <3>2 DEF PhaseStep
      <4>2. Phase = "reserved" /\ Phase' = "retained"
        BY <1>2, <1>3, <2>4, <3>2
      <4> QED BY <2>1, <4>1, <4>2 DEF Promise!Next, Promise!Retain
    <3>3. CASE ~Kept /\ ~Kept'
      BY <1>2, <1>3, <2>1, <2>4, <3>3 DEF Promise!vars
    <3> QED BY <3>1, <3>2, <3>3
  <2> QED BY <2>2, <2>3, <2>4
<1> QED BY <1>4, <1>5, NextPhase

\* The steps of KeepsPromise: whatever the rows, leases, claims and storage
\* requests do, retained media is never erased, only media whose sealed object
\* is there is retained, and retirement is final.
THEOREM PromiseSteps == Spec => Promise!Init /\ [][Promise!Next]_(Promise!vars)
<1>1. Init => Promise!Init
  <2> SUFFICES ASSUME Init PROVE Promise!Init
    OBVIOUS
  <2>1. intent.state = IF Legacy THEN "attached" ELSE "created"
    BY DEF Init, NewIntent
  <2>2. Phase = IF Legacy THEN "retained" ELSE "reserved"
    BY <2>1, InitTypeOK, PhaseMeaning DEF Gone, Kept
  <2>3. store["sealed"] = IF Legacy THEN "good" ELSE "absent"
    BY DEF Init, Objects
  <2> QED BY <2>2, <2>3, BoundsAssumption DEF Promise!Init
<1>2. Inv /\ [Next]_vars => [Promise!Next]_(Promise!vars)
  BY StepPromise
<1> QED BY <1>1, <1>2, Invariance, PTL DEF Spec

-----------------------------------------------------------------------------
\* The row lives as UploadLife has it, and so as in DraftMedia

Inspects(c) == call[c].pc \in {"read", "seal", "sealCheck", "render",
                               "renderCheck", "commit"}

LEMMA ExpiredState ==
    ASSUME NEW i \in IntentRow
    PROVE  /\ Expired(i).state = "cleanup_pending"
           /\ Retired(i).state = IF i.state = "deleted" THEN "deleted"
                                                        ELSE "cleanup_pending"
BY DEF Expired, Retired, IntentRow

\* When a call moves on, its inspection goes on, ends or begins, or it had none.
LEMMA InspectionMoves ==
    ASSUME Inv, NEW c \in Calls, NEW s, Become(c, s)
    PROVE  /\ BeingInspected' \in BOOLEAN
           /\ Inspects(c) => BeingInspected
           /\ Inspects(c)' => BeingInspected'
           /\ (Inspects(c)' <=> Inspects(c)) => BeingInspected' = BeingInspected
           /\ Inspects(c)' <=> s.pc \in {"read", "seal", "sealCheck", "render",
                                         "renderCheck", "commit"}
<1>1. /\ call'[c] = s
      /\ \A d \in Calls \ {c} : call'[d] = call[d]
  BY DEF Become, Inv, TypeOK
<1>2. \A d \in Calls \ {c} : Inspects(d)' = Inspects(d)
  BY <1>1 DEF Inspects
<1>3. /\ BeingInspected <=> \E d \in Calls : Inspects(d)
      /\ BeingInspected' <=> \E d \in Calls : Inspects(d)'
  BY DEF BeingInspected, Inspects
<1>4. BeingInspected \in BOOLEAN /\ BeingInspected' \in BOOLEAN
  BY DEF BeingInspected
<1>5. Inspects(c)' <=> s.pc \in {"read", "seal", "sealCheck", "render",
                                 "renderCheck", "commit"}
  BY <1>1 DEF Inspects
<1>6. (\E d \in Calls : Inspects(d)') <=>
          Inspects(c)' \/ \E d \in Calls \ {c} : Inspects(d)'
  OBVIOUS
<1>7. (\E d \in Calls : Inspects(d)) <=>
          Inspects(c) \/ \E d \in Calls \ {c} : Inspects(d)
  OBVIOUS
<1>8. (\E d \in Calls \ {c} : Inspects(d)') <=>
          \E d \in Calls \ {c} : Inspects(d)
  BY <1>2
<1> QED BY <1>3, <1>4, <1>5, <1>6, <1>7, <1>8

\* The rows change alone: what the owner, time and the submission do.
LEMMA RowLife ==
    ASSUME Inv, OwnerStep \/ SubmissionStep \/ Expire \/ Time
    PROVE  [Life!Next]_(Life!vars)
<1>1. /\ intent \in IntentRow /\ image \in BOOLEAN
      /\ image <=> intent.state = "attached"
  BY DEF Inv, TypeOK, RowConsistent
<1>2. BeingInspected' = BeingInspected
  <2>1. call' = call
    BY DEF OwnerStep, SubmissionStep, Time, IssueUpload, Attach, Remove,
           ClientPut, Finalize, Withdraw, ExpireDraft, Revoke, SetActive,
           Expire, PresignExpires, IntentOverdue, LeaseExpires, RetryDue,
           SourceRetryDue, TimePasses, RowStep
  <2> QED BY <2>1 DEF BeingInspected
<1>3. /\ Expired(intent).state = "cleanup_pending"
      /\ Retired(intent).state = IF intent.state = "deleted"
                                 THEN "deleted" ELSE "cleanup_pending"
  BY <1>1, ExpiredState
<1>4. CASE IssueUpload
  <2>1. CASE overdue
    BY <1>2, <1>3, <1>4, <2>1 DEF IssueUpload, Life!Next, Life!GiveUp
  <2>2. CASE ~overdue
    <3>1. intent'.state = "issued"
      BY <1>1, <1>4, <2>2 DEF IssueUpload, IntentRow
    <3> QED BY <1>2, <1>4, <3>1
            DEF IssueUpload, Life!Next, Life!Issue, Life!Drafted, Life!vars
  <2> QED BY <2>1, <2>2
<1>5. CASE Attach
  <2>1. CASE overdue
    BY <1>2, <1>3, <1>5, <2>1 DEF Attach, Life!Next, Life!GiveUp
  <2>2. CASE ~overdue
    <3>1. intent'.state = "attached"
      BY <1>1, <1>5, <2>2 DEF Attach, IntentRow
    <3> QED BY <1>2, <1>5, <2>2, <3>1
            DEF Attach, Life!Next, Life!Attach, Life!Drafted
  <2> QED BY <2>1, <2>2
<1>6. CASE Remove \/ Revoke
  BY <1>2, <1>3, <1>6 DEF Remove, Revoke, Life!Next, Life!Detach
<1>7. CASE Finalize
  BY <1>1, <1>2, <1>7
  DEF Finalize, MediaReady, Life!Next, Life!Proceed, Life!Ready
<1>8. CASE Withdraw \/ ExpireDraft
  <2>1. intent'.state = IF intent.state = "deleted"
                        THEN "deleted" ELSE "cleanup_pending"
    <3>1. [Expired(intent) EXCEPT !.retry = "none", !.srcPending = FALSE,
                                  !.srcRetry = "none"].state = "cleanup_pending"
      BY <1>1 DEF Expired, IntentRow
    <3> QED BY <1>3, <1>8, <3>1 DEF Withdraw, ExpireDraft
  <2>2. intent.state # "none"
    BY <1>1 DEF IntentRow, State
  <2> QED BY <1>2, <1>8, <2>1, <2>2 DEF Withdraw, ExpireDraft, Life!Next, Life!Close
<1>9. CASE Expire
  BY <1>2, <1>3, <1>9 DEF Expire, Life!Next, Life!GiveUp
<1>10. CASE ClientPut \/ SetActive \/ Time
  <2>1. /\ intent'.state = intent.state
        /\ UNCHANGED <<submission, image>>
    BY <1>1, <1>10
    DEF ClientPut, SetActive, Time, PresignExpires, IntentOverdue,
        LeaseExpires, RetryDue, SourceRetryDue, TimePasses, IntentRow, rows
  <2> QED BY <1>2, <2>1 DEF Life!vars
<1> QED BY <1>4, <1>5, <1>6, <1>7, <1>8, <1>9, <1>10
        DEF OwnerStep, SubmissionStep

\* A call does something else than inspect: it starts, deletes, or ends.
LEMMA OtherCallLife ==
    ASSUME Inv, NEW c \in Calls, NEW s, Become(c, s), ~Inspects(c),
           s.pc \notin {"read", "seal", "sealCheck", "render", "renderCheck",
                        "commit"},
           UNCHANGED <<submission, image>>,
           \/ intent'.state = intent.state
           \/ intent.state = "cleanup_pending" /\ intent'.state = "deleted"
           \/ /\ intent.state \in {"created", "issued", "verified"}
              /\ intent'.state = "cleanup_pending"
    PROVE  [Life!Next]_(Life!vars)
<1>1. ~Inspects(c)'
  BY InspectionMoves
<1>2. BeingInspected' = BeingInspected
  BY <1>1, InspectionMoves
<1> QED BY <1>2 DEF Life!Next, Life!Clean, Life!GiveUp, Life!vars

LEMMA StartLife ==
    ASSUME Inv,
           \/ \E v \in Verifiers : StartVerify(v)
           \/ \E a \in Approvers : StartApprove(a)
           \/ \E o \in Owners : StartOwnerCleanup(o)
           \/ \E s \in Sweepers : ClaimCleanup(s) \/ ClaimSource(s)
    PROVE  [Life!Next]_(Life!vars)
<1>1. intent \in IntentRow
  BY DEF Inv, TypeOK
<1>2. Expired(intent).state = "cleanup_pending"
  BY <1>1, ExpiredState
<1>3. ASSUME NEW v \in Verifiers, StartVerify(v) PROVE [Life!Next]_(Life!vars)
  <2>1. v \in Calls /\ UNCHANGED <<submission, image>>
    BY <1>3 DEF Calls, StartVerify
  <2>2. CASE UNCHANGED <<intent, call>>
    BY <2>1, <2>2 DEF Life!vars, BeingInspected
  <2>3. CASE intent.state = "issued" /\ intent' = Expired(intent) /\ UNCHANGED call
    BY <1>2, <2>1, <2>3 DEF Life!Next, Life!GiveUp, BeingInspected
  <2>4. CASE intent.state = "issued" /\ Become(v, Inspecting("verify"))
             /\ UNCHANGED intent
    <3>1. Inspecting("verify").pc = "read"
      BY CallColumns
    <3>2. BeingInspected'
      BY <2>1, <2>4, <3>1, InspectionMoves
    <3> QED BY <1>3, <2>1, <2>4, <3>2
            DEF StartVerify, Life!Next, Life!Begin, BeingInspected
  <2> QED BY <1>3, <2>2, <2>3, <2>4 DEF StartVerify
<1>4. ASSUME NEW a \in Approvers, StartApprove(a) PROVE [Life!Next]_(Life!vars)
  <2>1. a \in Calls /\ ~Inspects(a) /\ UNCHANGED <<submission, image, intent>>
    BY <1>4 DEF Calls, StartApprove, At, Inspects, rows
  <2>2. [Idle EXCEPT !.pc = "backfill"].pc = "backfill"
    BY DEF Idle
  <2> QED BY <1>4, <2>1, <2>2, OtherCallLife DEF StartApprove
<1>5. ASSUME NEW o \in Owners, StartOwnerCleanup(o)
      PROVE  [Life!Next]_(Life!vars)
  <2>1. o \in Calls /\ ~Inspects(o) /\ UNCHANGED <<submission, image>>
    BY <1>5 DEF Calls, StartOwnerCleanup, At, Inspects
  <2>2. CASE UNCHANGED <<intent, call>>
    BY <2>1, <2>2 DEF Life!vars, BeingInspected
  <2>3. CASE CleanupDue /\ intent' = Claimed(intent, o)
             /\ Become(o, Deleting("owner", "upload"))
    <3>1. intent'.state = intent.state
      BY <1>1, <2>3, ClaimedRow DEF CleanupDue
    <3>2. Deleting("owner", "upload").pc = "delete"
      BY CallColumns
    <3> QED BY <2>1, <2>3, <3>1, <3>2, OtherCallLife
  <2> QED BY <1>5, <2>2, <2>3 DEF StartOwnerCleanup
<1>6. ASSUME NEW s \in Sweepers, ClaimCleanup(s) \/ ClaimSource(s)
      PROVE  [Life!Next]_(Life!vars)
  <2>1. s \in Calls /\ ~Inspects(s) /\ UNCHANGED <<submission, image>>
    BY <1>6 DEF Calls, ClaimCleanup, ClaimSource, At, Inspects
  <2>2. intent'.state = intent.state
    BY <1>1, <1>6, ClaimedRow DEF ClaimCleanup, ClaimSource, CleanupDue, IntentRow
  <2>3. PICK k \in {"system", "source"} : Become(s, Deleting(k, "upload"))
    BY <1>6 DEF ClaimCleanup, ClaimSource
  <2>4. Deleting(k, "upload").pc = "delete"
    BY CallColumns
  <2> QED BY <2>1, <2>2, <2>3, <2>4, OtherCallLife
<1> QED BY <1>3, <1>4, <1>5, <1>6

\* The object store is not seen.
LEMMA StorageLife ==
    ASSUME Inv, NEW c \in Calls, Inspect(c) \/ Delete(c)
    PROVE  UNCHANGED Life!vars
<1>1. UNCHANGED <<submission, image, intent>>
  BY DEF Inspect, ReadSource, Seal, CheckSealed, Render, CheckRendition,
         Delete, DeleteObject, CheckAbsent, rows
<1>2. call[c] \in CallState
  BY DEF Inv, TypeOK
<1>3. CASE Inspect(c)
  <2>1. Inspects(c)
    BY <1>3 DEF Inspect, ReadSource, Seal, CheckSealed, Render, CheckRendition,
                At, Inspects
  <2>2. PICK s : /\ Become(c, s)
                 /\ s.pc \in {"seal", "sealCheck", "render", "renderCheck", "commit"}
    <3>1. /\ [call[c] EXCEPT !.pc = "seal"].pc = "seal"
          /\ [call[c] EXCEPT !.pc = "render"].pc = "render"
          /\ [call[c] EXCEPT !.pc = "renderCheck"].pc = "renderCheck"
          /\ [call[c] EXCEPT !.pc = "sealCheck", !.wrote = TRUE].pc = "sealCheck"
      BY <1>2 DEF CallState
    <3>2. ASSUME NEW g \in BOOLEAN, NEW w \in BOOLEAN, Inspected(c, g, w)
          PROVE  \E s : Become(c, s) /\ s.pc = "commit"
      <4>1. [call[c] EXCEPT !.pc = "commit", !.good = g, !.wrote = w].pc = "commit"
        BY <1>2 DEF CallState
      <4> QED BY <3>2, <4>1 DEF Inspected
    <3>3. CASE ReadSource(c)
      BY <3>1, <3>2, <3>3 DEF ReadSource
    <3>4. CASE Seal(c)
      BY <3>1, <3>2, <3>4 DEF Seal
    <3>5. CASE CheckSealed(c)
      BY <3>1, <3>2, <3>5 DEF CheckSealed
    <3>6. CASE Render(c)
      BY <3>1, <3>2, <3>6 DEF Render
    <3>7. CASE CheckRendition(c)
      BY <3>2, <3>7 DEF CheckRendition
    <3> QED BY <1>3, <3>3, <3>4, <3>5, <3>6, <3>7 DEF Inspect
  <2>3. Inspects(c)'
    BY <2>2, InspectionMoves
  <2>4. BeingInspected' = BeingInspected
    BY <2>1, <2>2, <2>3, InspectionMoves
  <2> QED BY <1>1, <2>4 DEF Life!vars
<1>4. CASE Delete(c)
  <2>1. ~Inspects(c)
    BY <1>4 DEF Delete, DeleteObject, CheckAbsent, At, Inspects
  <2>2. PICK s : Become(c, s) /\ s.pc \in {"delete", "check", "finish"}
    <3>1. [call[c] EXCEPT !.pc = "check"].pc = "check"
      BY <1>2 DEF CallState
    <3>2. \A b : Advance(c, b) =>
              \E s : Become(c, s) /\ s.pc \in {"delete", "check", "finish"}
      <4> SUFFICES ASSUME NEW b, Advance(c, b)
                   PROVE  \E s : Become(c, s) /\ s.pc \in {"delete", "check", "finish"}
        OBVIOUS
      <4> DEFINE f == [call[c] EXCEPT !.pc = "finish", !.gone = @ /\ b]
                 d == [call[c] EXCEPT !.pc = "delete", !.gone = @ /\ b,
                                      !.cursor = NextObject(call[c].cursor)]
      <4>1. f.pc = "finish" /\ d.pc = "delete"
        BY <1>2 DEF CallState
      <4>2. Become(c, f) \/ Become(c, d)
        BY DEF Advance
      <4> QED BY <4>1, <4>2
    <3>3. \/ Become(c, [call[c] EXCEPT !.pc = "check"])
          \/ \E b : Advance(c, b)
      BY <1>4 DEF Delete, DeleteObject, CheckAbsent
    <3> QED BY <3>1, <3>2, <3>3
  <2>3. ~Inspects(c)'
    BY <2>2, InspectionMoves
  <2>4. BeingInspected' = BeingInspected
    BY <2>1, <2>2, <2>3, InspectionMoves
  <2> QED BY <1>1, <2>4 DEF Life!vars
<1> QED BY <1>3, <1>4

LEMMA FinishLife ==
    ASSUME Inv, NEW c \in Calls,
           \/ FinishStale(c) \/ FinishSource(c)
           \/ c \in Owners /\ FinishOwnerCleanup(c)
           \/ c \in Sweepers /\ FinishCleanup(c)
    PROVE  [Life!Next]_(Life!vars)
<1>1. /\ intent \in IntentRow
      /\ c # NoToken
      /\ intent.token # NoToken => intent.state = "cleanup_pending"
  BY CallsAssumption DEF Inv, TypeOK, RowConsistent
<1>2. /\ ~Inspects(c) /\ Become(c, AfterCall(c))
      /\ UNCHANGED <<submission, image>>
  BY DEF FinishStale, FinishSource, FinishOwnerCleanup, FinishCleanup,
         FinishStep, At, Inspects
<1>3. AfterCall(c).pc \in {"idle", "approve"}
  BY CallColumns
<1>4. \/ intent'.state = intent.state
      \/ intent.state = "cleanup_pending" /\ intent'.state = "deleted"
  <2>1. CASE FinishStale(c)
    <3>1. \A t : /\ [Released(intent) EXCEPT !.retry = "none",
                                             !.state = t].state = t
                 /\ [Released(intent) EXCEPT !.retry = "waiting"].state = intent.state
      BY <1>1, ReleasedRow
    <3>2. CASE HoldsClaim(c) /\ call[c].gone /\ ~image
      <4> DEFINE t == IF call[c].restore THEN "deleted" ELSE "cleanup_pending"
      <4>1. intent' = [Released(intent) EXCEPT !.retry = "none", !.state = t]
        BY <2>1, <3>2 DEF FinishStale
      <4>2. intent'.state = t
        BY <3>1, <4>1
      <4> QED BY <3>2, <4>2 DEF HoldsClaim
    <3>3. CASE ~(HoldsClaim(c) /\ call[c].gone /\ ~image)
      BY <2>1, <3>1, <3>3 DEF FinishStale
    <3> QED BY <3>2, <3>3
  <2>2. CASE FinishSource(c)
    BY <1>1, <2>2 DEF FinishSource, IntentRow
  <2>3. CASE FinishOwnerCleanup(c)
    <3>1. /\ Deleted(intent).state = "deleted"
          /\ [Released(intent) EXCEPT !.state = "cleanup_pending",
                 !.retry = "waiting"].state = "cleanup_pending"
      BY <1>1, ReleasedRow
    <3> QED BY <1>1, <2>3, <3>1 DEF FinishOwnerCleanup
  <2>4. CASE FinishCleanup(c)
    BY <1>1, <2>4, ReleasedRow DEF FinishCleanup, HoldsClaim
  <2> QED BY <2>1, <2>2, <2>3, <2>4
<1> QED BY <1>2, <1>3, <1>4, OtherCallLife

\* The end of an inspection.
LEMMA EndLife ==
    ASSUME Inv, NEW c \in Calls, Inspects(c), NEW s, Become(c, s),
           UNCHANGED <<submission, image>>,
           \/ intent'.state = intent.state
           \/ /\ intent.state \notin {"none", "attached"}
              /\ intent'.state = "cleanup_pending"
           \/ /\ submission = "draft" /\ intent.state = "issued"
              /\ intent'.state = "verified"
    PROVE  [Life!Next]_(Life!vars)
<1>1. BeingInspected /\ BeingInspected' \in BOOLEAN
  BY InspectionMoves
<1>2. intent.state \in State
  BY DEF Inv, TypeOK, IntentRow
<1>3. CASE intent'.state = intent.state
  BY <1>1, <1>3 DEF Life!Next, Life!Leave, Life!Ends
<1>4. CASE /\ intent.state \in {"created", "issued", "verified"}
           /\ intent'.state = "cleanup_pending"
  BY <1>1, <1>4 DEF Life!Next, Life!GiveUp, Life!Ends
<1>5. CASE intent.state = "deleted" /\ intent'.state = "cleanup_pending"
  BY <1>1, <1>5 DEF Life!Next, Life!Reopen, Life!Ends
<1>6. CASE /\ submission = "draft" /\ intent.state = "issued"
           /\ intent'.state = "verified"
  BY <1>1, <1>6 DEF Life!Next, Life!Verify, Life!Ends
<1> QED BY <1>2, <1>3, <1>4, <1>5, <1>6 DEF State

LEMMA VerifyLife ==
    ASSUME Inv, NEW v \in Verifiers, Verify(v)
    PROVE  [Life!Next]_(Life!vars)
<1>1. v \in Calls /\ Inspects(v) /\ UNCHANGED <<submission, image>>
  BY DEF Calls, Verify, VerifyLost, VerifyFailed, VerifySucceeded, CommitStep,
         At, Inspects
<1>2. intent \in IntentRow
  BY DEF Inv, TypeOK
<1>3. intent.state # "none"
  BY <1>2 DEF IntentRow, State
<1>4. \E s : Become(v, s)
  BY DEF Verify, VerifyLost, VerifyFailed, VerifySucceeded
<1>5. CASE VerifyLost(v)
  BY <1>1, <1>2, <1>3, <1>4, <1>5, ClaimedRow, EndLife
  DEF VerifyLost, StaleClaimable
<1>6. CASE VerifyFailed(v)
  <2>1. intent.state = "issued" /\ intent'.state = "cleanup_pending"
    BY <1>1, <1>2, <1>6, ClaimedRow DEF VerifyFailed, StillIssued, IntentRow
  <2> QED BY <1>1, <1>4, <2>1, EndLife
<1>7. CASE VerifySucceeded(v)
  <2>1. /\ intent.state = "issued" /\ intent'.state = "verified"
        /\ submission = "draft"
    BY <1>2, <1>7 DEF VerifySucceeded, StillIssued, Confirmed, IntentRow
  <2> QED BY <1>1, <1>4, <2>1, EndLife
<1> QED BY <1>5, <1>6, <1>7 DEF Verify

LEMMA ApproveLife ==
    ASSUME Inv, NEW a \in Approvers, Approve(a)
    PROVE  [Life!Next]_(Life!vars)
<1>1. a \in Calls
  BY DEF Calls
<1>2. intent \in IntentRow
  BY DEF Inv, TypeOK
<1>3. image <=> intent.state = "attached"
  BY DEF Inv, RowConsistent
<1>4. AfterCall(a).pc \in {"idle", "approve"} /\ Inspecting("backfill").pc = "read"
      /\ Idle.pc = "idle"
  BY CallColumns
<1>5. CASE ClaimBackfill(a)
  <2>1. ~Inspects(a) /\ UNCHANGED <<submission, image, intent>>
    BY <1>5 DEF ClaimBackfill, At, Inspects, rows
  <2>2. CASE submission = "pending" /\ image /\ Become(a, Inspecting("backfill"))
    <3>1. BeingInspected'
      BY <1>1, <1>4, <2>2, InspectionMoves
    <3> QED BY <2>1, <2>2, <3>1 DEF Life!Next, Life!Begin, BeingInspected
  <2>3. CASE Become(a, AfterCall(a))
    BY <1>1, <1>4, <2>1, <2>3, OtherCallLife
  <2> QED BY <1>5, <2>2, <2>3 DEF ClaimBackfill
<1>6. CASE FinishBackfill(a)
  <2>1. /\ Inspects(a) /\ UNCHANGED <<submission, image>>
        /\ \E s : Become(a, s)
    BY <1>6 DEF FinishBackfill, At, Inspects
  <2>2. \/ intent'.state = intent.state
        \/ /\ intent.state \notin {"none", "attached"}
           /\ intent'.state = "cleanup_pending"
    <3>1. intent.state # "none" /\ [intent EXCEPT !.rendered = TRUE].state = intent.state
      BY <1>2 DEF IntentRow, State
    <3>2. StaleClaimed(intent, a).state = "cleanup_pending"
      BY <1>2, ClaimedRow
    <3>3. \/ intent' \in {intent, [intent EXCEPT !.rendered = TRUE]}
          \/ intent' = StaleClaimed(intent, a) /\ StaleClaimable(intent)
      BY <1>6 DEF FinishBackfill
    <3> QED BY <3>1, <3>2, <3>3 DEF StaleClaimable
  <2> QED BY <1>1, <2>1, <2>2, EndLife
<1>7. CASE FinishApprove(a)
  <2>1. ~Inspects(a) /\ Become(a, Idle) /\ UNCHANGED <<image, intent>>
    BY <1>7 DEF FinishApprove, At, Inspects
  <2>2. ~Inspects(a)'
    BY <1>1, <1>4, <2>1, InspectionMoves
  <2>3. BeingInspected' = BeingInspected
    BY <1>1, <2>1, <2>2, InspectionMoves
  <2>4. \/ submission' = submission
        \/ submission = "pending" /\ submission' = "approved" /\ MediaReady
    BY <1>7 DEF FinishApprove
  <2> QED BY <1>3, <2>1, <2>3, <2>4
          DEF MediaReady, Life!Next, Life!Proceed, Life!Ready, Life!vars
<1> QED BY <1>5, <1>6, <1>7 DEF Approve

LEMMA CrashLife ==
    ASSUME Inv, NEW c \in Calls, Crash(c) PROVE [Life!Next]_(Life!vars)
<1>1. Become(c, Idle) /\ UNCHANGED <<submission, image, intent>>
  BY DEF Crash, rows
<1>2. Idle.pc = "idle"
  BY CallColumns
<1>3. CASE Inspects(c)
  BY <1>1, <1>3, EndLife
<1>4. CASE ~Inspects(c)
  BY <1>1, <1>2, <1>4, OtherCallLife
<1> QED BY <1>3, <1>4

\* Whatever calls do to one intent is the life of an upload that DraftMedia
\* gives to every upload of a submission.
THEOREM RowLives == Spec => LivesAsUpload
<1>1. Init => Life!Init
  <2> SUFFICES ASSUME Init PROVE Life!Init
    OBVIOUS
  <2>1. intent.state = IF Legacy THEN "attached" ELSE "created"
    BY DEF Init, NewIntent
  <2>2. ~BeingInspected
    BY DEF Init, Idle, BeingInspected
  <2> QED BY <2>1, <2>2, BoundsAssumption DEF Init, Life!Init, BeingInspected
<1>2. ASSUME Inv, [Next]_vars PROVE [Life!Next]_(Life!vars)
  <2>1. CASE UNCHANGED vars
    BY <2>1 DEF vars, rows, Life!vars, BeingInspected
  <2>2. ASSUME NEW c \in Calls, Proceed(c) PROVE [Life!Next]_(Life!vars)
    BY <1>2, <2>2, StorageLife, FinishLife, VerifyLife, ApproveLife DEF Proceed
  <2> QED BY <1>2, <2>1, <2>2, RowLife, StartLife, CrashLife DEF Next
<1> QED BY <1>1, <1>2, Invariance, PTL DEF Spec, LivesAsUpload, Life!Spec
=============================================================================

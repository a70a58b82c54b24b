------------------------- MODULE PublicMediaProofs -------------------------
(***************************************************************************)
(* What is public is public as a whole, for any number of submissions,     *)
(* renditions, accounts and requests in progress.                          *)
(***************************************************************************)
EXTENDS PublicMedia, TLAPS

\* What a call works on is a rendition or a place, as its operation says.
Targeted(c) ==
    call[c].pc # "idle" =>
        IF call[c].op \in {"retrieve", "revoke"}
        THEN /\ call[c].target \in Renditions
             /\ call[c].op = "revoke" => call[c].actor \in Staff /\ call[c].key \in Keys
        ELSE /\ call[c].op \in {"approve", "delete", "edit"}
             /\ call[c].target \in Requests
             /\ call[c].pc = "request" => call[c].op = "approve"

\* A place comes from an approval.
PlaceApproved == \A r \in Requests : request[r] = "pending" <=> place[r] = "none"

\* A hard deletion or an edit works on a place that was there when it looked,
\* and the deletion goes on only without evidence.
Found(c) ==
    /\ At(c, "edit", "save") \/ At(c, "delete", "actor") \/ At(c, "delete", "requests")
           => request[call[c].target] = "approved"
    /\ At(c, "delete", "requests") => call[c].target \notin evidence

\* An image has all its rows and its bytes until it is revoked, and becomes
\* public with the evidence of its submission.
Intact(m) ==
    /\ media[m].rendition # "revoked" =>
           media[m].intent = "attached" /\ media[m].image /\ media[m].object
    /\ media[m].rendition # "none" => RequestOf[m] \in evidence

\* The inductive invariant.
IInv == /\ TypeOK
        /\ \A c \in Calls : Targeted(c)
        /\ PlaceApproved
        /\ \A c \in Calls : Found(c)
        /\ \A m \in Renditions : Intact(m)
        /\ PublicationWhole
        /\ RevokedOnce

USE RequestOfAssumption, LegacyAssumption, ApartAssumption, NoneAssumption

-----------------------------------------------------------------------------
LEMMA InitIInv == Init => IInv
<1> SUFFICES ASSUME Init PROVE IInv
  OBVIOUS
<1>1. TypeOK
  BY DEF Init, TypeOK, Row, Media, Call, Idle
<1>2. \A c \in Calls : Targeted(c) /\ Found(c)
  BY DEF Init, Targeted, Found, At, Idle
<1>3. PlaceApproved
  BY DEF Init, PlaceApproved
<1>4. \A m \in Renditions : Intact(m)
  BY DEF Init, Intact
<1>5. PublicationWhole /\ RevokedOnce
  BY DEF Init, PublicationWhole, RevokedOnce
<1> QED BY <1>1, <1>2, <1>3, <1>4, <1>5 DEF IInv

-----------------------------------------------------------------------------
\* The steps that change only where a call is

\* No row changes, and one call is where the invariant lets it be.
LEMMA CallStep ==
    ASSUME IInv, UNCHANGED <<public, record, deleted, admin>>,
           NEW c \in Calls, NEW to \in Call, call' = [call EXCEPT ![c] = to],
           Targeted(c)', Found(c)'
    PROVE  IInv'
<1>1. TypeOK'
  BY DEF IInv, TypeOK, public
<1>2. \A d \in Calls : Targeted(d)' /\ Found(d)'
  <2> SUFFICES ASSUME NEW d \in Calls, d # c PROVE Targeted(d)' /\ Found(d)'
    OBVIOUS
  <2>1. call'[d] = call[d]
    BY DEF IInv, TypeOK
  <2> QED BY <2>1 DEF IInv, Targeted, Found, At, public
<1>3. PlaceApproved' /\ (\A m \in Renditions : Intact(m)')
      /\ PublicationWhole' /\ RevokedOnce'
  BY DEF IInv, PlaceApproved, Intact, PublicationWhole, RevokedOnce, Exists, public
<1> QED BY <1>1, <1>2, <1>3 DEF IInv

\* A call that is answered.
LEMMA FinishStep ==
    ASSUME IInv, NEW c \in Calls, Finish(c),
           UNCHANGED <<public, record, deleted, admin>>
    PROVE  IInv'
<1>1. Idle \in Call
  BY DEF Idle, Call
<1>2. call'[c] = Idle
  BY DEF IInv, TypeOK, Finish
<1>3. Targeted(c)' /\ Found(c)'
  BY <1>2 DEF Targeted, Found, At, Idle
<1> QED BY <1>1, <1>3, CallStep DEF Finish

\* A call that goes on to its next lock or to its answer.
LEMMA GotoStep ==
    ASSUME IInv, NEW c \in Calls, NEW pc, Goto(c, pc), call[c].pc # "idle",
           pc \in {"authorize", "serve", "actor", "requests"},
           call[c].op = "delete" /\ pc \in {"actor", "requests"} =>
               /\ request[call[c].target] = "approved"
               /\ pc = "requests" => call[c].target \notin evidence,
           UNCHANGED <<public, record, deleted, admin>>
    PROVE  IInv'
<1> DEFINE to == [call[c] EXCEPT !.pc = pc]
<1>1. call[c] \in Call
  BY DEF IInv, TypeOK
<1>2. to \in Call /\ call' = [call EXCEPT ![c] = to]
  BY <1>1 DEF Call, Goto
<1>3. call'[c] = to
  BY <1>2 DEF IInv, TypeOK
<1>4. /\ to.pc = pc /\ to.op = call[c].op /\ to.target = call[c].target
      /\ to.actor = call[c].actor /\ to.key = call[c].key
  BY <1>1 DEF Call
<1>5. Targeted(c)'
  BY <1>3, <1>4 DEF IInv, Targeted
<1>6. Found(c)'
  BY <1>3, <1>4 DEF Found, At, public
<1> QED BY <1>2, <1>5, <1>6, CallStep

\* A call that begins.
LEMMA StartStep ==
    ASSUME IInv, NEW c \in Calls, Start(c)
    PROVE  IInv'
<1>1. ASSUME NEW m \in Renditions, Retrieve(c, m) PROVE IInv'
  <2> DEFINE to == [pc |-> "object", op |-> "retrieve", actor |-> None,
                    key |-> None, target |-> m]
  <2>1. to \in Call /\ call' = [call EXCEPT ![c] = to]
    BY <1>1 DEF Retrieve, Begin, Call, Op
  <2>2. call'[c] = to
    BY <2>1 DEF IInv, TypeOK
  <2>3. Targeted(c)' /\ Found(c)'
    BY <2>2 DEF Targeted, Found, At
  <2> QED BY <1>1, <2>1, <2>3, CallStep DEF Retrieve
<1>2. ASSUME NEW m \in Renditions, NEW a \in Staff, NEW k \in Keys,
             Revoke(c, a, k, m)
      PROVE  IInv'
  <2> DEFINE to == [pc |-> "request", op |-> "revoke", actor |-> a,
                    key |-> k, target |-> m]
  <2>1. to \in Call /\ call' = [call EXCEPT ![c] = to]
    BY <1>2 DEF Revoke, Begin, Call, Op
  <2>2. call'[c] = to
    BY <2>1 DEF IInv, TypeOK
  <2>3. Targeted(c)' /\ Found(c)'
    BY <2>2 DEF Targeted, Found, At
  <2> QED BY <1>2, <2>1, <2>3, CallStep DEF Revoke
<1>3. ASSUME NEW r \in Requests, NEW a \in Staff, Approve(c, a, r) PROVE IInv'
  <2> DEFINE to == [pc |-> "request", op |-> "approve", actor |-> a,
                    key |-> None, target |-> r]
  <2>1. to \in Call /\ call' = [call EXCEPT ![c] = to]
    BY <1>3 DEF Approve, Begin, Call, Op
  <2>2. call'[c] = to
    BY <2>1 DEF IInv, TypeOK
  <2>3. Targeted(c)' /\ Found(c)'
    BY <2>2 DEF Targeted, Found, At
  <2> QED BY <1>3, <2>1, <2>3, CallStep DEF Approve
<1>4. ASSUME NEW r \in Requests, NEW a \in Staff, Delete(c, a, r) PROVE IInv'
  <2> DEFINE to == [pc |-> "place", op |-> "delete", actor |-> a,
                    key |-> None, target |-> r]
  <2>1. to \in Call /\ call' = [call EXCEPT ![c] = to]
    BY <1>4 DEF Delete, Begin, Call, Op
  <2>2. call'[c] = to
    BY <2>1 DEF IInv, TypeOK
  <2>3. Targeted(c)' /\ Found(c)'
    BY <2>2 DEF Targeted, Found, At
  <2> QED BY <1>4, <2>1, <2>3, CallStep DEF Delete
<1>5. ASSUME NEW r \in Requests, Edit(c, r) PROVE IInv'
  <2> DEFINE to == [pc |-> "save", op |-> "edit", actor |-> None,
                    key |-> None, target |-> r]
  <2>1. to \in Call /\ call' = [call EXCEPT ![c] = to]
    BY <1>5 DEF Edit, Begin, Call, Op
  <2>2. call'[c] = to
    BY <2>1 DEF IInv, TypeOK
  <2>3. request'[r] = "approved"
    BY <1>5 DEF Edit, Exists, IInv, TypeOK, PlaceApproved, public
  <2>4. Targeted(c)' /\ Found(c)'
    BY <2>2, <2>3 DEF Targeted, Found, At
  <2> QED BY <1>5, <2>1, <2>4, CallStep DEF Edit
<1> QED BY <1>1, <1>2, <1>3, <1>4, <1>5 DEF Start

-----------------------------------------------------------------------------
\* The steps that change rows

\* The rows change, and the call that changed them is answered.
LEMMA AnsweredCalls ==
    ASSUME IInv, NEW c \in Calls, Finish(c),
           \A r \in Requests : request[r] = "approved" => request'[r] = "approved",
           \A r \in Requests :
               r \in evidence' \ evidence => request[r] # "approved"
    PROVE  /\ call' \in [Calls -> Call]
           /\ \A d \in Calls : Targeted(d)' /\ Found(d)'
<1>1. Idle \in Call
  BY DEF Idle, Call
<1>2. call' \in [Calls -> Call] /\ call'[c] = Idle
  BY <1>1 DEF IInv, TypeOK, Finish
<1>3. \A d \in Calls : d # c => call'[d] = call[d]
  BY DEF IInv, TypeOK, Finish
<1>4. Targeted(c)' /\ Found(c)'
  BY <1>2 DEF Targeted, Found, At, Idle
<1>5. ASSUME NEW d \in Calls, d # c PROVE Targeted(d)' /\ Found(d)'
  <2>1. Targeted(d) /\ Found(d) /\ call'[d] = call[d]
    BY <1>3, <1>5 DEF IInv
  <2>2. Targeted(d)'
    BY <2>1 DEF Targeted
  <2>3. At(d, "edit", "save") \/ At(d, "delete", "actor") \/ At(d, "delete", "requests")
        => call[d].target \in Requests
    BY <2>1 DEF Targeted, At
  <2> QED BY <2>1, <2>2, <2>3 DEF Found, At
<1> QED BY <1>2, <1>4, <1>5

LEMMA PublishStep ==
    ASSUME IInv, NEW c \in Calls, Publish(c)
    PROVE  IInv'
<1> DEFINE r == call[c].target
<1>1. CASE request[r] # "pending"
  BY <1>1, FinishStep DEF Publish
<1>2. CASE request[r] = "pending"
  <2>1. r \in Requests
    BY DEF Publish, HasActor, At, IInv, Targeted
  <2>2. /\ request' = [request EXCEPT ![r] = "approved"]
        /\ evidence' = evidence \cup {r}
        /\ place' = [place EXCEPT ![r] = "public"]
        /\ located' = located \cup {r}
        /\ media' = [m \in Renditions |->
                        IF RequestOf[m] = r
                        THEN [media[m] EXCEPT !.rendition = "published"]
                        ELSE media[m]]
        /\ Finish(c)
        /\ UNCHANGED <<record, deleted, admin>>
    BY <1>2 DEF Publish
  <2>3. \A q \in Requests : /\ request'[q] = IF q = r THEN "approved" ELSE request[q]
                            /\ place'[q] = IF q = r THEN "public" ELSE place[q]
    BY <2>1, <2>2 DEF IInv, TypeOK
  <2>4. \A m \in Renditions : media[m] \in Media /\ Intact(m)
    BY DEF IInv, TypeOK
  <2>5. r \notin evidence
    BY <1>2 DEF IInv, PublicationWhole
  <2>6. \A m \in Renditions : RequestOf[m] = r =>
            /\ media[m].rendition = "none"
            /\ media'[m].rendition = "published"
            /\ media'[m].intent = "attached" /\ media'[m].image /\ media'[m].object
            /\ media'[m] \in Media
    BY <2>2, <2>4, <2>5 DEF Intact, Media
  <2>7. \A m \in Renditions : RequestOf[m] # r => media'[m] = media[m]
    BY <2>2
  <2>8. TypeOK'
    <3>1. media' \in [Renditions -> Media]
      BY <2>2, <2>4, <2>6, <2>7
    <3>2. call' \in [Calls -> Call]
      BY <2>2, <2>3, AnsweredCalls, <1>2, <2>5
    <3> QED BY <2>1, <2>2, <3>1, <3>2 DEF IInv, TypeOK, Row
  <2>9. \A d \in Calls : Targeted(d)' /\ Found(d)'
    BY <1>2, <2>2, <2>3, AnsweredCalls
  <2>10. PlaceApproved'
    BY <2>3 DEF IInv, PlaceApproved
  <2>11. \A m \in Renditions : Intact(m)'
    BY <2>2, <2>4, <2>6, <2>7 DEF Intact
  <2>12. PublicationWhole'
    <3>1. \A q \in evidence' : request'[q] = "approved" /\ Exists(q)' /\ q \in located'
      BY <2>1, <2>2, <2>3 DEF IInv, TypeOK, PublicationWhole, Exists
    <3>2. ASSUME NEW m \in Renditions, media'[m].rendition = "published"
          PROVE  /\ RequestOf[m] \in evidence'
                 /\ media'[m].intent = "attached" /\ media'[m].image /\ media'[m].object
      <4>1. CASE RequestOf[m] = r
        BY <2>2, <2>6, <4>1
      <4>2. CASE RequestOf[m] # r
        BY <2>2, <2>7, <3>2, <4>2 DEF IInv, PublicationWhole
      <4> QED BY <4>1, <4>2
    <3> QED BY <3>1, <3>2 DEF PublicationWhole
  <2>13. RevokedOnce'
    BY <2>2, <2>6, <2>7 DEF IInv, RevokedOnce
  <2> QED BY <2>8, <2>9, <2>10, <2>11, <2>12, <2>13 DEF IInv
<1> QED BY <1>1, <1>2

LEMMA UnpublishStep ==
    ASSUME IInv, NEW c \in Calls, Unpublish(c)
    PROVE  IInv'
<1> DEFINE m == call[c].target
           new == [actor |-> call[c].actor, key |-> call[c].key, media |-> m]
<1>1. m \in Renditions /\ new \in Record
  BY DEF Unpublish, HasActor, At, IInv, Targeted, Record
<1>2. /\ media' = [media EXCEPT ![m] = Retired(media[m])]
      /\ record' = record \cup {new}
      /\ Finish(c)
      /\ UNCHANGED <<request, evidence, place, located, deleted, admin>>
  BY DEF Unpublish
<1>3. media[m] \in Media /\ media[m].rendition = "published"
  BY <1>1 DEF Unpublish, Revocable, Published, IInv, TypeOK
<1>4. Retired(media[m]) \in Media /\ Retired(media[m]).rendition = "revoked"
  BY <1>3 DEF Media, Retired
<1>5. /\ media' \in [Renditions -> Media]
      /\ media'[m].rendition = "revoked"
      /\ \A n \in Renditions : n # m => media'[n] = media[n]
  BY <1>1, <1>2, <1>4 DEF IInv, TypeOK
<1>6. call' \in [Calls -> Call] /\ \A d \in Calls : Targeted(d)' /\ Found(d)'
  BY <1>2, AnsweredCalls
<1>7. TypeOK'
  BY <1>1, <1>2, <1>5, <1>6 DEF IInv, TypeOK
<1>8. PlaceApproved' /\ \A n \in Renditions : Intact(n)'
  BY <1>1, <1>2, <1>3, <1>5 DEF IInv, PlaceApproved, Intact
<1>9. PublicationWhole'
  BY <1>2, <1>5 DEF IInv, PublicationWhole, Exists
<1>10. RevokedOnce'
  <2>1. \A s \in record : s.media # m
    BY <1>1, <1>3 DEF IInv, RevokedOnce, TypeOK
  <2>2. \A s \in record : ~(s.actor = new.actor /\ s.key = new.key)
    BY DEF Unpublish, Revocable, Earlier
  <2>3. \A n \in Renditions :
            media'[n].rendition = "revoked" <=> \E s \in record' : s.media = n
    <3> SUFFICES ASSUME NEW n \in Renditions
                 PROVE  media'[n].rendition = "revoked" <=> \E s \in record' : s.media = n
      OBVIOUS
    <3>1. CASE n = m
      <4>1. new \in record' /\ new.media = n
        BY <1>2, <3>1
      <4> QED BY <1>5, <3>1, <4>1
    <3>2. CASE n # m
      <4>1. media[n].rendition = "revoked" <=> \E s \in record : s.media = n
        BY DEF IInv, RevokedOnce
      <4>2. (\E s \in record' : s.media = n) <=> \E s \in record : s.media = n
        BY <1>2, <3>2
      <4> QED BY <1>5, <3>2, <4>1, <4>2
    <3> QED BY <3>1, <3>2
  <2> QED BY <1>2, <2>1, <2>2, <2>3 DEF IInv, RevokedOnce
<1> QED BY <1>6, <1>7, <1>8, <1>9, <1>10 DEF IInv

\* The cleanup changes an image that was revoked.
LEMMA SweepStep ==
    ASSUME IInv, NEW m \in Renditions, Sweep(m)
    PROVE  IInv'
<1>1. UNCHANGED <<request, evidence, place, located, record, deleted, admin, call>>
  BY DEF Sweep, Erase, FinishCleanup
<1>2. media[m] \in Media /\ media[m].rendition = "revoked"
  BY DEF Sweep, Erase, FinishCleanup, IInv, TypeOK, Intact
<1>3. /\ media' \in [Renditions -> Media]
      /\ media'[m].rendition = "revoked"
      /\ \A n \in Renditions : n # m => media'[n] = media[n]
  <2>1. [media[m] EXCEPT !.object = FALSE] \in Media
    BY <1>2 DEF Media
  <2>2. [media[m] EXCEPT !.intent = "deleted"] \in Media
    BY <1>2 DEF Media
  <2>3. CASE Erase(m)
    BY <1>2, <2>1, <2>3 DEF Erase, IInv, TypeOK, Media
  <2>4. CASE FinishCleanup(m)
    BY <1>2, <2>2, <2>4 DEF FinishCleanup, IInv, TypeOK, Media
  <2> QED BY <2>3, <2>4 DEF Sweep
<1>4. TypeOK'
  BY <1>1, <1>3 DEF IInv, TypeOK
<1>5. \A d \in Calls : Targeted(d)' /\ Found(d)'
  BY <1>1 DEF IInv, Targeted, Found, At
<1>6. PlaceApproved' /\ \A n \in Renditions : Intact(n)'
  BY <1>1, <1>2, <1>3 DEF IInv, PlaceApproved, Intact
<1>7. PublicationWhole' /\ RevokedOnce'
  BY <1>1, <1>2, <1>3 DEF IInv, PublicationWhole, RevokedOnce, Exists
<1> QED BY <1>4, <1>5, <1>6, <1>7 DEF IInv

LEMMA HardDeleteStep ==
    ASSUME IInv, NEW c \in Calls, HardDelete(c)
    PROVE  IInv'
<1> DEFINE r == call[c].target
<1>1. r \in Requests /\ request[r] = "approved" /\ r \notin evidence
  BY DEF HardDelete, At, IInv, Targeted, Found
<1>2. CASE Matches(r) \/ r \in Illustrated
  BY <1>2, FinishStep DEF HardDelete, public
<1>3. CASE ~(Matches(r) \/ r \in Illustrated)
  <2>1. /\ place' = [place EXCEPT ![r] = "deleted"]
        /\ located' = located \ {r} /\ deleted' = deleted \cup {r}
        /\ Finish(c)
        /\ UNCHANGED <<request, evidence, media, record, admin>>
    BY <1>3 DEF HardDelete
  <2>2. call' \in [Calls -> Call] /\ \A d \in Calls : Targeted(d)' /\ Found(d)'
    BY <2>1, AnsweredCalls
  <2>3. TypeOK'
    BY <1>1, <2>1, <2>2 DEF IInv, TypeOK, Row
  <2>4. PlaceApproved' /\ \A n \in Renditions : Intact(n)'
    BY <1>1, <2>1 DEF IInv, TypeOK, PlaceApproved, Intact
  <2>5. PublicationWhole' /\ RevokedOnce'
    BY <1>1, <2>1 DEF IInv, TypeOK, PublicationWhole, RevokedOnce, Exists
  <2> QED BY <2>2, <2>3, <2>4, <2>5 DEF IInv
<1> QED BY <1>2, <1>3

LEMMA SaveStep ==
    ASSUME IInv, NEW c \in Calls, Save(c)
    PROVE  IInv'
<1> DEFINE r == call[c].target
<1>1. r \in Requests /\ request[r] = "approved"
  BY DEF Save, At, IInv, Targeted, Found
<1>2. PICK name \in {"public", "renamed"} : place' = [place EXCEPT ![r] = name]
  BY DEF Save
<1>3. Finish(c) /\ UNCHANGED <<request, evidence, located, media, record, deleted, admin>>
  BY DEF Save
<1>4. call' \in [Calls -> Call] /\ \A d \in Calls : Targeted(d)' /\ Found(d)'
  BY <1>3, AnsweredCalls
<1>5. TypeOK'
  BY <1>1, <1>2, <1>3, <1>4 DEF IInv, TypeOK, Row
<1>6. PlaceApproved' /\ \A n \in Renditions : Intact(n)'
  BY <1>1, <1>2, <1>3 DEF IInv, TypeOK, PlaceApproved, Intact
<1>7. PublicationWhole' /\ RevokedOnce'
  BY <1>1, <1>2, <1>3 DEF IInv, TypeOK, PublicationWhole, RevokedOnce, Exists
<1> QED BY <1>4, <1>5, <1>6, <1>7 DEF IInv

-----------------------------------------------------------------------------
\* Every step

LEMMA ProceedStep ==
    ASSUME IInv, NEW c \in Calls, Proceed(c)
    PROVE  IInv'
<1>1. CASE ReadObject(c)
  BY <1>1, FinishStep, GotoStep DEF ReadObject, At
<1>2. CASE Authorize(c)
  BY <1>2, FinishStep, GotoStep DEF Authorize, At
<1>3. CASE Serve(c)
  BY <1>3, FinishStep DEF Serve
<1>4. CASE LockRequest(c)
  <2>1. call[c].op # "delete" /\ call[c].op # "edit"
    BY <1>4 DEF LockRequest, IInv, Targeted
  <2> QED BY <1>4, <2>1, GotoStep DEF LockRequest
<1>5. CASE Decline(c)
  BY <1>5, FinishStep DEF Decline
<1>6. CASE LockPlace(c)
  <2>1. call[c].target \in Requests
    BY <1>6 DEF LockPlace, At, IInv, Targeted
  <2>2. Exists(call[c].target) => request[call[c].target] = "approved"
    BY <2>1 DEF Exists, IInv, TypeOK, PlaceApproved
  <2> QED BY <1>6, <2>2, FinishStep, GotoStep DEF LockPlace, At
<1>7. CASE LockActor(c)
  <2>1. request[call[c].target] = "approved"
    BY <1>7 DEF LockActor, HasActor, At, IInv, Found
  <2> QED BY <1>7, <2>1, FinishStep, GotoStep DEF LockActor, HasActor, At, HasEvidence
<1>8. CASE Abort(c)
  BY <1>8, FinishStep DEF Abort
<1> QED
  BY <1>1, <1>2, <1>3, <1>4, <1>5, <1>6, <1>7, <1>8, PublishStep, UnpublishStep,
     HardDeleteStep, SaveStep DEF Proceed

LEMMA NextIInv == IInv /\ [Next]_vars => IInv'
<1> SUFFICES ASSUME IInv, [Next]_vars PROVE IInv'
  OBVIOUS
<1>1. ASSUME NEW a \in Staff, Demote(a) PROVE IInv'
  <2>1. TypeOK'
    BY <1>1 DEF Demote, IInv, TypeOK, public
  <2>2. \A d \in Calls : Targeted(d)' /\ Found(d)'
    BY <1>1 DEF Demote, IInv, Targeted, Found, At, public
  <2> QED
    BY <1>1, <2>1, <2>2 DEF Demote, IInv, public, PlaceApproved, Intact,
       PublicationWhole, RevokedOnce, Exists
<1>2. CASE UNCHANGED vars
  BY <1>2 DEF vars, public, IInv, TypeOK, Targeted, Found, At, PlaceApproved,
     Intact, PublicationWhole, RevokedOnce, Exists
<1> QED BY <1>1, <1>2, StartStep, ProceedStep, SweepStep DEF Next

-----------------------------------------------------------------------------
\* Calls take effect at one moment: what a deletion found is still so

Deleting(c) ==
    /\ call[c].pc = "idle" => call[c] = Idle
    /\ At(c, "delete", "actor") \/ At(c, "delete", "requests")
           => Exists(call[c].target)
    /\ At(c, "delete", "requests") => call[c].actor \in admin

\* One deletion at a time has a place.
Alone == \A c, d \in Calls, r \in Requests :
             HoldsPlace(c, r) /\ HoldsPlace(d, r) => c = d

LInv == (\A c \in Calls : Deleting(c)) /\ Alone

\* One call goes on, and the places that others have stay.
LEMMA CallLInv ==
    ASSUME IInv, LInv, NEW c \in Calls, NEW to \in Call,
           call' = [call EXCEPT ![c] = to],
           Deleting(c)', admin' = admin,
           \A r \in Requests : HoldsPlace(c, r)' => HoldsPlace(c, r) \/ PlaceFree(r),
           \A d \in Calls \ {c}, r \in Requests :
               HoldsPlace(d, r) /\ Exists(r) => Exists(r)'
    PROVE  LInv'
<1>1. \A d \in Calls : d # c => call'[d] = call[d]
  BY DEF IInv, TypeOK
<1>2. \A d \in Calls, r \in Requests : d # c => (HoldsPlace(d, r)' <=> HoldsPlace(d, r))
  BY <1>1 DEF HoldsPlace
<1>3. ASSUME NEW d \in Calls, d # c PROVE Deleting(d)'
  <2>1. Deleting(d) /\ Targeted(d) /\ call'[d] = call[d]
    BY <1>1, <1>3 DEF LInv, IInv
  <2>2. ASSUME At(d, "delete", "actor") \/ At(d, "delete", "requests")
        PROVE  Exists(call[d].target)'
    <3>1. call[d].target \in Requests /\ Exists(call[d].target)
      BY <2>1, <2>2 DEF Targeted, Deleting, At
    <3>2. HoldsPlace(d, call[d].target)
      BY <2>2 DEF HoldsPlace, At
    <3> QED BY <1>3, <3>1, <3>2
  <2> QED BY <2>1, <2>2 DEF Deleting, At, Exists
<1>4. Alone'
  <2> SUFFICES ASSUME NEW d \in Calls, NEW e \in Calls, NEW r \in Requests,
                      HoldsPlace(d, r)', HoldsPlace(e, r)', d # e
               PROVE  FALSE
    BY DEF Alone, HoldsPlace
  <2>1. \A f \in {d, e} : HoldsPlace(f, r) \/ (f = c /\ PlaceFree(r))
    BY <1>2
  <2> QED BY <2>1 DEF LInv, Alone, PlaceFree
<1> QED BY <1>3, <1>4 DEF LInv

LEMMA FinishLInv ==
    ASSUME IInv, LInv, NEW c \in Calls, Finish(c), admin' = admin,
           \A d \in Calls \ {c}, r \in Requests :
               HoldsPlace(d, r) /\ Exists(r) => Exists(r)'
    PROVE  LInv'
<1>1. Idle \in Call
  BY DEF Idle, Call
<1>2. call'[c] = Idle
  BY DEF IInv, TypeOK, Finish
<1>3. Deleting(c)' /\ \A r \in Requests : ~HoldsPlace(c, r)'
  BY <1>2 DEF Deleting, HoldsPlace, At, Idle
<1> QED BY <1>1, <1>3, CallLInv DEF Finish

LEMMA GotoLInv ==
    ASSUME IInv, LInv, NEW c \in Calls, NEW pc, Goto(c, pc), call[c].pc # "idle",
           pc \in {"authorize", "serve", "actor", "requests"},
           UNCHANGED <<public, admin>>,
           call[c].op = "delete" /\ pc \in {"actor", "requests"} =>
               /\ Exists(call[c].target)
               /\ HoldsPlace(c, call[c].target) \/ PlaceFree(call[c].target)
               /\ pc = "requests" => call[c].actor \in admin
    PROVE  LInv'
<1> DEFINE to == [call[c] EXCEPT !.pc = pc]
<1>1. call[c] \in Call
  BY DEF IInv, TypeOK
<1>2. to \in Call /\ call' = [call EXCEPT ![c] = to]
  BY <1>1 DEF Call, Goto
<1>3. call'[c] = to
  BY <1>2 DEF IInv, TypeOK
<1>4. /\ to.pc = pc /\ to.op = call[c].op /\ to.target = call[c].target
      /\ to.actor = call[c].actor
  BY <1>1 DEF Call
<1>5. Deleting(c)'
  BY <1>3, <1>4 DEF Deleting, At, Exists, public
<1>6. \A r \in Requests : HoldsPlace(c, r)' => HoldsPlace(c, r) \/ PlaceFree(r)
  BY <1>3, <1>4 DEF HoldsPlace
<1>7. \A r : Exists(r)' <=> Exists(r)
  BY DEF Exists, public
<1> QED BY <1>2, <1>5, <1>6, <1>7, CallLInv

LEMMA StartLInv ==
    ASSUME IInv, LInv, NEW c \in Calls, Start(c)
    PROVE  LInv'
<1>1. UNCHANGED <<public, record, deleted, admin>>
  BY DEF Start, Retrieve, Revoke, Approve, Delete, Edit
<1>2. PICK op \in Op, pc \in {"object", "request", "place", "save"},
           a \in Staff \cup {None}, k \in Keys \cup {None},
           t \in Renditions \cup Requests : Begin(c, op, pc, a, k, t)
  BY DEF Start, Retrieve, Revoke, Approve, Delete, Edit, Op
<1> DEFINE to == [pc |-> pc, op |-> op, actor |-> a, key |-> k, target |-> t]
<1>3. to \in Call /\ call' = [call EXCEPT ![c] = to] /\ call'[c] = to
  BY <1>2 DEF Begin, Call, IInv, TypeOK
<1>4. Deleting(c)' /\ \A r \in Requests : ~HoldsPlace(c, r)'
  BY <1>3 DEF Deleting, HoldsPlace, At
<1>5. \A r : Exists(r)' <=> Exists(r)
  BY <1>1 DEF Exists, public
<1> QED BY <1>1, <1>3, <1>4, <1>5, CallLInv

LEMMA ProceedLInv ==
    ASSUME IInv, LInv, NEW c \in Calls, Proceed(c)
    PROVE  LInv'
<1>1. ASSUME Finish(c), UNCHANGED <<public, admin>> PROVE LInv'
  BY <1>1, FinishLInv DEF Exists, public
<1>2. CASE ReadObject(c) \/ Authorize(c) \/ Serve(c) \/ Decline(c) \/ Abort(c)
  BY <1>1, <1>2, GotoLInv
     DEF ReadObject, Authorize, Serve, Decline, Abort, At
<1>3. CASE LockRequest(c)
  <2>1. call[c].op # "delete"
    BY <1>3 DEF LockRequest, IInv, Targeted
  <2> QED BY <1>3, <2>1, GotoLInv DEF LockRequest
<1>4. CASE Publish(c)
  <2> DEFINE r == call[c].target
  <2>1. CASE request[r] # "pending"
    BY <1>1, <1>4, <2>1 DEF Publish
  <2>2. CASE request[r] = "pending"
    <3>1. Finish(c) /\ admin' = admin /\ place' = [place EXCEPT ![r] = "public"]
      BY <1>4, <2>2 DEF Publish
    <3>2. \A q \in Requests : Exists(q) => Exists(q)'
      BY <3>1 DEF Exists, IInv, TypeOK
    <3> QED BY <3>1, <3>2, FinishLInv
  <2> QED BY <2>1, <2>2
<1>5. CASE Unpublish(c)
  BY <1>5, FinishLInv DEF Unpublish, Exists
<1>6. CASE LockPlace(c)
  BY <1>1, <1>6, GotoLInv DEF LockPlace, At
<1>7. CASE LockActor(c)
  <2>1. /\ call[c].op = "delete" /\ call[c].pc = "actor"
        /\ UNCHANGED <<public, record, deleted, admin>>
        /\ \/ Goto(c, "requests") /\ call[c].actor \in admin
           \/ Finish(c)
    BY <1>7 DEF LockActor, HasActor, At
  <2>2. Exists(call[c].target) /\ HoldsPlace(c, call[c].target)
    BY <2>1 DEF LInv, Deleting, HoldsPlace, At
  <2> QED BY <1>1, <2>1, <2>2, GotoLInv
<1>8. CASE HardDelete(c)
  <2> DEFINE r == call[c].target
  <2>1. r \in Requests /\ HoldsPlace(c, r)
    BY <1>8 DEF HardDelete, HoldsPlace, At, IInv, Targeted
  <2>2. \A d \in Calls \ {c} : ~HoldsPlace(d, r)
    BY <2>1 DEF LInv, Alone
  <2>3. /\ Finish(c) /\ admin' = admin
        /\ place' = place \/ place' = [place EXCEPT ![r] = "deleted"]
    BY <1>8 DEF HardDelete
  <2>4. \A q \in Requests : q # r /\ Exists(q) => Exists(q)'
    BY <2>3 DEF Exists, IInv, TypeOK
  <2> QED BY <2>2, <2>3, <2>4, FinishLInv
<1>9. CASE Save(c)
  <2>1. PICK name \in {"public", "renamed"} :
            place' = [place EXCEPT ![call[c].target] = name]
    BY <1>9 DEF Save
  <2>2. \A q \in Requests : Exists(q) => Exists(q)'
    BY <2>1 DEF Exists, IInv, TypeOK
  <2> QED BY <1>9, <2>2, FinishLInv DEF Save
<1> QED BY <1>2, <1>3, <1>4, <1>5, <1>6, <1>7, <1>8, <1>9 DEF Proceed

LEMMA NextLInv == ASSUME IInv, LInv, [Next]_vars PROVE LInv'
<1>1. ASSUME NEW m \in Renditions, Sweep(m) PROVE LInv'
  BY <1>1 DEF Sweep, Erase, FinishCleanup, LInv, Deleting, Alone, HoldsPlace, At, Exists
<1>2. ASSUME NEW a \in Staff, Demote(a) PROVE LInv'
  <2>1. UNCHANGED <<place, call>> /\ admin' = admin \ {a} /\ ActorFree(a)
    BY <1>2 DEF Demote, public
  <2>2. ASSUME NEW c \in Calls, At(c, "delete", "requests")
        PROVE  call[c].actor \in admin'
    BY <2>1, <2>2 DEF LInv, Deleting, ActorFree, HoldsActor
  <2> QED BY <2>1, <2>2 DEF LInv, Deleting, Alone, HoldsPlace, At, Exists
<1>3. CASE UNCHANGED vars
  BY <1>3 DEF vars, public, LInv, Deleting, Alone, HoldsPlace, At, Exists
<1> QED BY <1>1, <1>2, <1>3, StartLInv, ProceedLInv DEF Next

-----------------------------------------------------------------------------
\* Every step is one of the catalogue, or does not show

LEMMA SeenCall ==
    ASSUME NEW c \in Calls
    PROVE  /\ asked[c].op = call[c].op /\ asked[c].actor = call[c].actor
           /\ asked[c].key = call[c].key /\ asked[c].target = call[c].target
           /\ asked[c].served = (call[c].pc = "serve")
BY DEF asked

LEMMA SeenStep ==
    ASSUME IInv, NEW c \in Calls, NEW to \in Call, call' = [call EXCEPT ![c] = to]
    PROVE  asked' = [asked EXCEPT ![c] =
                        [op |-> to.op, actor |-> to.actor, key |-> to.key,
                         target |-> to.target, served |-> to.pc = "serve"]]
<1>1. /\ call'[c] = to
      /\ \A d \in Calls : d # c => call'[d] = call[d]
  BY DEF IInv, TypeOK
<1> QED BY <1>1 DEF asked

LEMMA SeenFinish ==
    ASSUME IInv, NEW c \in Calls, Finish(c)
    PROVE  asked' = [asked EXCEPT ![c] = Catalogue!Nothing]
<1>1. Idle \in Call
  BY DEF Idle, Call
<1>2. asked' = [asked EXCEPT ![c] = [op |-> None, actor |-> None, key |-> None,
                                     target |-> None, served |-> Idle.pc = "serve"]]
  BY <1>1, SeenStep DEF Finish, Idle
<1>3. (Idle.pc = "serve") = FALSE
  BY DEF Idle
<1> QED BY <1>2, <1>3 DEF Catalogue!Nothing, Catalogue!Query

LEMMA SeenGoto ==
    ASSUME IInv, NEW c \in Calls, NEW pc, Goto(c, pc),
           pc \in {"authorize", "serve", "actor", "requests"}
    PROVE  asked' = [asked EXCEPT ![c].served = (pc = "serve")]
<1> DEFINE to == [call[c] EXCEPT !.pc = pc]
<1>1. call[c] \in Call
  BY DEF IInv, TypeOK
<1>2. to \in Call /\ call' = [call EXCEPT ![c] = to]
  BY <1>1 DEF Call, Goto
<1>3. /\ to.pc = pc /\ to.op = call[c].op /\ to.target = call[c].target
      /\ to.actor = call[c].actor /\ to.key = call[c].key
  BY <1>1 DEF Call
<1>4. /\ call'[c] = to
      /\ \A d \in Calls : d # c => call'[d] = call[d]
  BY <1>2 DEF IInv, TypeOK
<1> HIDE DEF to
<1> QED BY <1>3, <1>4 DEF asked

\* A call that takes its next lock shows as no step.
LEMMA GotoHidden ==
    ASSUME IInv, NEW c \in Calls, NEW pc, Goto(c, pc), call[c].pc # "serve",
           pc \in {"authorize", "actor", "requests"},
           UNCHANGED <<public, record, deleted, admin>>
    PROVE  UNCHANGED Catalogue!vars
<1>1. asked' = [asked EXCEPT ![c].served = FALSE]
  BY SeenGoto
<1>2. asked[c].served = FALSE
  BY DEF asked
<1>3. asked' = asked
  BY <1>1, <1>2 DEF asked
<1> QED BY <1>3 DEF public, shown, Catalogue!vars

\* A call that is refused, or whose bytes are out.
LEMMA LeaveStep ==
    ASSUME IInv, NEW c \in Calls, Finish(c),
           UNCHANGED <<public, record, deleted, admin>>
    PROVE  Catalogue!Leave(c)
<1>1. shown' = shown
  BY DEF public, shown
<1> QED BY <1>1, SeenFinish DEF public, Catalogue!Leave

LEMMA AskStep ==
    ASSUME IInv, LInv, NEW c \in Calls, Start(c)
    PROVE  Catalogue!Ask(c)
<1>1. /\ UNCHANGED <<place, located, evidence, record, deleted, admin>>
      /\ shown' = shown
  BY DEF Start, Retrieve, Revoke, Approve, Delete, Edit, public, shown
<1>2. asked[c] = Catalogue!Nothing
  <2>1. call[c] = Idle
    BY DEF Start, Retrieve, Revoke, Approve, Delete, Edit, Begin, LInv, Deleting
  <2>2. asked[c] = [op |-> Idle.op, actor |-> Idle.actor, key |-> Idle.key,
                    target |-> Idle.target, served |-> Idle.pc = "serve"]
    BY <2>1 DEF asked
  <2>3. /\ Idle.op = None /\ Idle.actor = None /\ Idle.key = None
        /\ Idle.target = None
        /\ (Idle.pc = "serve") = FALSE
    BY DEF Idle
  <2> QED BY <2>2, <2>3 DEF Catalogue!Nothing, Catalogue!Query
<1>3. ASSUME NEW op \in Op, NEW pc \in {"object", "request", "place", "save"},
             NEW a \in Staff \cup {None}, NEW k \in Keys \cup {None},
             NEW t \in Renditions \cup Requests, Begin(c, op, pc, a, k, t)
      PROVE  Catalogue!Open(c, Catalogue!Query(op, a, k, t, FALSE))
  <2> DEFINE to == [pc |-> pc, op |-> op, actor |-> a, key |-> k, target |-> t]
  <2>1. to \in Call /\ call' = [call EXCEPT ![c] = to]
    BY <1>3 DEF Begin, Call
  <2>2. (to.pc = "serve") = FALSE
    OBVIOUS
  <2>3. asked' = [asked EXCEPT ![c] = Catalogue!Query(op, a, k, t, FALSE)]
    BY <2>1, <2>2, SeenStep DEF Catalogue!Query
  <2> QED BY <1>1, <1>2, <2>3 DEF Catalogue!Open
<1>4. \A m \in Renditions : media[m].rendition # "none" => shown[m] # "none"
  BY DEF shown
<1>5. ASSUME NEW m \in Renditions, Retrieve(c, m) PROVE Catalogue!Ask(c)
  <2>1. Begin(c, "retrieve", "object", None, None, m) /\ shown[m] # "none"
    BY <1>4, <1>5 DEF Retrieve
  <2>2. Catalogue!Open(c, Catalogue!Query("retrieve", None, None, m, FALSE))
    BY <1>3, <2>1 DEF Op
  <2> QED BY <2>1, <2>2 DEF Catalogue!Ask
<1>6. ASSUME NEW m \in Renditions, NEW a \in Staff, NEW k \in Keys,
             Revoke(c, a, k, m)
      PROVE  Catalogue!Ask(c)
  <2>1. Begin(c, "revoke", "request", a, k, m) /\ shown[m] # "none" /\ a \in admin
    BY <1>4, <1>6 DEF Revoke
  <2>2. Catalogue!Open(c, Catalogue!Query("revoke", a, k, m, FALSE))
    BY <1>3, <2>1 DEF Op
  <2> QED BY <2>1, <2>2 DEF Catalogue!Ask
<1>7. ASSUME NEW r \in Requests, NEW a \in Staff, Approve(c, a, r)
      PROVE  Catalogue!Ask(c)
  <2>1. Begin(c, "approve", "request", a, None, r)
    BY <1>7 DEF Approve
  <2>2. Catalogue!Open(c, Catalogue!Query("approve", a, None, r, FALSE))
    BY <1>3, <2>1 DEF Op
  <2> QED BY <2>2 DEF Catalogue!Ask
<1>8. ASSUME NEW r \in Requests, NEW a \in Staff, Delete(c, a, r)
      PROVE  Catalogue!Ask(c)
  <2>1. Begin(c, "delete", "place", a, None, r) /\ a \in admin
    BY <1>8 DEF Delete
  <2>2. Catalogue!Open(c, Catalogue!Query("delete", a, None, r, FALSE))
    BY <1>3, <2>1 DEF Op
  <2> QED BY <2>1, <2>2 DEF Catalogue!Ask
<1>9. ASSUME NEW r \in Requests, Edit(c, r) PROVE Catalogue!Ask(c)
  <2>1. Begin(c, "edit", "save", None, None, r) /\ Catalogue!There(r)
    BY <1>9 DEF Edit, Exists, Catalogue!There
  <2>2. Catalogue!Open(c, Catalogue!Query("edit", None, None, r, FALSE))
    BY <1>3, <2>1 DEF Op
  <2> QED BY <2>1, <2>2 DEF Catalogue!Ask
<1> QED BY <1>5, <1>6, <1>7, <1>8, <1>9 DEF Start

\* The authorization is the moment at which the bytes go out.
LEMMA ServesStep ==
    ASSUME IInv, NEW c \in Calls, Authorize(c), Published(call[c].target)
    PROVE  Catalogue!Serve(c)
<1> DEFINE m == call[c].target
<1>1. /\ call[c].op = "retrieve" /\ call[c].pc = "authorize" /\ Goto(c, "serve")
      /\ UNCHANGED <<public, record, deleted, admin>>
  BY DEF Authorize, At
<1>2. m \in Renditions
  BY <1>1 DEF IInv, Targeted
<1>3. media[m].object /\ media[m].rendition = "published" /\ Exists(RequestOf[m])
  BY <1>2 DEF Published, IInv, PublicationWhole
<1>4. shown[m] = "published" /\ shown' = shown
  BY <1>1, <1>2, <1>3 DEF shown, public
<1>5. asked' = [asked EXCEPT ![c].served = ("serve" = "serve")]
  BY <1>1, SeenGoto
<1>6. ("serve" = "serve") = TRUE
  OBVIOUS
<1>7. asked[c].op = "retrieve" /\ asked[c].target = m
  BY <1>1, SeenCall
<1> QED
  BY <1>1, <1>3, <1>4, <1>5, <1>6, <1>7
     DEF Exists, public, Catalogue!Serve, Catalogue!There

LEMMA PublishesStep ==
    ASSUME IInv, NEW c \in Calls, Publish(c), request[call[c].target] = "pending"
    PROVE  Catalogue!Publish(c)
<1> DEFINE r == call[c].target
<1>1. /\ call[c].op = "approve" /\ call[c].pc = "actor"
      /\ evidence' = evidence \cup {r}
      /\ place' = [place EXCEPT ![r] = "public"]
      /\ located' = located \cup {r}
      /\ media' = [m \in Renditions |->
                      IF RequestOf[m] = r
                      THEN [media[m] EXCEPT !.rendition = "published"]
                      ELSE media[m]]
      /\ Finish(c)
      /\ UNCHANGED <<record, deleted, admin>>
  BY DEF Publish, HasActor, At
<1>2. r \in Requests /\ r \notin evidence /\ place[r] = "none"
  BY <1>1 DEF IInv, Targeted, PublicationWhole, PlaceApproved
<1>3. ASSUME NEW m \in Renditions
      PROVE  shown'[m] = IF RequestOf[m] = r THEN "published" ELSE shown[m]
  <2>1. media[m] \in Media /\ Intact(m)
    BY DEF IInv, TypeOK
  <2>2. CASE RequestOf[m] = r
    BY <1>1, <1>2, <2>1, <2>2 DEF shown, Intact, Media
  <2>3. CASE RequestOf[m] # r
    BY <1>1, <2>3 DEF shown
  <2> QED BY <2>2, <2>3
<1>4. shown' = [m \in Renditions |-> IF RequestOf[m] = r THEN "published"
                                                         ELSE shown[m]]
  BY <1>3 DEF shown
<1>5. Catalogue!Done(c, "approve") /\ asked[c].target = r
  BY <1>1, SeenCall, SeenFinish DEF Catalogue!Done
<1> QED BY <1>1, <1>2, <1>4, <1>5 DEF Catalogue!Publish

LEMMA RevokesStep ==
    ASSUME IInv, NEW c \in Calls, Unpublish(c)
    PROVE  Catalogue!Revoke(c)
<1> DEFINE m == call[c].target
<1>1. /\ call[c].op = "revoke" /\ call[c].pc = "actor"
      /\ call[c].actor \in admin /\ Earlier(c) = {} /\ Published(m)
      /\ media' = [media EXCEPT ![m] = Retired(media[m])]
      /\ record' = record \cup {[actor |-> call[c].actor, key |-> call[c].key,
                                  media |-> m]}
      /\ Finish(c)
      /\ UNCHANGED <<request, evidence, place, located, deleted, admin>>
  BY DEF Unpublish, HasActor, At, Revocable
<1>2. m \in Renditions /\ media[m] \in Media
  BY <1>1 DEF IInv, TypeOK, Targeted
<1>3. media[m].object /\ media[m].rendition = "published" /\ Exists(RequestOf[m])
  BY <1>1, <1>2 DEF Published, IInv, PublicationWhole
<1>4. shown[m] = "published"
  BY <1>2, <1>3 DEF shown
<1>5. /\ media'[m].object /\ media'[m].rendition = "revoked"
      /\ \A n \in Renditions : n # m => media'[n] = media[n]
  BY <1>1, <1>2, <1>3 DEF Retired, Media, IInv, TypeOK
<1>6. shown' = [shown EXCEPT ![m] = "revoked"]
  BY <1>5 DEF shown
<1>7. \A s \in record : ~(s.actor = call[c].actor /\ s.key = call[c].key)
  BY <1>1 DEF Earlier
<1>8. /\ Catalogue!Done(c, "revoke") /\ asked[c].target = m
      /\ asked[c].actor = call[c].actor /\ asked[c].key = call[c].key
  BY <1>1, SeenCall, SeenFinish DEF Catalogue!Done
<1> QED
  BY <1>1, <1>3, <1>4, <1>6, <1>7, <1>8 DEF Exists, Catalogue!Revoke, Catalogue!There

\* At its last lock a deletion still has the place, the administrator and the
\* absence of evidence that it found.
LEMMA DeletesStep ==
    ASSUME IInv, LInv, NEW c \in Calls, HardDelete(c)
    PROVE  Catalogue!Delete(c) \/ Catalogue!Leave(c)
<1> DEFINE r == call[c].target
<1>1. /\ r \in Requests /\ request[r] = "approved" /\ r \notin evidence
      /\ call[c].op = "delete" /\ call[c].pc = "requests"
  BY DEF HardDelete, At, IInv, Targeted, Found
<1>2. call[c].actor \in admin /\ Exists(r)
  BY <1>1 DEF LInv, Deleting, At
<1>3. CASE Matches(r) \/ r \in Illustrated
  BY <1>3, LeaveStep DEF HardDelete, public
<1>4. CASE ~(Matches(r) \/ r \in Illustrated)
  <2>1. /\ place' = [place EXCEPT ![r] = "deleted"]
        /\ located' = located \ {r} /\ deleted' = deleted \cup {r}
        /\ Finish(c)
        /\ UNCHANGED <<request, evidence, media, record, admin>>
    BY <1>4 DEF HardDelete
  <2>2. place[r] = "renamed" /\ r \notin evidence \cup Illustrated
    BY <1>1, <1>2, <1>4 DEF Matches, Exists
  <2>3. shown' = shown
    BY <2>1 DEF shown
  <2>4. /\ Catalogue!Done(c, "delete") /\ asked[c].target = r
        /\ asked[c].actor = call[c].actor
    BY <1>1, <2>1, SeenCall, SeenFinish DEF Catalogue!Done
  <2> QED BY <1>2, <2>1, <2>2, <2>3, <2>4 DEF Catalogue!Delete
<1> QED BY <1>3, <1>4

LEMMA SavesStep ==
    ASSUME IInv, NEW c \in Calls, Save(c)
    PROVE  Catalogue!Save(c)
<1> DEFINE r == call[c].target
<1>1. /\ call[c].op = "edit" /\ call[c].pc = "save" /\ Finish(c)
      /\ \E name \in {"public", "renamed"} : place' = [place EXCEPT ![r] = name]
      /\ UNCHANGED <<request, evidence, located, media, record, deleted, admin>>
  BY DEF Save, At
<1>2. r \in Requests /\ request[r] = "approved"
  BY <1>1 DEF At, IInv, Targeted, Found
<1>3. place[r] # "none"
  BY <1>2 DEF IInv, PlaceApproved
<1>4. shown' = shown
  BY <1>1 DEF shown
<1>5. Catalogue!Done(c, "edit") /\ asked[c].target = r
  BY <1>1, SeenCall, SeenFinish DEF Catalogue!Done
<1> QED BY <1>1, <1>3, <1>4, <1>5 DEF Catalogue!Save

\* The intent follows the object out of sight.
LEMMA ErasesStep ==
    ASSUME IInv, NEW m \in Renditions, Sweep(m)
    PROVE  Catalogue!Erase(m) \/ UNCHANGED Catalogue!vars
<1>1. /\ UNCHANGED <<request, evidence, place, located, record, deleted, admin, call>>
      /\ asked' = asked
  BY DEF Sweep, Erase, FinishCleanup, asked
<1>2. media[m] \in Media /\ media[m].rendition = "revoked"
  BY DEF Sweep, Erase, FinishCleanup, IInv, TypeOK, Intact
<1>3. CASE Erase(m)
  <2>1. /\ media[m].object /\ ~media'[m].object
        /\ \A n \in Renditions : n # m => media'[n] = media[n]
    BY <1>2, <1>3 DEF Erase, IInv, TypeOK, Media
  <2>2. shown[m] = "revoked" /\ shown' = [shown EXCEPT ![m] = "erased"]
    BY <1>2, <2>1 DEF shown
  <2> QED BY <1>1, <2>2 DEF Catalogue!Erase
<1>4. CASE FinishCleanup(m)
  <2>1. /\ media'[m].object = media[m].object
        /\ media'[m].rendition = media[m].rendition
        /\ \A n \in Renditions : n # m => media'[n] = media[n]
    BY <1>2, <1>4 DEF FinishCleanup, IInv, TypeOK, Media
  <2>2. shown' = shown
    BY <2>1 DEF shown
  <2> QED BY <1>1, <2>2 DEF Catalogue!vars
<1> QED BY <1>3, <1>4 DEF Sweep

LEMMA CatalogueInit == Init => Catalogue!Init /\ LInv
<1> SUFFICES ASSUME Init PROVE Catalogue!Init /\ LInv
  OBVIOUS
<1>1. \A m \in Renditions : shown[m] = "none"
  BY DEF Init, shown
<1>2. ASSUME NEW c \in Calls PROVE asked[c] = Catalogue!Nothing
  <2>1. call[c] = Idle
    BY DEF Init
  <2>2. asked[c] = [op |-> Idle.op, actor |-> Idle.actor, key |-> Idle.key,
                    target |-> Idle.target, served |-> Idle.pc = "serve"]
    BY <2>1 DEF asked
  <2>3. /\ Idle.op = None /\ Idle.actor = None /\ Idle.key = None
        /\ Idle.target = None
        /\ (Idle.pc = "serve") = FALSE
    BY DEF Idle
  <2> QED BY <2>2, <2>3 DEF Catalogue!Nothing, Catalogue!Query
<1>3. shown = [m \in Renditions |-> "none"]
  BY <1>1 DEF shown
<1>4. asked = [c \in Calls |-> Catalogue!Nothing]
  BY <1>2 DEF asked
<1>5. LInv
  BY DEF Init, LInv, Deleting, Alone, HoldsPlace, At, Idle
<1> QED BY <1>3, <1>4, <1>5 DEF Init, Catalogue!Init

LEMMA CatalogueNext ==
    ASSUME IInv, LInv, [Next]_vars PROVE [Catalogue!Next]_(Catalogue!vars)
<1>1. ASSUME NEW c \in Calls, Proceed(c)
      PROVE  Catalogue!Next \/ UNCHANGED Catalogue!vars
  <2>1. Finish(c) /\ UNCHANGED <<public, record, deleted, admin>> => Catalogue!Next
    BY LeaveStep DEF Catalogue!Next
  <2>2. CASE ReadObject(c)
    BY <2>1, <2>2, GotoHidden DEF ReadObject, At
  <2>3. CASE Authorize(c)
    BY <2>1, <2>3, ServesStep DEF Authorize, Catalogue!Next
  <2>4. CASE Serve(c) \/ Decline(c) \/ Abort(c)
    BY <2>1, <2>4 DEF Serve, Decline, Abort
  <2>5. CASE LockRequest(c)
    BY <2>5, GotoHidden DEF LockRequest
  <2>6. CASE Publish(c)
    BY <2>1, <2>6, PublishesStep DEF Publish, Catalogue!Next
  <2>7. CASE LockPlace(c)
    BY <2>1, <2>7, GotoHidden DEF LockPlace, At
  <2>8. CASE LockActor(c)
    BY <2>1, <2>8, GotoHidden DEF LockActor, HasActor, At
  <2>9. CASE Unpublish(c) \/ HardDelete(c) \/ Save(c)
    BY <2>9, RevokesStep, DeletesStep, SavesStep DEF Catalogue!Next
  <2> QED
    BY <1>1, <2>2, <2>3, <2>4, <2>5, <2>6, <2>7, <2>8, <2>9 DEF Proceed
<1>2. ASSUME NEW a \in Staff, Demote(a) PROVE Catalogue!Demote(a)
  <2>1. asked' = asked /\ shown' = shown
    BY <1>2 DEF Demote, public, asked, shown
  <2> QED BY <1>2, <2>1 DEF Demote, public, Catalogue!Demote
<1>3. CASE UNCHANGED vars
  <2>1. asked' = asked /\ shown' = shown
    BY <1>3 DEF vars, public, asked, shown
  <2> QED BY <1>3, <2>1 DEF vars, public, Catalogue!vars
<1> QED
  BY <1>1, <1>2, <1>3, AskStep, ErasesStep DEF Next, Catalogue!Next

-----------------------------------------------------------------------------
THEOREM Invariance == Spec => []IInv
BY InitIInv, NextIInv, PTL DEF Spec

\* Every variable keeps its type.
THEOREM TypeCorrect == Spec => []TypeOK
<1>1. IInv => TypeOK
  BY DEF IInv
<1> QED BY <1>1, Invariance, PTL

\* What an approval made public stays public as a whole, however hard
\* deletions, edits, revocations and the cleanup interleave.
THEOREM PublicWhole == Spec => []PublicationWhole
<1>1. IInv => PublicationWhole
  BY DEF IInv
<1> QED BY <1>1, Invariance, PTL

\* A rendition is revoked by one call and a key stands for one revocation.
THEOREM OneRevocation == Spec => []RevokedOnce
<1>1. IInv => RevokedOnce
  BY DEF IInv
<1> QED BY <1>1, Invariance, PTL

\* Every retrieval, approval, revocation, deletion and edit of a place takes
\* effect at one moment, and a call that does not changes nothing: what was read
\* before a lock does not show.
THEOREM CatalogueImplemented == Spec => TakesEffectAtOnce
<1>1. IInv /\ LInv /\ [Next]_vars => LInv' /\ [Catalogue!Next]_(Catalogue!vars)
  BY NextLInv, CatalogueNext
<1> QED
  BY <1>1, CatalogueInit, Invariance, PTL DEF Spec, TakesEffectAtOnce, Catalogue!Spec

\* The bytes go out only while the rendition and its place are public.
THEOREM ServedWhilePublic == Spec => ServedAsPublished
<1> DEFINE Served(c) ==
        call[c].pc # "serve" /\ call'[c].pc = "serve" =>
            /\ media[call[c].target].rendition = "published"
            /\ Exists(RequestOf[call[c].target])
<1>1. ASSUME IInv, [Next]_vars, NEW c \in Calls,
             call[c].pc # "serve", call'[c].pc = "serve"
      PROVE  Served(c)
  <2>1. \A d \in Calls : call[d] \in Call
    BY <1>1 DEF IInv, TypeOK
  <2>2. PICK d \in Calls : Start(d) \/ Proceed(d)
    BY <1>1 DEF Next, Sweep, Erase, FinishCleanup, Demote, vars
  <2>3. \/ d = c
        \/ call'[c] = call[c]
    BY <1>1, <2>1, <2>2
       DEF Start, Retrieve, Revoke, Approve, Delete, Edit, Begin, Proceed, ReadObject,
           Authorize, Serve, LockRequest, Publish, Decline, Unpublish, LockPlace,
           LockActor, HardDelete, Save, Abort, Finish, Goto, IInv, TypeOK
  <2>4. Start(c) \/ Proceed(c)
    BY <1>1, <2>2, <2>3
  <2>5. call \in [Calls -> Call]
    BY <1>1 DEF IInv, TypeOK
  <2>6. ~Start(c)
    BY <1>1, <2>5 DEF Start, Retrieve, Revoke, Approve, Delete, Edit, Begin
  <2>7. ~Finish(c)
    BY <1>1, <2>5 DEF Finish, Idle
  <2>8. \A pc : Goto(c, pc) => pc = "serve"
    BY <1>1, <2>1, <2>5 DEF Goto, Call
  <2>9. Authorize(c) /\ Published(call[c].target)
    BY <2>4, <2>6, <2>7, <2>8
       DEF Proceed, ReadObject, Authorize, Serve, LockRequest, Publish, Decline,
           Unpublish, LockPlace, LockActor, HardDelete, Save, Abort
  <2> QED BY <2>9 DEF Published
<1>2. IInv /\ [Next]_vars => [\A c \in Calls : Served(c)]_vars
  BY <1>1
<1> QED BY <1>2, Invariance, PTL DEF Spec, ServedAsPublished
-----------------------------------------------------------------------------
\* What the catalogue is worth

RetrievesRenditions ==
    \A c \in Calls : asked[c].op = "retrieve" => asked[c].target \in Renditions

LEMMA AskedIs ==
    ASSUME NEW c \in Calls, NEW q, asked' = [asked EXCEPT ![c] = q]
    PROVE  \A d \in Calls : asked'[d] = IF d = c THEN q ELSE asked[d]
BY DEF asked

LEMMA AskedFields ==
    ASSUME NEW c \in Calls
    PROVE  /\ [asked[c] EXCEPT !.served = TRUE].op = asked[c].op
           /\ [asked[c] EXCEPT !.served = TRUE].target = asked[c].target
BY DEF asked

LEMMA RetrievesStep ==
    ASSUME RetrievesRenditions, [Catalogue!Next]_(Catalogue!vars)
    PROVE  RetrievesRenditions'
<1>1. CASE UNCHANGED asked
  BY <1>1 DEF RetrievesRenditions
<1>2. ASSUME NEW c \in Calls, asked' = [asked EXCEPT ![c] = Catalogue!Nothing]
      PROVE  RetrievesRenditions'
  BY <1>2, AskedIs, NoneAssumption
     DEF Op, RetrievesRenditions, Catalogue!Nothing, Catalogue!Query
<1>3. ASSUME NEW c \in Calls, Catalogue!Ask(c)
      PROVE  RetrievesRenditions'
  BY <1>3, AskedIs DEF Op, RetrievesRenditions, Catalogue!Ask, Catalogue!Open, Catalogue!Query
<1>4. ASSUME NEW c \in Calls, Catalogue!Serve(c)
      PROVE  RetrievesRenditions'
  <2>1. asked' = [asked EXCEPT ![c] = [asked[c] EXCEPT !.served = TRUE]]
    BY <1>4 DEF Catalogue!Serve
  <2> QED BY <2>1, AskedIs, AskedFields DEF RetrievesRenditions
<1> QED
  BY <1>1, <1>2, <1>3, <1>4
     DEF Catalogue!Next, Catalogue!vars, Catalogue!Publish, Catalogue!Revoke,
         Catalogue!Delete, Catalogue!Save, Catalogue!Leave, Catalogue!Done,
         Catalogue!Erase, Catalogue!Demote

\* A catalogue whose changes take effect at once serves only what is public:
\* PublicCatalogue says so without the locks and second looks of the code.
THEOREM CatalogueSuffices == TakesEffectAtOnce => ServedAsPublished
<1> DEFINE Served(c) ==
        call[c].pc # "serve" /\ call'[c].pc = "serve" =>
            /\ media[call[c].target].rendition = "published"
            /\ Exists(RequestOf[call[c].target])
<1>1. ASSUME RetrievesRenditions, [Catalogue!Next]_(Catalogue!vars), NEW c \in Calls
      PROVE  Served(c)
  <2> SUFFICES ASSUME call[c].pc # "serve", call'[c].pc = "serve"
               PROVE  /\ media[call[c].target].rendition = "published"
                      /\ Exists(RequestOf[call[c].target])
    OBVIOUS
  <2>1. ~asked[c].served /\ asked'[c].served
    BY DEF asked
  <2>2. \A d \in Calls : asked' # [asked EXCEPT ![d] = Catalogue!Nothing]
    BY <2>1, AskedIs DEF Catalogue!Nothing, Catalogue!Query
  <2>3. \A d \in Calls : ~Catalogue!Ask(d)
    <3>1. ASSUME NEW d \in Calls, NEW op, NEW a, NEW k, NEW m,
                 asked' = [asked EXCEPT ![d] = Catalogue!Query(op, a, k, m, FALSE)]
          PROVE  FALSE
      BY <2>1, <3>1, AskedIs DEF Catalogue!Query
    <3> QED BY <3>1 DEF Catalogue!Ask, Catalogue!Open
  <2>4. asked' # asked
    BY <2>1
  <2>5. PICK d \in Calls : Catalogue!Serve(d)
    BY <1>1, <2>2, <2>3, <2>4
       DEF Catalogue!Next, Catalogue!vars, Catalogue!Publish, Catalogue!Revoke,
           Catalogue!Delete, Catalogue!Save, Catalogue!Leave, Catalogue!Done,
           Catalogue!Erase, Catalogue!Demote
  <2>6. asked' = [asked EXCEPT ![d] = [asked[d] EXCEPT !.served = TRUE]]
    BY <2>5 DEF Catalogue!Serve
  <2>7. d = c
    BY <2>1, <2>6, AskedIs
  <2>8. asked[c].target \in Renditions /\ shown[asked[c].target] = "published"
        /\ Catalogue!There(RequestOf[asked[c].target])
    BY <1>1, <2>5, <2>7 DEF Catalogue!Serve, RetrievesRenditions
  <2> QED BY <2>8 DEF asked, shown, Catalogue!There, Exists
<1>2. Catalogue!Init => RetrievesRenditions
  BY NoneAssumption
     DEF Catalogue!Init, RetrievesRenditions, Catalogue!Nothing, Catalogue!Query,
         Op, asked
<1>3. RetrievesRenditions /\ [Catalogue!Next]_(Catalogue!vars) => RetrievesRenditions'
  BY RetrievesStep
<1>4. RetrievesRenditions /\ [Catalogue!Next]_(Catalogue!vars)
          => [\A c \in Calls : Served(c)]_vars
  BY <1>1
<1> QED BY <1>2, <1>3, <1>4, PTL DEF TakesEffectAtOnce, Catalogue!Spec, ServedAsPublished
=============================================================================

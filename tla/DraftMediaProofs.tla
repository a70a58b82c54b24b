-------------------------- MODULE DraftMediaProofs -------------------------
(***************************************************************************)
(* The limit and the distinctness of a submission's media, for any number  *)
(* of uploads and any limit: the checks made when a slot is reserved still *)
(* hold when the upload is attached, however the images were moved.        *)
(***************************************************************************)
EXTENDS DraftMedia, FiniteSetTheorems, TLAPS

\* A reservation has a slot.
ReservationsPlaced == \A i \in Reservations : intent[i].slot \in Slots

\* The inductive invariant.
IInv == /\ TypeOK
        /\ WithinLimit
        /\ ReservationsPlaced
        /\ ReservationsApart
        /\ ImagesApart
        /\ AttachedHasImage

-----------------------------------------------------------------------------
\* Counting

LEMMA Finite ==
    /\ IsFiniteSet(Images) /\ Cardinality(Images) \in Nat
    /\ IsFiniteSet(Reservations) /\ Cardinality(Reservations) \in Nat
<1>1. Images \subseteq Intents /\ Reservations \subseteq Intents
  BY DEF Images, Reservations
<1>2. IsFiniteSet(Images) /\ IsFiniteSet(Reservations)
  BY <1>1, BoundsAssumption, FS_Subset
<1> QED BY <1>2, FS_CardinalityType

\* Whatever only gives up images and reservations stays within the limit.
LEMMA GivingUp ==
    ASSUME IInv, Images' \subseteq Images, Reservations' \subseteq Reservations
    PROVE  WithinLimit'
<1>1. /\ Cardinality(Images') \in Nat
      /\ Cardinality(Images') <= Cardinality(Images)
  BY Finite, FS_Subset, FS_CardinalityType
<1>2. /\ Cardinality(Reservations') \in Nat
      /\ Cardinality(Reservations') <= Cardinality(Reservations)
  BY Finite, FS_Subset, FS_CardinalityType
<1> QED BY <1>1, <1>2, Finite, MaxMediaAssumption DEF IInv, WithinLimit

-----------------------------------------------------------------------------
\* One step at a time

\* A row moves to another state while its image, its slot and all other rows
\* stay: what this means for the two sets.
LEMMA OneRow ==
    ASSUME IInv, NEW i \in Intents, NEW s \in State, SetState(i, s)
    PROVE  /\ intent' \in [Intents -> Row]
           /\ intent'[i].state = s
           /\ \A j \in Intents : /\ intent'[j].slot = intent[j].slot
                                 /\ intent'[j].digest = intent[j].digest
           /\ \A j \in Intents \ {i} : intent'[j].state = intent[j].state
<1>1. \A j \in Intents : intent[j] \in Row
  BY DEF IInv, TypeOK
<1>2. [intent[i] EXCEPT !.state = s] \in Row
  BY <1>1 DEF Row
<1>3. intent' = [intent EXCEPT ![i] = [intent[i] EXCEPT !.state = s]]
  BY DEF SetState, IInv, TypeOK
<1>4. intent' \in [Intents -> Row]
  BY <1>2, <1>3 DEF IInv, TypeOK
<1>5. intent'[i] = [intent[i] EXCEPT !.state = s]
  BY <1>3 DEF IInv, TypeOK
<1>6. /\ intent'[i].state = s
      /\ intent'[i].slot = intent[i].slot
      /\ intent'[i].digest = intent[i].digest
  BY <1>1, <1>5 DEF Row
<1>7. \A j \in Intents \ {i} : intent'[j] = intent[j]
  BY <1>3 DEF IInv, TypeOK
<1> QED BY <1>4, <1>6, <1>7

\* A step that retires an upload, or settles one that is retired.
LEMMA RetiringStep ==
    ASSUME IInv, NEW i \in Intents, NEW s \in {"cleanup_pending", "deleted"},
           SetState(i, s),
           \/ position' = [position EXCEPT ![i] = None]
           \/ position' = position /\ position[i] = None,
           submission' \in {"draft", "pending", "approved", "closed"},
           running' \in [Intents -> 0 .. MaxRunning]
    PROVE  IInv'
<1>1. /\ position' \in [Intents -> Slots \cup {None}]
      /\ position'[i] = None
      /\ \A j \in Intents \ {i} : position'[j] = position[j]
  BY DEF IInv, TypeOK
<1>2. s \in State
  BY DEF State
<1>3. /\ intent' \in [Intents -> Row]
      /\ intent'[i].state = s
      /\ \A j \in Intents : /\ intent'[j].slot = intent[j].slot
                            /\ intent'[j].digest = intent[j].digest
      /\ \A j \in Intents \ {i} : intent'[j].state = intent[j].state
  BY <1>2, OneRow
<1>4. Images' = Images \ {i} /\ Reservations' = Reservations \ {i}
  BY <1>1, <1>3 DEF Images, Reservations, Is, Reserving
<1>5. WithinLimit'
  BY <1>4, GivingUp
<1>6. ReservationsPlaced' /\ ReservationsApart'
  BY <1>3, <1>4 DEF IInv, ReservationsPlaced, ReservationsApart, Reservations
<1>7. ImagesApart'
  BY <1>1, <1>3, <1>4 DEF IInv, ImagesApart, Images
<1>8. AttachedHasImage'
  BY <1>3, <1>4 DEF IInv, AttachedHasImage, Is
<1> QED BY <1>1, <1>3, <1>5, <1>6, <1>7, <1>8 DEF IInv, TypeOK

\* A step on a reservation that stays one.
LEMMA ReservingStep ==
    ASSUME IInv, NEW i \in Reservations, NEW s \in Reserving,
           SetState(i, s), UNCHANGED <<submission, position>>,
           running' \in [Intents -> 0 .. MaxRunning]
    PROVE  IInv'
<1>1. i \in Intents /\ s \in State
  BY DEF Reservations, State
<1>2. /\ intent' \in [Intents -> Row]
      /\ intent'[i].state = s
      /\ \A j \in Intents : /\ intent'[j].slot = intent[j].slot
                            /\ intent'[j].digest = intent[j].digest
      /\ \A j \in Intents \ {i} : intent'[j].state = intent[j].state
  BY <1>1, OneRow
<1>3. Images' = Images /\ Reservations' = Reservations
  BY <1>1, <1>2 DEF Images, Reservations, Is
<1>4. WithinLimit'
  BY <1>3, GivingUp
<1>5. ReservationsPlaced' /\ ReservationsApart'
  BY <1>2, <1>3 DEF IInv, ReservationsPlaced, ReservationsApart, Reservations
<1>6. ImagesApart'
  BY <1>2, <1>3 DEF IInv, ImagesApart, Images
<1>7. intent[i].state # "attached" /\ s # "attached"
  BY DEF Reservations, Reserving, Is
<1>8. AttachedHasImage'
  BY <1>2, <1>3, <1>7 DEF IInv, AttachedHasImage, Is
<1> QED BY <1>2, <1>4, <1>5, <1>6, <1>8 DEF IInv, TypeOK

LEMMA InitIInv == Init => IInv
<1> SUFFICES ASSUME Init
             PROVE  IInv
  OBVIOUS
<1>1. \A i \in Intents : intent[i].state = "none"
  BY DEF Init
<1>2. TypeOK
  <2>1. \A d \in Digests : [state |-> "none", slot |-> None, digest |-> d] \in Row
    BY DEF Row, State
  <2>2. intent \in [Intents -> Row]
    BY <2>1 DEF Init
  <2>3. /\ position \in [Intents -> Slots \cup {None}]
        /\ running \in [Intents -> 0 .. MaxRunning]
    BY BoundsAssumption DEF Init
  <2> QED BY <2>2, <2>3 DEF TypeOK, Init
<1>3. Images = {} /\ Reservations = {}
  BY <1>1 DEF Init, Images, Reservations, Is, Reserving
<1>4. WithinLimit
  BY <1>3, FS_EmptySet, MaxMediaAssumption DEF WithinLimit
<1>5. AttachedHasImage
  BY <1>1, <1>3 DEF AttachedHasImage, Is
<1> QED BY <1>2, <1>3, <1>4, <1>5
        DEF IInv, ReservationsPlaced, ReservationsApart, ImagesApart

\* A slot that is free is no other reservation's.
LEMMA CreateStep ==
    ASSUME IInv, NEW i \in Intents, NEW slot \in Slots, Create(i, slot)
    PROVE  IInv'
<1> DEFINE row == [intent[i] EXCEPT !.state = "created", !.slot = slot]
<1>1. intent[i] \in Row /\ intent[i].state = "none"
  BY DEF IInv, TypeOK, Create, Is
<1>2. /\ row \in Row
      /\ row.state = "created" /\ row.slot = slot
      /\ row.digest = intent[i].digest
  BY <1>1 DEF Row, State, Reserving
<1>3. intent' = [intent EXCEPT ![i] = row]
  BY DEF Create, IInv, TypeOK
<1> HIDE DEF row
<1>4. /\ intent' \in [Intents -> Row]
      /\ intent'[i] = row
      /\ \A j \in Intents \ {i} : intent'[j] = intent[j]
  BY <1>2, <1>3 DEF IInv, TypeOK
<1>5. position' = position
  BY DEF Create
<1>6. i \notin Images /\ i \notin Reservations
  BY <1>1 DEF IInv, AttachedHasImage, Reservations, Is, Reserving
<1>7. Images' = Images
  BY <1>5 DEF Images
<1>8. Reservations' = Reservations \cup {i}
  BY <1>2, <1>4 DEF Reservations, Is, Reserving
<1>9. WithinLimit'
  <2>1. Cardinality(Reservations') = Cardinality(Reservations) + 1
    BY <1>6, <1>8, Finite, FS_AddElement
  <2>2. Cardinality(Images) + Cardinality(Reservations) < MaxMedia
    BY DEF Create, HasRoom
  <2> QED BY <1>7, <2>1, <2>2, Finite, MaxMediaAssumption DEF WithinLimit
<1>10. \A j \in Reservations : intent[j].slot # slot
  BY DEF Create, Available, UsedSlots
<1>11. ReservationsPlaced'
  BY <1>2, <1>4, <1>6, <1>8 DEF IInv, ReservationsPlaced, Reservations
<1>12. ReservationsApart'
  <2> SUFFICES ASSUME NEW j \in Reservations', NEW k \in Reservations',
                      intent'[j].slot = intent'[k].slot
               PROVE  j = k
    BY DEF ReservationsApart
  <2>1. \A r \in Reservations : intent'[r] = intent[r] /\ r # i
    BY <1>4, <1>6 DEF Reservations
  <2>2. intent'[i].slot = slot
    BY <1>2, <1>4
  <2>3. CASE j = i /\ k = i
    BY <2>3
  <2>4. CASE j = i /\ k \in Reservations
    BY <1>10, <2>1, <2>2, <2>4
  <2>5. CASE j \in Reservations /\ k = i
    BY <1>10, <2>1, <2>2, <2>5
  <2>6. CASE j \in Reservations /\ k \in Reservations
    BY <2>1, <2>6 DEF IInv, ReservationsApart
  <2> QED BY <1>8, <2>3, <2>4, <2>5, <2>6
<1>13. ImagesApart'
  BY <1>4, <1>5, <1>6, <1>7 DEF IInv, ImagesApart, Images
<1>14. AttachedHasImage'
  BY <1>1, <1>2, <1>4, <1>7 DEF IInv, AttachedHasImage, Is
<1>15. TypeOK'
  BY <1>4 DEF Create, IInv, TypeOK
<1> QED BY <1>9, <1>11, <1>12, <1>13, <1>14, <1>15 DEF IInv

\* A reservation becomes an image: the two sets together keep their size.
LEMMA AttachStep ==
    ASSUME IInv, NEW i \in Intents, Attach(i)
    PROVE  IInv'
<1>1. /\ intent[i].state = "verified"
      /\ SetState(i, "attached")
      /\ position' = [position EXCEPT ![i] = intent[i].slot]
      /\ UNCHANGED <<submission, running>>
      /\ \A j \in Images : /\ position[j] # intent[i].slot
                           /\ intent[j].digest # intent[i].digest
  BY DEF Attach, Is
<1>2. "attached" \in State
  BY DEF State
<1>3. /\ intent' \in [Intents -> Row]
      /\ intent'[i].state = "attached"
      /\ \A j \in Intents : /\ intent'[j].slot = intent[j].slot
                            /\ intent'[j].digest = intent[j].digest
      /\ \A j \in Intents \ {i} : intent'[j].state = intent[j].state
  BY <1>1, <1>2, OneRow
<1>4. i \in Reservations /\ i \notin Images
  BY <1>1 DEF IInv, AttachedHasImage, Reservations, Is, Reserving
<1>5. intent[i].slot \in Slots /\ intent[i].slot # None
  BY <1>4, MaxMediaAssumption DEF IInv, ReservationsPlaced, Slots
<1>6. /\ position' \in [Intents -> Slots \cup {None}]
      /\ position'[i] = intent[i].slot
      /\ \A j \in Intents \ {i} : position'[j] = position[j]
  BY <1>1, <1>5 DEF IInv, TypeOK
<1>7. Images' = Images \cup {i}
  BY <1>5, <1>6 DEF Images
<1>8. Reservations' = Reservations \ {i}
  BY <1>3 DEF Reservations, Is, Reserving
<1>9. WithinLimit'
  <2>1. Cardinality(Images') = Cardinality(Images) + 1
    BY <1>4, <1>7, Finite, FS_AddElement
  <2>2. Cardinality(Reservations') = Cardinality(Reservations) - 1
    BY <1>4, <1>8, Finite, FS_RemoveElement
  <2> QED BY <2>1, <2>2, Finite, MaxMediaAssumption DEF IInv, WithinLimit
<1>10. ReservationsPlaced' /\ ReservationsApart'
  BY <1>3, <1>8 DEF IInv, ReservationsPlaced, ReservationsApart, Reservations
<1>11. ImagesApart'
  BY <1>1, <1>3, <1>4, <1>6, <1>7 DEF IInv, ImagesApart, Images
<1>12. AttachedHasImage'
  BY <1>3, <1>7 DEF IInv, AttachedHasImage, Is
<1> QED BY <1>1, <1>3, <1>6, <1>9, <1>10, <1>11, <1>12 DEF IInv, TypeOK

\* The positions that are counted from zero are slots, as there are no more
\* images than slots.
LEMMA ReorderStep ==
    ASSUME IInv, Reorder
    PROVE  IInv'
<1>1. PICK order \in [Images -> 0 .. Cardinality(Images) - 1] :
          /\ \A i, j \in Images : order[i] = order[j] => i = j
          /\ position' = [i \in Intents |->
                              IF i \in Images THEN order[i] ELSE None]
  BY DEF Reorder
<1>2. UNCHANGED <<submission, intent, running>>
  BY DEF Reorder
<1>3. Cardinality(Images) <= MaxMedia
  BY Finite, MaxMediaAssumption DEF IInv, WithinLimit
<1>4. \A n \in 0 .. Cardinality(Images) - 1 : n \in Slots /\ n # None
  BY <1>3, Finite, MaxMediaAssumption DEF Slots
<1>5. \A i \in Images : i \in Intents /\ order[i] \in Slots /\ order[i] # None
  BY <1>1, <1>4 DEF Images
<1>6. position' \in [Intents -> Slots \cup {None}]
  BY <1>1, <1>5
<1>7. \A i \in Images : position'[i] = order[i]
  BY <1>1, <1>5
<1>8. \A i \in Intents \ Images : position'[i] = None
  BY <1>1
<1>9. Images' = Images
  BY <1>5, <1>7, <1>8 DEF Images
<1>10. Reservations' = Reservations
  BY <1>2 DEF Reservations, Is
<1>11. WithinLimit'
  BY <1>9, <1>10, GivingUp
<1>12. ReservationsPlaced' /\ ReservationsApart'
  BY <1>2, <1>10 DEF IInv, ReservationsPlaced, ReservationsApart
<1>13. ImagesApart'
  BY <1>1, <1>2, <1>7, <1>9 DEF IInv, ImagesApart
<1>14. AttachedHasImage'
  BY <1>2, <1>9 DEF IInv, AttachedHasImage, Is
<1> QED BY <1>2, <1>6, <1>11, <1>12, <1>13, <1>14 DEF IInv, TypeOK

LEMMA CloseStep ==
    ASSUME IInv, Close
    PROVE  IInv'
<1>1. \A i \in Intents : intent[i] \in Row
  BY DEF IInv, TypeOK
<1>2. \A i \in Intents : [intent[i] EXCEPT !.state = "cleanup_pending"] \in Row
  BY <1>1 DEF Row, State
<1>3. intent' \in [Intents -> Row]
  BY <1>1, <1>2 DEF Close
<1>4. \A i \in Intents : intent'[i].state \in {"none", "deleted", "cleanup_pending"}
  <2> TAKE i \in Intents
  <2>1. CASE Is(i, {"none", "deleted"})
    BY <2>1 DEF Close, Is
  <2>2. CASE ~Is(i, {"none", "deleted"})
    BY <1>1, <2>2 DEF Close, Row
  <2> QED BY <2>1, <2>2
<1>5. position' \in [Intents -> Slots \cup {None}] /\ Images' = {}
  BY DEF Close, Images
<1>6. Reservations' = {}
  BY <1>4 DEF Reservations, Is, Reserving
<1>7. WithinLimit'
  BY <1>5, <1>6, GivingUp
<1>8. AttachedHasImage'
  BY <1>4, <1>5 DEF AttachedHasImage, Is
<1>9. /\ submission' \in {"draft", "pending", "approved", "closed"}
      /\ running' \in [Intents -> 0 .. MaxRunning]
  BY DEF Close, IInv, TypeOK
<1> QED BY <1>3, <1>5, <1>6, <1>7, <1>8, <1>9
        DEF IInv, TypeOK, ReservationsPlaced, ReservationsApart, ImagesApart

\* A step that touches neither rows nor images.
LEMMA MediaUntouched ==
    ASSUME IInv, UNCHANGED <<intent, position>>,
           submission' \in {"draft", "pending", "approved", "closed"},
           running' \in [Intents -> 0 .. MaxRunning]
    PROVE  IInv'
<1>1. Images' = Images /\ Reservations' = Reservations
  BY DEF Images, Reservations, Is
<1>2. WithinLimit'
  BY <1>1, GivingUp
<1>3. ReservationsPlaced' /\ ReservationsApart' /\ ImagesApart'
  BY <1>1 DEF IInv, ReservationsPlaced, ReservationsApart, ImagesApart
<1>4. AttachedHasImage'
  BY <1>1 DEF IInv, AttachedHasImage, Is
<1> QED BY <1>2, <1>3, <1>4 DEF IInv, TypeOK

LEMMA CommitVerifyStep ==
    ASSUME IInv, NEW i \in Intents, CommitVerify(i)
    PROVE  IInv'
<1>1. UNCHANGED <<submission, position>>
  BY DEF CommitVerify
<1>2. running' \in [Intents -> 0 .. MaxRunning]
  BY BoundsAssumption DEF CommitVerify, IInv, TypeOK
<1>3. submission' \in {"draft", "pending", "approved", "closed"}
  BY <1>1 DEF IInv, TypeOK
<1>4. CASE Is(i, {"issued"}) /\ SetState(i, "verified")
  <2>1. i \in Reservations /\ "verified" \in Reserving
    BY <1>4 DEF Reservations, Reserving, Is
  <2> QED BY <1>1, <1>2, <1>4, <2>1, ReservingStep
<1>5. CASE Is(i, {"issued"}) /\ SetState(i, "cleanup_pending")
  <2>1. position[i] = None
    BY <1>5 DEF IInv, AttachedHasImage, Images, Is
  <2> QED BY <1>1, <1>2, <1>3, <1>5, <2>1, RetiringStep
<1>6. CASE position[i] = None /\ SetState(i, "cleanup_pending")
  BY <1>1, <1>2, <1>3, <1>6, RetiringStep
<1>7. CASE UNCHANGED intent
  BY <1>1, <1>2, <1>3, <1>7, MediaUntouched
<1> QED BY <1>4, <1>5, <1>6, <1>7 DEF CommitVerify

LEMMA NextIInv == IInv /\ [Next]_vars => IInv'
<1> SUFFICES ASSUME IInv, [Next]_vars
             PROVE  IInv'
  OBVIOUS
<1>1. /\ submission \in {"draft", "pending", "approved", "closed"}
      /\ running \in [Intents -> 0 .. MaxRunning]
  BY DEF IInv, TypeOK
<1>2. ASSUME NEW i \in Intents, NEW slot \in Slots, Create(i, slot)
      PROVE  IInv'
  BY <1>2, CreateStep
<1>3. ASSUME NEW i \in Intents, Issue(i)
      PROVE  IInv'
  <2>1. i \in Reservations /\ "issued" \in Reserving
    BY <1>3 DEF Issue, Reservations, Reserving, Is
  <2> QED BY <1>1, <1>3, <2>1, ReservingStep DEF Issue
<1>4. ASSUME NEW i \in Intents, StartVerify(i)
      PROVE  IInv'
  <2>1. running' \in [Intents -> 0 .. MaxRunning]
    BY <1>1, <1>4, BoundsAssumption DEF StartVerify
  <2> QED BY <1>1, <1>4, <2>1, MediaUntouched DEF StartVerify
<1>5. ASSUME NEW i \in Intents, Attach(i)
      PROVE  IInv'
  BY <1>5, AttachStep
<1>6. ASSUME NEW i \in Intents, Remove(i) \/ Revoke(i)
      PROVE  IInv'
  BY <1>1, <1>6, RetiringStep DEF Remove, Revoke
<1>7. CASE Reorder
  BY <1>7, ReorderStep
<1>8. ASSUME NEW i \in Intents, CommitVerify(i)
      PROVE  IInv'
  BY <1>8, CommitVerifyStep
<1>9. ASSUME NEW i \in Intents, Expire(i)
      PROVE  IInv'
  <2>1. position[i] = None
    BY <1>9 DEF Expire, IInv, AttachedHasImage, Images, Is, Reserving
  <2> QED BY <1>1, <1>9, <2>1, RetiringStep DEF Expire
<1>10. ASSUME NEW i \in Intents, Cleanup(i)
       PROVE  IInv'
  BY <1>1, <1>10, RetiringStep DEF Cleanup
<1>11. CASE Finalize
  BY <1>1, <1>11, MediaUntouched DEF Finalize
<1>12. CASE Approve
  BY <1>1, <1>12, MediaUntouched DEF Approve
<1>13. CASE Close
  BY <1>13, CloseStep
<1>14. CASE UNCHANGED vars
  BY <1>1, <1>14, MediaUntouched DEF vars
<1> QED BY <1>2, <1>3, <1>4, <1>5, <1>6, <1>7, <1>8, <1>9, <1>10, <1>11,
           <1>12, <1>13, <1>14 DEF Next, OwnerStep, SystemStep, ReviewStep

-----------------------------------------------------------------------------
\* Theorems

THEOREM Inductive == Spec => []IInv
BY InitIInv, NextIInv, PTL DEF Spec

\* Attachments and reservations together never exceed the limit that
\* create_upload_intent checks and attach_verified_media relies on.
THEOREM LimitKept == Spec => []WithinLimit
<1>1. IInv => WithinLimit
  BY DEF IInv
<1> QED BY <1>1, Inductive, PTL

\* No two uploads reserve one slot of a submission.
THEOREM SlotsReservedOnce == Spec => []ReservationsApart
<1>1. IInv => ReservationsApart
  BY DEF IInv
<1> QED BY <1>1, Inductive, PTL

\* No two images of a submission have one position or one content.
THEOREM AttachmentsDistinct == Spec => []ImagesApart
<1>1. IInv => ImagesApart
  BY DEF IInv
<1> QED BY <1>1, Inductive, PTL

\* The attached rows are those with an Image.
THEOREM RowsMatchImages == Spec => []AttachedHasImage
<1>1. IInv => AttachedHasImage
  BY DEF IInv
<1> QED BY <1>1, Inductive, PTL

\* What a reviewer sees of a pending submission, and what becomes public, are
\* the images in the order the owner submitted.
THEOREM ReviewedUnchanged == Spec => ReviewedAsSubmitted
<1>1. ASSUME IInv, [Next]_vars
      PROVE  [submission = "pending" /\ submission' # "closed" =>
                  UNCHANGED position]_vars
  <2> SUFFICES ASSUME submission = "pending", submission' # "closed", Next
               PROVE  position' = position
    BY <1>1 DEF vars
  <2>1. ~OwnerStep
    BY DEF OwnerStep, Create, Issue, StartVerify, Attach, Remove, Reorder
  <2>2. CASE SystemStep
    BY <2>2 DEF SystemStep, CommitVerify, Expire, Cleanup
  <2>3. CASE ReviewStep
    BY <2>3 DEF ReviewStep, Finalize, Approve, Close, Revoke
  <2> QED BY <2>1, <2>2, <2>3 DEF Next
<1> QED BY <1>1, Inductive, PTL DEF Spec, ReviewedAsSubmitted

-----------------------------------------------------------------------------
\* Each upload by itself

\* A step of another upload, or of none.
LEMMA NotSeen ==
    ASSUME NEW i \in Intents,
           submission' = submission, intent'[i].state = intent[i].state,
           (position'[i] # None) = (position[i] # None),
           running'[i] = running[i]
    PROVE  UNCHANGED Life(i)!vars
BY DEF Life!vars

\* A row moves while all others stay.
LEMMA OneUpload ==
    ASSUME IInv, NEW i \in Intents, NEW j \in Intents \ {i}, NEW s \in State,
           SetState(j, s), submission' = submission,
           \/ position' = position
           \/ \E k : position' = [position EXCEPT ![j] = k],
           \/ running' = running
           \/ \E n : running' = [running EXCEPT ![j] = n]
    PROVE  UNCHANGED Life(i)!vars
<1>1. intent'[i].state = intent[i].state
  BY OneRow
<1>2. position'[i] = position[i] /\ running'[i] = running[i]
  BY DEF IInv, TypeOK
<1> QED BY <1>1, <1>2, NotSeen

\* What the row of an upload and its image are to each other.
LEMMA Attached ==
    ASSUME IInv, NEW i \in Intents
    PROVE  /\ position[i] # None <=> intent[i].state = "attached"
           /\ running[i] \in Nat
  BY BoundsAssumption DEF IInv, TypeOK, AttachedHasImage, Images, Is

LEMMA CreateLife ==
    ASSUME IInv, NEW i \in Intents, NEW j \in Intents, NEW slot \in Slots,
           Create(j, slot)
    PROVE  [Life(i)!Next]_(Life(i)!vars)
<1>1. /\ submission = "draft" /\ intent[j].state = "none"
      /\ intent' = [intent EXCEPT ![j].state = "created", ![j].slot = slot]
      /\ UNCHANGED <<submission, position, running>>
  BY DEF Create, Is
<1>2. CASE i = j
  <2>1. intent[i] \in Row
    BY DEF IInv, TypeOK
  <2>2. intent'[i].state = "created"
    BY <1>1, <1>2, <2>1 DEF IInv, TypeOK, Row
  <2> QED BY <1>1, <1>2, <2>2 DEF Life!Next, Life!Create, Life!Drafted
<1>3. CASE i # j
  <2>1. intent'[i] = intent[i]
    BY <1>1, <1>3 DEF IInv, TypeOK
  <2> QED BY <1>1, <2>1, NotSeen
<1> QED BY <1>2, <1>3

\* What the owner, the job and the reviewers do to one upload.
LEMMA OwnLife ==
    ASSUME IInv, NEW i \in Intents,
           \/ Issue(i) \/ Attach(i) \/ Remove(i) \/ Expire(i)
           \/ Cleanup(i) \/ Revoke(i)
    PROVE  [Life(i)!Next]_(Life(i)!vars)
<1>1. PICK s \in State : SetState(i, s) /\ intent'[i].state = s
  <2>1. PICK s \in State : SetState(i, s)
    BY DEF Issue, Attach, Remove, Expire, Cleanup, Revoke, State, Reserving
  <2> QED BY <2>1, OneRow
<1>2. UNCHANGED <<submission, running>>
  BY DEF Issue, Attach, Remove, Expire, Cleanup, Revoke
<1>3. intent \in [Intents -> Row] /\ position \in [Intents -> Slots \cup {None}]
  BY DEF IInv, TypeOK
<1>4. position[i] # None <=> intent[i].state = "attached"
  BY Attached
<1>5. CASE Issue(i)
  <2>1. intent'[i].state = "issued" /\ UNCHANGED position
    BY <1>3, <1>5 DEF Issue, SetState, Row
  <2> QED BY <1>2, <1>5, <2>1 DEF Issue, Is, Life!Next, Life!Issue, Life!Drafted
<1>6. CASE Attach(i)
  <2>1. intent'[i].state = "attached"
    BY <1>3, <1>6 DEF Attach, SetState, Row
  <2>2. i \in Reservations
    BY <1>6 DEF Attach, Is, Reservations, Reserving
  <2>3. position'[i] # None
    BY <1>3, <1>6, <2>2, MaxMediaAssumption
       DEF Attach, IInv, ReservationsPlaced, Slots
  <2> QED BY <1>2, <1>6, <2>1, <2>3
          DEF Attach, Is, Life!Next, Life!Attach, Life!Drafted
<1>7. CASE Remove(i) \/ Revoke(i)
  <2>1. intent'[i].state = "cleanup_pending" /\ position'[i] = None
    BY <1>3, <1>7 DEF Remove, Revoke, SetState, Row
  <2> QED BY <1>2, <1>4, <1>7, <2>1 DEF Remove, Revoke, Is, Life!Next, Life!Detach
<1>8. CASE Expire(i)
  <2>1. intent'[i].state = "cleanup_pending" /\ UNCHANGED position
    BY <1>3, <1>8 DEF Expire, SetState, Row
  <2> QED BY <1>2, <1>8, <2>1 DEF Expire, Is, Reserving, Life!Next, Life!GiveUp
<1>9. CASE Cleanup(i)
  <2>1. intent'[i].state = "deleted" /\ UNCHANGED position
    BY <1>3, <1>9 DEF Cleanup, SetState, Row
  <2> QED BY <1>2, <1>9, <2>1 DEF Cleanup, Is, Life!Next, Life!Clean
<1> QED BY <1>5, <1>6, <1>7, <1>8, <1>9

LEMMA OthersLife ==
    ASSUME IInv, NEW i \in Intents, NEW j \in Intents \ {i},
           \/ Issue(j) \/ Attach(j) \/ Remove(j) \/ Expire(j)
           \/ Cleanup(j) \/ Revoke(j)
    PROVE  UNCHANGED Life(i)!vars
<1>1. PICK s \in State : SetState(j, s)
  BY DEF Issue, Attach, Remove, Expire, Cleanup, Revoke, State, Reserving
<1>2. \/ position' = position
      \/ \E k : position' = [position EXCEPT ![j] = k]
  BY DEF Issue, Attach, Remove, Expire, Cleanup, Revoke
<1>3. submission' = submission /\ running' = running
  BY DEF Issue, Attach, Remove, Expire, Cleanup, Revoke
<1> QED BY <1>1, <1>2, <1>3, OneUpload

\* The two transactions of a verification.
LEMMA VerificationLife ==
    ASSUME IInv, NEW i \in Intents, NEW j \in Intents,
           StartVerify(j) \/ CommitVerify(j)
    PROVE  [Life(i)!Next]_(Life(i)!vars)
<1>1. intent \in [Intents -> Row] /\ running \in [Intents -> 0 .. MaxRunning]
  BY DEF IInv, TypeOK
<1>2. UNCHANGED <<submission, position>>
  BY DEF StartVerify, CommitVerify
<1>3. CASE i # j
  <2>1. running'[i] = running[i]
    BY <1>1, <1>3 DEF StartVerify, CommitVerify
  <2>2. intent'[i] = intent[i]
    BY <1>1, <1>3 DEF StartVerify, CommitVerify, SetState
  <2> QED BY <1>2, <2>1, <2>2, NotSeen
<1>4. CASE i = j /\ StartVerify(j)
  <2>1. running'[i] > 0
    BY <1>1, <1>4, BoundsAssumption DEF StartVerify
  <2> QED BY <1>2, <1>4, <2>1 DEF StartVerify, Is, Life!Next, Life!Begin
<1>5. CASE i = j /\ CommitVerify(j)
  <2>1. running[i] > 0 /\ (running'[i] > 0) \in BOOLEAN
    BY <1>5 DEF CommitVerify
  <2>2. CASE Is(i, {"issued"}) /\ submission = "draft" /\ SetState(i, "verified")
    <3>1. intent'[i].state = "verified"
      BY <1>1, <2>2 DEF SetState, Row
    <3> QED BY <1>2, <2>1, <2>2, <3>1 DEF Is, Life!Next, Life!Verify, Life!Ends
  <2>3. CASE Is(i, {"issued"}) /\ SetState(i, "cleanup_pending")
    <3>1. intent'[i].state = "cleanup_pending"
      BY <1>1, <2>3 DEF SetState, Row
    <3> QED BY <1>2, <2>1, <2>3, <3>1 DEF Is, Life!Next, Life!GiveUp, Life!Ends
  <2>4. CASE Is(i, {"cleanup_pending", "deleted"}) /\ SetState(i, "cleanup_pending")
    <3>1. intent'[i].state = "cleanup_pending"
      BY <1>1, <2>4 DEF SetState, Row
    <3> QED BY <1>2, <2>1, <2>4, <3>1
            DEF Is, Life!Next, Life!Reopen, Life!Leave, Life!Ends
  <2>5. CASE UNCHANGED intent
    BY <1>2, <2>1, <2>5 DEF Life!Next, Life!Leave, Life!Ends
  <2> QED BY <1>5, <2>2, <2>3, <2>4, <2>5 DEF CommitVerify
<1> QED BY <1>3, <1>4, <1>5

\* A submission that is ready is so in each of its uploads.
LEMMA ReviewLife ==
    ASSUME IInv, NEW i \in Intents, Finalize \/ Approve \/ Close
    PROVE  [Life(i)!Next]_(Life(i)!vars)
<1>1. running' = running
  BY DEF Finalize, Approve, Close
<1>2. CASE Finalize \/ Approve
  <2>1. UNCHANGED <<intent, position>>
    BY <1>2 DEF Finalize, Approve
  <2>2. Life(i)!Ready
    BY <1>2, Attached DEF Finalize, Approve, MediaReady, Is, Life!Ready
  <2> QED BY <1>1, <1>2, <2>1, <2>2
          DEF Finalize, Approve, Life!Next, Life!Proceed
<1>3. CASE Close
  <2>1. intent[i] \in Row
    BY DEF IInv, TypeOK
  <2>2. intent'[i].state = IF intent[i].state \in {"none", "deleted"}
                           THEN intent[i].state ELSE "cleanup_pending"
    BY <1>3, <2>1 DEF Close, Is, Row
  <2>3. position'[i] = None
    BY <1>3 DEF Close
  <2> QED BY <1>1, <1>3, <2>2, <2>3 DEF Close, Life!Next, Life!Close
<1> QED BY <1>2, <1>3

LEMMA ReorderLife ==
    ASSUME IInv, Reorder, NEW i \in Intents
    PROVE  UNCHANGED Life(i)!vars
<1>1. UNCHANGED <<submission, intent, running>>
  BY DEF Reorder
<1>2. IInv' /\ IInv
  BY ReorderStep
<1>3. position[i] # None <=> intent[i].state = "attached"
  BY Attached
<1>4. position'[i] # None <=> intent'[i].state = "attached"
  BY <1>2 DEF IInv, AttachedHasImage, Images, Is
<1> QED BY <1>1, <1>3, <1>4, NotSeen

\* What happens to a submission is, for each of its uploads, the life that
\* MediaIntent gives to one: none is reserved, attached, detached or revived by
\* what happens to the others.
THEOREM EachUploadLives == Spec => UploadsLiveAlike
<1>1. Init => \A i \in Intents : Life(i)!Init
  BY DEF Init, Life!Init
<1>2. ASSUME IInv, [Next]_vars, NEW i \in Intents
      PROVE  [Life(i)!Next]_(Life(i)!vars)
  <2>1. CASE UNCHANGED vars
    BY <2>1, NotSeen DEF vars
  <2>2. ASSUME NEW j \in Intents,
               \/ Issue(j) \/ Attach(j) \/ Remove(j) \/ Expire(j)
               \/ Cleanup(j) \/ Revoke(j)
        PROVE  [Life(i)!Next]_(Life(i)!vars)
    <3>1. CASE i = j
      BY <1>2, <2>2, <3>1, OwnLife
    <3>2. CASE i # j
      BY <1>2, <2>2, <3>2, OthersLife
    <3> QED BY <3>1, <3>2
  <2> QED BY <1>2, <2>1, <2>2, CreateLife, VerificationLife, ReviewLife,
             ReorderLife DEF Next, OwnerStep, SystemStep, ReviewStep
<1>3. IInv /\ [Next]_vars =>
          [\A i \in Intents : [Life(i)!Next]_(Life(i)!vars)]_vars
  BY <1>2
<1> QED BY <1>1, <1>3, Inductive, PTL DEF Spec, UploadsLiveAlike
=============================================================================

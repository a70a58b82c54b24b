-------------------------- MODULE MigrationsProofs --------------------------
(***************************************************************************)
(* What Migrations promises, for any submissions and tags, and for any     *)
(* sequence of migrations applied and reversed.                            *)
(***************************************************************************)
EXTENDS Migrations, TLAPS

IInv == TypeOK /\ RowsFit /\ SealedOrAbsent

LEMMA KindsAre ==
    /\ Kinds = Operations \cup {"names", "audit", "comment"}
    /\ Operations = {"submission", "user_expiry", "media", "edit",
                     "system_expiry", "arrange", "revoke"}
BY DEF Operations, Kinds, Since

\* What the schema knows after one migration more: all it knew, but for the
\* names of the first release and the expiry that users did.
Oldest(k) == CASE k = 1  -> {"names"}
               [] k = 10 -> {"user_expiry"}
               [] OTHER  -> {}

LEMMA AdmittedUp ==
    ASSUME NEW k \in 1..16
    PROVE  Admitted(k) \subseteq Admitted(k + 1) \cup Oldest(k)
BY KindsAre DEF Admitted, Since, Oldest

\* The kinds that a schema knows and the one before it does not.
Newest(k) ==
    CASE k = 2  -> {"audit"}
      [] k = 6  -> {"submission", "user_expiry"}
      [] k = 7  -> {"media"}
      [] k = 10 -> {"edit"}
      [] k = 11 -> {"system_expiry"}
      [] k = 12 -> {"arrange"}
      [] k = 14 -> {"comment"}
      [] k = 17 -> {"revoke"}
      [] OTHER  -> {}

LEMMA AdmittedDown ==
    ASSUME NEW k \in 2..17
    PROVE  Admitted(k) \subseteq Admitted(k - 1) \cup Newest(k)
BY KindsAre DEF Admitted, Since, Newest

\* Where an audit can be dropped there are no records yet.
LEMMA NoRecordsBefore ==
    ASSUME NEW k \in 1..5
    PROVE  Admitted(k) \cap Operations = {}
BY KindsAre DEF Admitted, Since

-----------------------------------------------------------------------------
\* A migration changes the level and what its number says.

LEMMA ChangeKeepsTypes ==
    ASSUME TypeOK, NEW k \in 2..17, NEW dir \in {"up", "down"}, Change(k, dir)
    PROVE  /\ categories' \in {"initial", "other"}
           /\ owned' \subseteq Requests
           /\ state' \in [Requests -> States \cup Flags \cup {"absent"}]
           /\ tags' \in [Requests -> SUBSET Tags]
           /\ tag' \in [Tags -> {"none", "private", "public"}]
           /\ legible' \in BOOLEAN
           /\ narrow' \in BOOLEAN
           /\ evidence' \subseteq Kinds
           /\ intents' \subseteq Intents
           /\ published' \in BOOLEAN
<1> USE DEF rows, media, NoRowChanges
<1>1. CASE k = 2
  BY <1>1 DEF Change, Ownership, TypeOK
<1>2. CASE k = 5
  BY <1>2 DEF Change, TagsUp, TagsDown, TypeOK
<1>3. CASE k = 6
  BY <1>3 DEF Change, StatesUp, StatesDown, Lossless, TypeOK, States, Flags
<1>4. CASE k = 17
  <2>1. /\ published' = FALSE
        /\ UNCHANGED <<categories, rows, evidence, intents>>
    BY <1>4 DEF Change, Renditions
  <2> QED BY <2>1 DEF TypeOK
<1>5. CASE k \in {7, 14}
  BY <1>5 DEF Change, OwnedMedia, Comments, TypeOK
<1>6. CASE k \notin {2, 5, 6, 7, 14, 17}
  BY <1>6 DEF Change, Sessions, Slugs, AreaLimit, SealedMedia, DraftEdit,
              SystemExpiry, Arranging, Protection, Indexes, TypeOK
<1> QED BY <1>1, <1>2, <1>3, <1>4, <1>5, <1>6

\* Whatever a migration drops, it drops under 2 and 14 only: 6 and 7 refuse to.
LEMMA ChangeKeepsEvidence ==
    ASSUME NEW k \in 2..17, NEW dir \in {"up", "down"}, Change(k, dir)
    PROVE  evidence' = CASE k = 2 /\ dir = "up"    -> evidence \ {"names"}
                         [] k = 2 /\ dir = "down"  -> evidence \ {"audit"}
                         [] k = 14 /\ dir = "down" -> evidence \ {"comment"}
                         [] OTHER                   -> evidence
<1> USE DEF rows, media, NoRowChanges
<1>1. CASE k = 2
  BY <1>1 DEF Change, Ownership
<1>2. CASE k = 14
  BY <1>2 DEF Change, Comments
<1>3. CASE k = 6 /\ dir = "down"
  <2>1. StatesDown
    BY <1>3 DEF Change
  <2>2. Lossless /\ evidence' = evidence \ Operations
    BY <2>1, Zenon DEF StatesDown
  <2>3. evidence' = evidence
    BY <2>2 DEF Lossless
  <2> QED BY <1>3, <2>3
<1>4. CASE k \notin {2, 14} /\ ~(k = 6 /\ dir = "down")
  <2>1. evidence' = evidence
    BY <1>4 DEF Change, Sessions, Slugs, TagsUp, TagsDown, StatesUp, OwnedMedia,
                AreaLimit, SealedMedia, DraftEdit, SystemExpiry, Arranging,
                Protection, Indexes, Renditions
  <2> QED BY <1>4, <2>1
<1> QED BY <1>1, <1>2, <1>3, <1>4

\* No migration makes an intent, or takes one away.
LEMMA ChangeKeepsIntents ==
    ASSUME NEW k \in 2..17, NEW dir \in {"up", "down"}, Change(k, dir)
    PROVE  intents' = intents
BY DEF Change, Ownership, Sessions, Slugs, TagsUp, TagsDown, StatesUp, StatesDown,
       OwnedMedia, AreaLimit, SealedMedia, DraftEdit, SystemExpiry, Arranging,
       Comments, Protection, Indexes, Renditions, rows, media, NoRowChanges

\* A reversal is refused over evidence that the schema before does not know, or
\* it drops it.
LEMMA ReversalChecks ==
    ASSUME NEW k \in 2..17, Change(k, "down")
    PROVE  /\ evidence' \cap Newest(k) = {}
           /\ k \in {7, 9} => intents = {}
<1>1. evidence' \subseteq evidence
  BY ChangeKeepsEvidence
<1>2. CASE k = 6
  <2>1. StatesDown
    BY <1>2 DEF Change
  <2>2. evidence' = evidence \ Operations
    BY <2>1, Zenon DEF StatesDown
  <2> QED BY <1>2, <2>2, KindsAre DEF Newest
<1>3. CASE k # 6
  BY <1>1, <1>3 DEF Change, Ownership, OwnedMedia, SealedMedia, DraftEdit,
                    SystemExpiry, Arranging, Comments, Renditions, Newest
<1> QED BY <1>2, <1>3

\* The rows of submissions and labels change with the states only.
LEMMA ChangeKeepsRows ==
    ASSUME NEW k \in 2..17, NEW dir \in {"up", "down"}, Change(k, dir)
    PROVE  /\ narrow' = narrow
           /\ k # 2 => owned' = owned
           /\ k # 6 => state' = state
           /\ k # 5 => tag' = tag
BY DEF Change, Ownership, Sessions, Slugs, TagsUp, TagsDown, StatesUp, StatesDown,
       OwnedMedia, AreaLimit, SealedMedia, DraftEdit, SystemExpiry, Arranging,
       Comments, Protection, Indexes, Renditions, rows, media, NoRowChanges

-----------------------------------------------------------------------------
LEMMA UpInv == IInv /\ Up => IInv'
<1> SUFFICES ASSUME IInv, Up PROVE IInv'
  OBVIOUS
<1>1. level \in 1..16 /\ level' = level + 1 /\ Change(level + 1, "up")
  BY DEF IInv, TypeOK, Up
<1>2. TypeOK'
  BY <1>1, ChangeKeepsTypes DEF IInv, TypeOK
<1>3. narrow' = narrow /\ intents' = intents
  BY <1>1, ChangeKeepsRows, ChangeKeepsIntents
<1>4. evidence' = IF level = 1 THEN evidence \ {"names"} ELSE evidence
  BY <1>1, ChangeKeepsEvidence
<1>5. evidence' \subseteq Admitted(level')
  <2>1. level = 10 => "user_expiry" \notin evidence
    BY <1>1 DEF Change, SystemExpiry
  <2> QED BY <1>1, <1>4, <2>1, AdmittedUp DEF IInv, RowsFit, Oldest
<1>6. IF level' < 6
      THEN narrow' /\ \A r \in There' : state'[r] \in Flags
      ELSE There' \subseteq owned' /\ \A r \in There' : state'[r] \in States
  <2>1. CASE level = 5
    <3>1. /\ There \subseteq owned
          /\ owned' = owned
          /\ state' = [r \in Requests |-> CASE state[r] = "on"  -> "approved"
                                            [] state[r] = "off" -> "pending"
                                            [] OTHER            -> "absent"]
      BY <1>1, <2>1 DEF Change, StatesUp
    <3> QED BY <1>1, <2>1, <3>1 DEF There, States
  <2>2. CASE level # 5
    <3>1. state' = state /\ (level # 1 => owned' = owned)
      BY <1>1, <2>2, ChangeKeepsRows
    <3> QED BY <1>1, <1>3, <2>2, <3>1 DEF IInv, RowsFit, There
  <2> QED BY <2>1, <2>2
<1>7. (level' < 7 => intents' = {}) /\ (level' >= 8 => "large" \notin intents')
  <2>1. level + 1 = 8 => "large" \notin intents
    BY <1>1 DEF Change, AreaLimit
  <2> QED BY <1>1, <1>3, <2>1 DEF IInv, RowsFit
<1>8. SealedOrAbsent'
  <2>1. level + 1 = 9 => intents \subseteq {"open"}
    BY <1>1 DEF Change, SealedMedia
  <2> QED BY <1>1, <1>3, <2>1 DEF IInv, SealedOrAbsent
<1> QED BY <1>2, <1>5, <1>6, <1>7, <1>8 DEF IInv, RowsFit

LEMMA DownInv == IInv /\ Down => IInv'
<1> SUFFICES ASSUME IInv, Down PROVE IInv'
  OBVIOUS
<1>1. level \in 2..17 /\ level' = level - 1 /\ Change(level, "down")
  BY DEF IInv, TypeOK, Down
<1>2. TypeOK'
  BY <1>1, ChangeKeepsTypes DEF IInv, TypeOK
<1>3. narrow' = narrow /\ intents' = intents /\ evidence' \subseteq evidence
  BY <1>1, ChangeKeepsRows, ChangeKeepsIntents, ChangeKeepsEvidence
<1>4. evidence' \subseteq Admitted(level')
  BY <1>1, <1>3, ReversalChecks, AdmittedDown DEF IInv, RowsFit
<1>5. IF level' < 6
      THEN narrow' /\ \A r \in There' : state'[r] \in Flags
      ELSE There' \subseteq owned' /\ \A r \in There' : state'[r] \in States
  <2>1. CASE level = 6
    <3>1. /\ narrow
          /\ state' = [r \in Requests |-> CASE state[r] = "approved" -> "on"
                                            [] state[r] = "pending"  -> "off"
                                            [] OTHER                 -> "absent"]
      BY <1>1, <2>1 DEF Change, StatesDown, Lossless
    <3> QED BY <1>1, <1>3, <2>1, <3>1 DEF There, Flags
  <2>2. CASE level # 6
    <3>1. state' = state /\ (level # 2 => owned' = owned)
      BY <1>1, <2>2, ChangeKeepsRows
    <3> QED BY <1>1, <1>3, <2>2, <3>1 DEF IInv, RowsFit, There
  <2> QED BY <2>1, <2>2
<1>6. /\ level' < 7 => intents' = {}
      /\ level' >= 8 => "large" \notin intents'
      /\ SealedOrAbsent'
  BY <1>1, <1>3, ReversalChecks DEF IInv, RowsFit, SealedOrAbsent
<1> QED BY <1>2, <1>4, <1>5, <1>6 DEF IInv, RowsFit

\* What the application may do leaves rows that fit the schema it runs on.
LEMMA ApplicationInv ==
    ASSUME IInv, level' = level, Next, ~Up, ~Down
    PROVE  IInv'
<1> USE DEF rows, media
<1>1. CASE AddCategory
  BY <1>1 DEF AddCategory, IInv, TypeOK, RowsFit, There, SealedOrAbsent
<1>2. CASE Label
  BY <1>2 DEF Label, IInv, TypeOK, RowsFit, There, SealedOrAbsent
<1>3. CASE Reserve
  <2>1. "media" \in Admitted(level)
    BY <1>3, KindsAre DEF Reserve, IInv, TypeOK, Admitted, Since
  <2> QED
    BY <1>3, <2>1, KindsAre
    DEF Reserve, IInv, TypeOK, RowsFit, There, SealedOrAbsent, Intents
<1>4. CASE Verify
  <2>1. level >= 7
    BY <1>4 DEF Verify, IInv, TypeOK, RowsFit
  <2>2. PICK taken \in {"unsealed", "large", "sealed"} :
             /\ intents' = intents \cup {taken}
             /\ level >= 8 => taken # "large"
             /\ level >= 9 => taken = "sealed"
    BY <1>4 DEF Verify, IInv, TypeOK
  <2>3. TypeOK'
    BY <1>4, <2>2 DEF Verify, IInv, TypeOK, Intents
  <2>4. RowsFit'
    BY <1>4, <2>1, <2>2 DEF Verify, IInv, TypeOK, RowsFit, There
  <2> QED
    BY <1>4, <2>2, <2>3, <2>4 DEF Verify, IInv, TypeOK, SealedOrAbsent
<1>5. CASE Publish
  BY <1>5 DEF Publish, IInv, TypeOK, RowsFit, There, SealedOrAbsent
<1>6. ASSUME NEW r \in Requests, Submit(r) PROVE IInv'
  <2>1. /\ level >= 6 => "submission" \in Admitted(level)
        /\ level < 2 => "names" \in Admitted(level)
    BY KindsAre DEF IInv, TypeOK, Admitted, Since
  <2>2. TypeOK'
    BY <1>6, KindsAre DEF Submit, IInv, TypeOK, States, Flags
  <2>3. RowsFit'
    BY <1>6, <2>1 DEF Submit, IInv, TypeOK, RowsFit, There, States, Flags
  <2> QED BY <1>6, <2>2, <2>3 DEF Submit, IInv, SealedOrAbsent
<1>7. ASSUME NEW r \in Requests, Adopt(r) PROVE IInv'
  BY <1>7 DEF Adopt, IInv, TypeOK, RowsFit, There, SealedOrAbsent
<1>8. ASSUME NEW r \in Requests, Approve(r) PROVE IInv'
  <2>1. (IF level < 2 THEN "names" ELSE "audit") \in Admitted(level)
    BY KindsAre DEF IInv, TypeOK, Admitted, Since
  <2>2. TypeOK'
    BY <1>8, <2>1 DEF Approve, Promoted, IInv, TypeOK, Admitted, Flags
  <2>3. RowsFit'
    BY <1>8, <2>1 DEF Approve, IInv, TypeOK, RowsFit, There, States, Flags
  <2> QED BY <1>8, <2>2, <2>3 DEF Approve, IInv, SealedOrAbsent
<1>9. ASSUME NEW r \in Requests, NEW named \in SUBSET Tags, Retag(r, named)
      PROVE  IInv'
  BY <1>9 DEF Retag, IInv, TypeOK, RowsFit, There, SealedOrAbsent
<1>10. ASSUME NEW r \in Requests, NEW to \in States, Move(r, to) PROVE IInv'
  <2>1. state[r] \in {"draft", "pending"}
    BY <1>10 DEF Move, Transitions
  <2>2. level >= 6
    BY <2>1 DEF IInv, RowsFit, TypeOK, There, Flags
  <2>3. Kind(to) \in Admitted(level)
    BY <2>2, KindsAre DEF Kind, Admitted, Since, IInv, TypeOK
  <2>4. \A comment \in Given(to) : comment \subseteq Admitted(level)
    BY KindsAre DEF Given, Admitted, Since, IInv, TypeOK
  <2>5. evidence' \subseteq Admitted(level)
    BY <1>10, <2>3, <2>4 DEF Move, IInv, RowsFit
  <2>6. TypeOK'
    BY <1>10, <2>5 DEF Move, Promoted, IInv, TypeOK, Admitted
  <2>7. RowsFit' /\ SealedOrAbsent'
    BY <1>10, <2>1, <2>2, <2>5
    DEF Move, IInv, TypeOK, RowsFit, There, SealedOrAbsent, States
  <2> QED BY <2>6, <2>7 DEF IInv
<1>11. ASSUME NEW o \in Operations, Record(o) PROVE IInv'
  BY <1>11 DEF Record, IInv, TypeOK, RowsFit, There, SealedOrAbsent, Admitted
<1>12. CASE Revoke \/ Audit
  <2>1. "audit" \in Admitted(level) /\ (level = 17 => "revoke" \in Admitted(level))
    BY <1>12, KindsAre DEF Revoke, Audit, IInv, TypeOK, Admitted, Since
  <2> QED
    BY <1>12, <2>1
    DEF Revoke, Audit, IInv, TypeOK, RowsFit, There, SealedOrAbsent, Admitted
<1> QED
  BY <1>1, <1>2, <1>3, <1>4, <1>5, <1>6, <1>7, <1>8, <1>9, <1>10, <1>11, <1>12
  DEF Next

LEMMA ApplicationKeepsLevel == Next /\ ~Up /\ ~Down => level' = level
BY DEF Next, AddCategory, Audit, Label, Revoke, Reserve, Verify, Publish, Submit, Adopt, Approve,
       Retag, Move, Record

LEMMA Inductive == IInv /\ [Next]_vars => IInv'
<1>1. CASE UNCHANGED vars
  BY <1>1 DEF IInv, TypeOK, RowsFit, There, SealedOrAbsent, vars, rows, media
<1> QED
  BY <1>1, UpInv, DownInv, ApplicationInv, ApplicationKeepsLevel DEF Next

LEMMA Initial == Init => IInv
<1> SUFFICES ASSUME Init PROVE IInv
  OBVIOUS
<1>1. legible \in BOOLEAN /\ narrow \in BOOLEAN /\ published \in BOOLEAN
  BY Zenon DEF Init
<1>2. state \in [Requests -> States \cup Flags \cup {"absent"}]
  BY DEF Init
<1>3. tag \in [Tags -> {"none", "private", "public"}]
  BY DEF Init
<1>4. TypeOK
  BY <1>1, <1>2, <1>3, KindsAre DEF Init, TypeOK
<1>5. evidence \subseteq Admitted(level)
  BY KindsAre DEF Init, Admitted, Since
<1>6. RowsFit
  BY <1>5 DEF Init, RowsFit, There
<1> QED BY <1>4, <1>6 DEF Init, IInv, SealedOrAbsent

\* Every reachable database fits its schema, and since migration 9 every image
\* is sealed.
THEOREM Invariance == Spec => []IInv
BY Initial, Inductive, PTL DEF Spec

THEOREM TypeCorrect == Spec => []TypeOK
BY Invariance, PTL DEF IInv

THEOREM ReleasesCanRead == Spec => []RowsFit
BY Invariance, PTL DEF IInv

THEOREM AlwaysSealed == Spec => []SealedOrAbsent
BY Invariance, PTL DEF IInv

-----------------------------------------------------------------------------
\* A step that changes the level is a migration.
LEMMA MigrationSteps ==
    ASSUME IInv, Next, level' # level
    PROVE  \E k \in 2..17, dir \in {"up", "down"} :
              /\ Change(k, dir)
              /\ level = IF dir = "up" THEN k - 1 ELSE k
              /\ level' = IF dir = "up" THEN k ELSE k - 1
<1>1. CASE Up
  <2>1. level + 1 \in 2..17
    BY <1>1 DEF Up, IInv, TypeOK
  <2> QED BY <1>1, <2>1 DEF Up, IInv, TypeOK
<1>2. CASE Down
  BY <1>2 DEF Down, IInv, TypeOK
<1> QED BY <1>1, <1>2, ApplicationKeepsLevel

\* Records are known since migration 6 only, and 6 is not reversed over them.  So
\* the reversal of 2 meets none: no record and no audit that stands beside one is
\* ever discarded.
LEMMA RecordsProtect ==
    ASSUME IInv, Next, level' # level, evidence \cap Operations # {}
    PROVE  evidence \ {"comment"} \subseteq evidence'
<1>1. PICK k \in 2..17, dir \in {"up", "down"} :
           /\ Change(k, dir)
           /\ level = IF dir = "up" THEN k - 1 ELSE k
           /\ level' = IF dir = "up" THEN k ELSE k - 1
  BY MigrationSteps
<1>2. level \notin 1..5
  BY NoRecordsBefore DEF IInv, RowsFit
<1>3. k # 2
  BY <1>1, <1>2
<1> QED BY <1>1, <1>3, ChangeKeepsEvidence

THEOREM RecordedIsKept == Spec => EvidenceKept
<1>1. IInv /\ [Next]_vars =>
         [level' # level /\ evidence \cap Operations # {}
             => evidence \ {"comment"} \subseteq evidence']_vars
  BY RecordsProtect
<1> QED BY <1>1, Invariance, PTL DEF Spec, EvidenceKept

\* No migration changes what a submission means.
LEMMA MeaningKept ==
    ASSUME IInv, Next, level' # level, NEW r \in Requests
    PROVE  Meaning(r)' = Meaning(r)
<1>1. PICK k \in 2..17, dir \in {"up", "down"} :
           /\ Change(k, dir)
           /\ level = IF dir = "up" THEN k - 1 ELSE k
           /\ level' = IF dir = "up" THEN k ELSE k - 1
  BY MigrationSteps
<1>2. CASE k = 6 /\ dir = "up"
  BY <1>1, <1>2 DEF Change, StatesUp, IInv, TypeOK, RowsFit, There, Flags, Meaning
<1>3. CASE k = 6 /\ dir = "down"
  BY <1>1, <1>3 DEF Change, StatesDown, Lossless, IInv, TypeOK, There, Meaning
<1>4. CASE k # 6
  <2>1. state' = state
    BY <1>1, <1>4, ChangeKeepsRows
  <2> QED BY <2>1 DEF Meaning
<1> QED BY <1>2, <1>3, <1>4

THEOREM MeaningsKept == Spec => SubmissionsKept
<1>1. IInv /\ [Next]_vars =>
         [level' # level => \A r \in Requests : Meaning(r)' = Meaning(r)]_vars
  BY MeaningKept
<1> QED BY <1>1, Invariance, PTL DEF Spec, SubmissionsKept

\* No forward migration publishes what only submissions named.
LEMMA UpPublishesNothing ==
    ASSUME IInv, Next, level' > level, NEW t \in Tags, tag'[t] = "public"
    PROVE  tag[t] = "public"
<1>1. level' # level
  BY DEF IInv, TypeOK
<1>2. PICK k \in 2..17, dir \in {"up", "down"} :
           /\ Change(k, dir)
           /\ level = IF dir = "up" THEN k - 1 ELSE k
           /\ level' = IF dir = "up" THEN k ELSE k - 1
  BY <1>1, MigrationSteps
<1>3. dir = "up"
  BY <1>2
<1>4. CASE k = 5
  BY <1>2, <1>3, <1>4 DEF Change, TagsUp, IInv, TypeOK
<1>5. CASE k # 5
  BY <1>2, <1>5, ChangeKeepsRows
<1> QED BY <1>4, <1>5

THEOREM TagsStayPrivate == Spec => TagsNotPublished
<1>1. IInv /\ [Next]_vars =>
         [level' > level => \A t \in Tags : tag'[t] = "public" => tag[t] = "public"]_vars
  BY UpPublishesNothing
<1> QED BY <1>1, Invariance, PTL DEF Spec, TagsNotPublished
=============================================================================

-------------------------- MODULE PublicCatalogue --------------------------
(***************************************************************************)
(* What the public sees and who may change it, with no locks and no second *)
(* looks: a submission is published whole, a rendition is served, revoked  *)
(* or a place deleted at one moment while the call is open, and what that  *)
(* needs holds at that moment.  A call that is refused changes nothing.    *)
(***************************************************************************)
CONSTANTS Calls, Staff, Requests, Legacy, Illustrated, Renditions, RequestOf,
          Keys, None

VARIABLES
    place,      \* of each submission, under its name or another
    located,    \* the places on the map
    kept,       \* the submissions whose publication is on record
    shown,      \* each rendition: "none" before it is published
    record,     \* the revocations
    deleted,    \* the audits of deletions
    admin,      \* the administrators
    asked       \* what is asked in each call

vars == <<place, located, kept, shown, record, deleted, admin, asked>>

-----------------------------------------------------------------------------
There(r) == place[r] \in {"public", "renamed"}

Query(op, a, k, target, served) ==
    [op |-> op, actor |-> a, key |-> k, target |-> target, served |-> served]

Nothing == Query(None, None, None, None, FALSE)

Open(c, q) ==
    /\ asked[c] = Nothing /\ asked' = [asked EXCEPT ![c] = q]
    /\ UNCHANGED <<place, located, kept, shown, record, deleted, admin>>

Ask(c) ==
    \/ \E m \in Renditions :
           /\ shown[m] # "none"
           /\ \/ Open(c, Query("retrieve", None, None, m, FALSE))
              \/ \E a \in admin, k \in Keys : Open(c, Query("revoke", a, k, m, FALSE))
    \/ \E r \in Requests :
           \/ \E a \in Staff : Open(c, Query("approve", a, None, r, FALSE))
           \/ \E a \in admin : Open(c, Query("delete", a, None, r, FALSE))
           \/ There(r) /\ Open(c, Query("edit", None, None, r, FALSE))

\* The call is over: its bytes are out, or it is refused.
Leave(c) ==
    /\ asked' = [asked EXCEPT ![c] = Nothing]
    /\ UNCHANGED <<place, located, kept, shown, record, deleted, admin>>

Done(c, op) == /\ asked[c].op = op
               /\ asked' = [asked EXCEPT ![c] = Nothing]

-----------------------------------------------------------------------------
\* The bytes of m go out.
Serve(c) ==
    LET m == asked[c].target
    IN /\ asked[c].op = "retrieve"
       /\ shown[m] = "published" /\ There(RequestOf[m])
       /\ asked' = [asked EXCEPT ![c].served = TRUE]
       /\ UNCHANGED <<place, located, kept, shown, record, deleted, admin>>

\* The place and all renditions of r, once.
Publish(c) ==
    LET r == asked[c].target
    IN /\ Done(c, "approve")
       /\ place[r] = "none"
       /\ place' = [place EXCEPT ![r] = "public"]
       /\ located' = located \cup {r}
       /\ kept' = kept \cup {r}
       /\ shown' = [m \in Renditions |-> IF RequestOf[m] = r THEN "published"
                                                             ELSE shown[m]]
       /\ UNCHANGED <<record, deleted, admin>>

\* Under a key the administrator has not used.
Revoke(c) ==
    LET q == asked[c]
    IN /\ Done(c, "revoke")
       /\ q.actor \in admin
       /\ shown[q.target] = "published" /\ There(RequestOf[q.target])
       /\ \A s \in record : ~(s.actor = q.actor /\ s.key = q.key)
       /\ shown' = [shown EXCEPT ![q.target] = "revoked"]
       /\ record' = record \cup {[actor |-> q.actor, key |-> q.key,
                                  media |-> q.target]}
       /\ UNCHANGED <<place, located, kept, deleted, admin>>

\* What was published on record, under the name of an approved submission or
\* with images stays.
Delete(c) ==
    LET r == asked[c].target
    IN /\ Done(c, "delete")
       /\ asked[c].actor \in admin
       /\ place[r] = "renamed" /\ r \notin kept \cup Illustrated
       /\ place' = [place EXCEPT ![r] = "deleted"]
       /\ located' = located \ {r}
       /\ deleted' = deleted \cup {r}
       /\ UNCHANGED <<kept, shown, record, admin>>

\* A deleted place may come back, but not on the map.
Save(c) ==
    LET r == asked[c].target
    IN /\ Done(c, "edit")
       /\ place[r] # "none"
       /\ \E name \in {"public", "renamed"} : place' = [place EXCEPT ![r] = name]
       /\ UNCHANGED <<located, kept, shown, record, deleted, admin>>

Erase(m) ==
    /\ shown[m] = "revoked"
    /\ shown' = [shown EXCEPT ![m] = "erased"]
    /\ UNCHANGED <<place, located, kept, record, deleted, admin, asked>>

Demote(a) ==
    /\ a \in admin
    /\ admin' = admin \ {a}
    /\ UNCHANGED <<place, located, kept, shown, record, deleted, asked>>

-----------------------------------------------------------------------------
Init ==
    /\ place = [r \in Requests |-> IF r \in Legacy THEN "public" ELSE "none"]
    /\ located = Legacy
    /\ kept = {} /\ record = {} /\ deleted = {}
    /\ shown = [m \in Renditions |-> "none"]
    /\ admin = Staff
    /\ asked = [c \in Calls |-> Nothing]

Next ==
    \/ \E c \in Calls : \/ Ask(c) \/ Serve(c) \/ Publish(c) \/ Revoke(c)
                        \/ Delete(c) \/ Save(c) \/ Leave(c)
    \/ \E m \in Renditions : Erase(m)
    \/ \E a \in Staff : Demote(a)

Spec == Init /\ [][Next]_vars
=============================================================================

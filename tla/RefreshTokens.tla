--------------------------- MODULE RefreshTokens ---------------------------
(***************************************************************************)
(* One family of refresh credentials and the requests that present them    *)
(* (tokens.py).  A request selects its credential together with the family *)
(* FOR UPDATE: the database locks the credential row first and the family  *)
(* row after it.  It then decides on what it read, and a request that      *)
(* revokes the family updates every credential that is not yet revoked,    *)
(* which needs their row locks too.                                        *)
(*                                                                         *)
(* Every lock is a step of its own.  Two requests that wait for each other *)
(* are resolved by PostgreSQL, which aborts one of them.                   *)
(***************************************************************************)
CONSTANTS
    Calls,          \* refreshToken and revokeToken requests
    Credentials,    \* the credentials that may ever be issued: a bound
    None            \* no successor, and nobody holds the lock

ASSUME NoneAssumption == None \notin Credentials /\ None \notin Calls

VARIABLES
    family,      \* the RefreshTokenFamily row
    cred,        \* the RefreshTokenCredential rows
    familyLock,  \* who holds the family row
    credLock,    \* who holds each credential row
    call         \* where each request is, what it read and what it answered

vars == <<family, cred, familyLock, credLock, call>>

-----------------------------------------------------------------------------
\* expired is the passing of expires_at.  A rotated credential has used_at,
\* revoked_at and a successor, a revoked one only revoked_at.
Family == [revoked: BOOLEAN, compromised: BOOLEAN, expired: BOOLEAN]
Status == {"unissued", "live", "rotated", "revoked"}
Credential == [status: Status, successor: Credentials \cup {None}]
Place == {"idle", "credential", "family", "decide", "revoking", "answered"}
Answer == {"none", "ok", "invalid", "expired", "reused", "error"}

\* targets: the rows its update of the credentials found unrevoked; a row that
\* is added while the update waits is not one of them.
Call == [pc: Place, op: {"rotate", "revoke"}, key: Credentials,
         status: Status, revoked: BOOLEAN, answer: Answer,
         targets: SUBSET Credentials]

TypeOK ==
    /\ family \in Family
    /\ cred \in [Credentials -> Credential]
    /\ familyLock \in Calls \cup {None}
    /\ credLock \in [Credentials -> Calls \cup {None}]
    /\ call \in [Calls -> Call]

Live == {k \in Credentials : cred[k].status = "live"}
Unissued == {k \in Credentials : cred[k].status = "unissued"}
At(c, where) == call[c].pc = where

\* issue_token_pair has just created the family and its first credential.
Init ==
    /\ family = [revoked |-> FALSE, compromised |-> FALSE, expired |-> FALSE]
    /\ \E first \in Credentials :
           /\ cred = [k \in Credentials |->
                         [status |-> IF k = first THEN "live" ELSE "unissued",
                          successor |-> None]]
           /\ call = [c \in Calls |->
                         [pc |-> "idle", op |-> "rotate", key |-> first,
                          status |-> "live", revoked |-> FALSE,
                          answer |-> "none",
                          targets |-> {}]]
    /\ familyLock = None
    /\ credLock = [k \in Credentials |-> None]

\* The bound: the working credential is presented only while it can still be
\* replaced.
Room(k) == cred[k].status = "live" => Unissued # {}

\* A client presents any credential it was ever given, a spent one included.
Present(c, op, k) ==
    /\ call[c].pc \in {"idle", "answered"}
    /\ cred[k].status # "unissued" /\ Room(k)
    /\ call' = [call EXCEPT ![c] =
                   [@ EXCEPT !.pc = "credential", !.op = op, !.key = k,
                             !.answer = "none"]]
    /\ UNCHANGED <<family, cred, familyLock, credLock>>

LockCredential(c) ==
    /\ At(c, "credential")
    /\ credLock[call[c].key] = None
    /\ credLock' = [credLock EXCEPT ![call[c].key] = c]
    /\ call' = [call EXCEPT ![c].pc = "family",
                            ![c].status = cred[call[c].key].status]
    /\ UNCHANGED <<family, cred, familyLock>>

\* Mutant: the select locks only the credential (of=("self",)).
LockFamily_SelfOnly(c) ==
    /\ At(c, "family")
    /\ call' = [call EXCEPT ![c].pc = "decide",
                            ![c].revoked = family.revoked]
    /\ UNCHANGED <<family, cred, familyLock, credLock>>

LockFamily(c) ==
    /\ At(c, "family")
    /\ familyLock = None
    /\ familyLock' = c
    /\ call' = [call EXCEPT ![c].pc = "decide",
                            ![c].revoked = family.revoked]
    /\ UNCHANGED <<family, cred, credLock>>

\* Mutant: the transaction stays open.
Release_Kept(c) == UNCHANGED <<familyLock, credLock>>

\* The transaction ends and gives up the rows it holds.
Release(c) ==
    /\ familyLock' = IF familyLock = c THEN None ELSE familyLock
    /\ credLock' = [k \in Credentials |->
                       IF credLock[k] = c THEN None ELSE credLock[k]]

\* What the request read is forgotten.
Finish(c, answer) ==
    /\ call' = [call EXCEPT ![c].pc = "answered", ![c].answer = answer,
           ![c].status = "live", ![c].revoked = FALSE, ![c].targets = {}]
    /\ Release(c)

\* The family is revoked already: a refresh is refused, a revocation is done.
AlreadyRevoked(c) ==
    /\ At(c, "decide") /\ call[c].revoked
    /\ Finish(c, IF call[c].op = "rotate" THEN "invalid" ELSE "ok")
    /\ UNCHANGED <<family, cred>>

\* The presented credential is replaced by its successor.
Rotate(c) ==
    /\ At(c, "decide") /\ ~call[c].revoked /\ call[c].op = "rotate"
    /\ ~family.expired /\ call[c].status = "live"
    /\ \E new \in Unissued :
           cred' = [cred EXCEPT
                       ![new].status = "live",
                       ![call[c].key] = [status |-> "rotated",
                                         successor |-> new]]
    /\ Finish(c, "ok")
    /\ UNCHANGED family

\* An expired family, a spent credential or a revocation: the family row is
\* written and the update of its credentials starts.
StartRevoking(c) ==
    /\ At(c, "decide") /\ ~call[c].revoked
    /\ call[c].op = "revoke" \/ family.expired \/ call[c].status # "live"
    /\ call' = [call EXCEPT ![c].pc = "revoking", ![c].targets = Live,
           ![c].answer = IF call[c].op = "revoke" THEN "ok"
                         ELSE IF family.expired THEN "expired" ELSE "reused"]
    /\ UNCHANGED <<family, cred, familyLock, credLock>>

\* The update gets the rows it waited for, looks again whether they are
\* unrevoked, and the transaction commits.
RevokeAll(c) ==
    /\ At(c, "revoking")
    /\ \A k \in call[c].targets : credLock[k] \in {c, None}
    /\ family' = [family EXCEPT !.revoked = TRUE,
                     !.compromised = @ \/ call[c].answer = "reused"]
    /\ cred' = [k \in Credentials |->
                   IF k \in call[c].targets \cap Live
                   THEN [cred[k] EXCEPT !.status = "revoked"] ELSE cred[k]]
    /\ Finish(c, call[c].answer)

\* Who waits for whom; the database aborts one of two that wait in a circle.
WaitsFor(c, d) ==
    \/ At(c, "credential") /\ credLock[call[c].key] = d
    \/ At(c, "family") /\ familyLock = d
    \/ At(c, "revoking") /\ c # d
          /\ \E k \in call[c].targets : credLock[k] = d

Abort(c) ==
    /\ \E d \in Calls : WaitsFor(c, d) /\ WaitsFor(d, c)
    /\ Finish(c, "error")
    /\ UNCHANGED <<family, cred>>

FamilyExpires ==
    /\ ~family.expired
    /\ family' = [family EXCEPT !.expired = TRUE]
    /\ UNCHANGED <<cred, familyLock, credLock, call>>

Proceed(c) == \/ LockCredential(c) \/ LockFamily(c) \/ AlreadyRevoked(c)
              \/ Rotate(c) \/ StartRevoking(c) \/ RevokeAll(c) \/ Abort(c)

Next ==
    \/ FamilyExpires
    \/ \E c \in Calls : Proceed(c)
    \/ \E c \in Calls, op \in {"rotate", "revoke"}, k \in Credentials :
           Present(c, op, k)

Spec == Init /\ [][Next]_vars

\* A request runs on; whoever waits for a row gets it once it is free often
\* enough (the lock queue is fair).
FairSpec == Spec /\ \A c \in Calls : SF_vars(Proceed(c))

-----------------------------------------------------------------------------
\* A family has at most one credential that still works, however many
\* requests present the same or different credentials at once.
OneLive == \A k, l \in Live : k = l

\* Nothing that works survives the revocation of its family, not even the
\* successor a concurrent refresh was creating (tokens.py 144-163).
RevokedFamilyIsDead == family.revoked => Live = {}

\* The successors form one line: a credential that was rotated has exactly one
\* successor and no two share it.
OneLine ==
    /\ \A k \in Credentials :
           cred[k].status = "rotated" <=> cred[k].successor # None
    /\ \A k, l \in Credentials :
           cred[k].successor = cred[l].successor /\ cred[k].successor # None
               => k = l

\* A request that found its credential spent leaves the family revoked.
ReuseIsAnswered ==
    \A c \in Calls : call[c].answer = "reused" /\ At(c, "answered") =>
        family.revoked /\ family.compromised

\* The locks and the reads under them do not show: every request takes effect,
\* as if at one moment, on a family of which at most one credential works, none
\* once it is revoked, as it is by the time that a reuse is answered.
\* What was answered is seen; what a request is about to answer is not.
Spent == {k \in Credentials : cred[k].status \in {"rotated", "revoked"}}
asked == [c \in Calls |->
             [op |-> call[c].op, key |-> call[c].key,
              answer |-> IF call[c].pc \in {"idle", "answered"}
                         THEN call[c].answer ELSE "awaited"]]
Promise == INSTANCE TokenFamily WITH
    works <- Live, spent <- Spent, revoked <- family.revoked,
    compromised <- family.compromised, expired <- family.expired
AnsweredAtOnce == Promise!Spec

\* Every request is answered, through waits and deadlocks.
EveryCallAnswered ==
    \A c \in Calls : At(c, "credential") ~> At(c, "answered")
=============================================================================

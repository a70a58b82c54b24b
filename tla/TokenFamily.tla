---------------------------- MODULE TokenFamily ----------------------------
(***************************************************************************)
(* What the refresh tokens promise of one family, with no rows and locks:  *)
(* at most one credential works.  A request takes effect at one moment     *)
(* between being asked and answered: it has the working credential         *)
(* replaced, or the family is revoked for good and nothing works any more. *)
(***************************************************************************)
CONSTANTS Calls, Credentials

VARIABLES
    works,          \* the credential that works, if any
    spent,          \* those that worked
    revoked,        \* the family is
    compromised,    \* a spent credential was presented
    expired,
    asked           \* each request, and its answer

vars == <<works, spent, revoked, compromised, expired, asked>>

-----------------------------------------------------------------------------
Init ==
    /\ \E first \in Credentials : works = {first}
    /\ spent = {}
    /\ revoked = FALSE /\ compromised = FALSE /\ expired = FALSE
    /\ \A c \in Calls : asked[c].answer = "none"

\* Only what was given to a client is presented.
Ask(c) ==
    /\ asked[c].answer # "awaited"
    /\ \E op \in {"rotate", "revoke"}, k \in works \cup spent :
           asked' = [asked EXCEPT ![c] = [op |-> op, key |-> k,
                                          answer |-> "awaited"]]
    /\ UNCHANGED <<works, spent, revoked, compromised, expired>>

Answer(c, answer) ==
    /\ asked[c].answer = "awaited"
    /\ asked' = [asked EXCEPT ![c].answer = answer]

Rotate(c) ==
    /\ asked[c].op = "rotate" /\ asked[c].key \in works
    /\ ~revoked /\ ~expired
    /\ \E new \in Credentials \ (works \cup spent) : works' = {new}
    /\ spent' = spent \cup works
    /\ Answer(c, "ok")
    /\ UNCHANGED <<revoked, compromised, expired>>

\* Nothing works from here on.
Revoke(c) ==
    /\ ~revoked /\ revoked' = TRUE
    /\ works' = {} /\ spent' = spent \cup works
    /\ \/ asked[c].op = "revoke" /\ Answer(c, "ok") /\ UNCHANGED compromised
       \/ /\ asked[c].op = "rotate" /\ expired /\ Answer(c, "expired")
          /\ UNCHANGED compromised
       \/ /\ asked[c].op = "rotate" /\ asked[c].key \in spent
          /\ Answer(c, "reused") /\ compromised' = TRUE
    /\ UNCHANGED expired

\* The family was revoked before.
Refuse(c) ==
    /\ revoked
    /\ Answer(c, IF asked[c].op = "rotate" THEN "invalid" ELSE "ok")
    /\ UNCHANGED <<works, spent, revoked, compromised, expired>>

\* The database gives up the transaction.
Fail(c) ==
    /\ Answer(c, "error")
    /\ UNCHANGED <<works, spent, revoked, compromised, expired>>

Expire ==
    /\ expired' = TRUE
    /\ UNCHANGED <<works, spent, revoked, compromised, asked>>

Next ==
    \/ \E c \in Calls : Ask(c) \/ Rotate(c) \/ Revoke(c) \/ Refuse(c) \/ Fail(c)
    \/ Expire

Spec == Init /\ [][Next]_vars
=============================================================================

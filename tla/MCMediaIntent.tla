-------------------------- MODULE MCMediaIntent ---------------------------
\* MediaIntent on small sets of calls.
EXTENDS MediaIntent, TLC

\* Every call of the same kind retries under one idempotency key, so that a
\* replay can meet a call that is still under way.
MCSharedKey == [c \in Verifiers |-> "verify"] @@ [c \in Owners |-> "cleanup"]

\* Every call has a key of its own, so that only the row keeps them apart.
MCOwnKey == [c \in Verifiers \cup Owners |-> c]

\* Calls of one kind are interchangeable under either choice of keys.
MCSymmetry == Permutations(Verifiers) \cup Permutations(Approvers)
=============================================================================

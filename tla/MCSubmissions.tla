--------------------------- MODULE MCSubmissions ---------------------------
\* Submissions on small instances.
EXTENDS Submissions, TLC

\* Proposals of two names, and those of one name at spots near each other.
MCNames == {[name |-> "n", spot |-> "x"], [name |-> "m", spot |-> "y"]}
MCSpots == {[name |-> "n", spot |-> "x"], [name |-> "n", spot |-> "y"]}
MCNear == {"x", "y"} \X {"x", "y"}

MCSymmetry == Permutations(Calls) \cup Permutations(Accounts) \cup
              Permutations(Subs) \cup Permutations(Keys)
=============================================================================

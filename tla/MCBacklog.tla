----------------------------- MODULE MCBacklog ------------------------------
EXTENDS Backlog

\* The second and the third share the date, the first is later than both.
MCCreated == <<2, 1, 1>>
MCRequestOf == [u \in Uploads |-> IF u \in Broken THEN 1 ELSE 2]
=============================================================================

--------------------------- MODULE MCPublicMedia ---------------------------
\* PublicMedia on small instances: every rendition is of one new submission.
EXTENDS PublicMedia, TLC

CONSTANT New
MCRequestOf == [m \in Renditions |-> New]
=============================================================================

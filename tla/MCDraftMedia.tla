--------------------------- MODULE MCDraftMedia ----------------------------
\* DraftMedia with a few uploads.
EXTENDS DraftMedia, TLC

\* Neither uploads nor contents are told apart by their names.
MCSymmetry == Permutations(Intents) \cup Permutations(Digests)
=============================================================================

-------------------------- MODULE MCTagVocabulary --------------------------
\* TagVocabulary with two new tags, one of them in two spellings, and a tag
\* from before.  The inputs name the new tags in both orders, repeat one, are
\* empty or too long.
EXTENDS TagVocabulary, TLC

CONSTANTS new, New, other, old
MCDisplays == {new, New, other, old}
MCTags == {"new", "other", "old"}
MCCanonical == (new :> "new") @@ (New :> "new") @@ (other :> "other") @@ (old :> "old")
MCInputs == {<<new, other>>, <<other, New>>, <<old>>, <<>>,
             <<new, New>>, <<new, other, old>>}
MCLegacy == <<old>>
MCSymmetry == Permutations(Calls) \cup Permutations(Requests)
=============================================================================

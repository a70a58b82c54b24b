-------------------------- MODULE MCRefreshTokens --------------------------
\* RefreshTokens with a few requests and credentials.
EXTENDS RefreshTokens, TLC

\* Neither requests nor credentials are told apart by their names.
MCSymmetry == Permutations(Calls) \cup Permutations(Credentials)
=============================================================================

----------------------------- MODULE MCHousehold -----------------------------
EXTENDS Household, TLC

\* Neither owners nor sharers tell two members apart.
MemberSymmetry == Permutations(Requests) \cup Permutations(Tokens)

=============================================================================

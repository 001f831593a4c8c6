------------------------- MODULE MCTranscodeSession -------------------------
EXTENDS TranscodeSession, TLC

ClientSymmetry == Permutations(Clients)

=============================================================================

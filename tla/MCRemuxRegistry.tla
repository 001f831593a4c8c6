--------------------------- MODULE MCRemuxRegistry ---------------------------
EXTENDS RemuxRegistry

CONSTANTS s1, s2, s3, f1, f2

\* Two sessions of one feed and one of another.
MCFeedOf == [s \in SessionIds |-> IF s = s3 THEN f2 ELSE f1]

=============================================================================

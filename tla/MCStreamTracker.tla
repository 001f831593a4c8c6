--------------------------- MODULE MCStreamTracker ---------------------------
(* Instances of StreamTracker for TLC. *)
EXTENDS StreamTracker, TLC

\* Grant ids and viewers are interchangeable: no action or property names one.
Symmetric == Permutations(SessionIds) \cup Permutations(Viewers)
             \cup Permutations(Recordings)

=============================================================================

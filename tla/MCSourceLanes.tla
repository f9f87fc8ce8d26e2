--------------------------- MODULE MCSourceLanes ---------------------------
(* TLC instances of SourceLanes.                                           *)
EXTENDS SourceLanes, TLC

\* Lanes get their protocol in Init, so lanes and requests are symmetric.
Symmetry == Permutations(Lanes) \cup Permutations(Requests)
=============================================================================

--------------------------- MODULE MCDoQUpstream ----------------------------
(* Symmetry for the safety runs of DoQUpstream.                            *)
EXTENDS DoQUpstream, TLC

Symmetry == Permutations(Calls) \cup Permutations(Conns)
=============================================================================

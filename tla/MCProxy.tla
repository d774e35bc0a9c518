------------------------------ MODULE MCProxy -------------------------------
(* The handlers of Proxy are interchangeable.                              *)
EXTENDS Proxy, TLC

Symmetry == Permutations(Handlers)
=============================================================================

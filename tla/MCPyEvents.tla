----------------------------- MODULE MCPyEvents -----------------------------
(* Two channels and two functions, which are interchangeable.              *)
EXTENDS PyEvents, TLC

CONSTANTS c1, c2, f1, f2

Symmetry == Permutations({c1, c2}) \cup Permutations({f1, f2})
=============================================================================

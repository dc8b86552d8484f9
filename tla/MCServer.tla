------------------------------ MODULE MCServer ------------------------------
(* Headers a proxy may send; connections are interchangeable.              *)
EXTENDS Server, TLC

CONSTANTS c1, c2

MCHeaders == {<<>>, <<c2, c1, Junk>>}
Symmetry == Permutations(Conns)
=============================================================================

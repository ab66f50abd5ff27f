---------------------------- MODULE MCPentLoader ----------------------------
(* Two coroutines, two objects.                                            *)
EXTENDS PentLoader, TLC

CONSTANTS t1, t2

MCIds == 0 .. 1
ThreeIds == 0 .. 2

\* Any of the objects may be there at first; all three of them are.
MCInitially == SUBSET MCIds
AllThree == {ThreeIds}

Symmetry == Permutations(Tasks)
=============================================================================

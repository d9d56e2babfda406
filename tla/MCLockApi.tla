----------------------------- MODULE MCLockApi -----------------------------
(* LockApi with three paths and IDs, pages of one or two, and two users,    *)
(* one of whom spells the name in two ways.                                 *)
EXTENDS LockApi, TLC

CONSTANTS ann, Ann, bob, pathA, pathB, pathC

MCLimits == {-1, 3}

MCFold == [n \in {ann, Ann, bob} |-> IF n = bob THEN bob ELSE ann]

MCSymmetry == Permutations({pathA, pathB, pathC}) \cup Permutations({ann, Ann})
=============================================================================

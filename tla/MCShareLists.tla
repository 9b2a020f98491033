----------------------------- MODULE MCShareLists -----------------------------
(* ShareLists on a small instance: enough nodes for a ring of three and a    *)
(* release, two levels of calls, and counts above one.                       *)
EXTENDS ShareLists, TLC

NodeSymmetry == Permutations(Node)
=============================================================================

-------------------------- MODULE MCObjectLifetime --------------------------
(* ObjectLifetime on small instances.                                        *)
EXTENDS ObjectLifetime, TLC

Symmetric == Permutations(Node) \cup Permutations(Object)
=============================================================================

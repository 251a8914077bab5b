---------------------------- MODULE MCBlockCache ----------------------------
(* A small block tree for BlockCache: a main chain of heights 1 to 4, and a  *)
(* fork of which the cache is never shown the block at height 1.            *)
EXTENDS BlockCache

CONSTANTS a1, a2, a3, a4, b2, b3

MCNumber ==
    [b \in Block |-> CASE b = a1 -> 1 [] b \in {a2, b2} -> 2
                       [] b \in {a3, b3} -> 3 [] b = a4 -> 4]

MCParent ==
    [b \in Block |-> CASE b \in {a1, b2} -> NoBlock [] b = a2 -> a1
                       [] b = a3 -> a2 [] b = b3 -> b2 [] b = a4 -> a3]
=============================================================================

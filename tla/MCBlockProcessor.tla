-------------------------- MODULE MCBlockProcessor --------------------------
(* Small chains for BlockProcessor: two branches, of heights 3 to 5 and 3   *)
(* to 6, on a trunk of heights 1 and 2; a run takes the blocks it names.    *)
EXTENDS BlockProcessor

CONSTANTS a1, a2, a3, a4, a5, b3, b4, b5, b6, h1, h2

MCNumber ==
    [b \in Block |-> CASE b = a1 -> 1 [] b = a2 -> 2 [] b \in {a3, b3} -> 3
                       [] b \in {a4, b4} -> 4 [] b \in {a5, b5} -> 5 [] b = b6 -> 6]

(* The parent of a block at the bottom of what the run takes is not shown. *)
MCParent ==
    [b \in Block |->
        LET p == CASE b = a1 -> NoBlock [] b = a2 -> a1 [] b \in {a3, b3} -> a2
                   [] b = a4 -> a3 [] b = a5 -> a4
                   [] b = b4 -> b3 [] b = b5 -> b4 [] b = b6 -> b5
        IN  IF p \in Block THEN p ELSE NoBlock]
=============================================================================

-------------------------- MODULE MCMultiResponder --------------------------
(* Two responses for MultiResponder; they are interchangeable. *)
EXTENDS MultiResponder, TLC

CONSTANTS r1, r2

Responses == Permutations(Response)
=============================================================================

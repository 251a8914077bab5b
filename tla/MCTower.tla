------------------------------ MODULE MCTower ------------------------------
(* A block with the event of one appointment and, on a fork, one with that  *)
(* of another, which shares its locator, and with a log that the filter of  *)
(* the first cannot be compared with; and a relay transaction.              *)
EXTENDS Tower, TLC

CONSTANTS g, b2, b3, c2, L1, L2, alice, bob, e, e2, f

MCBlock  == {g, b2, b3, c2}
MCParent == (g :> NoBlock) @@ (b2 :> g) @@ (b3 :> b2) @@ (c2 :> g)
MCNumber == (g :> 1) @@ (b2 :> 2) @@ (b3 :> 3) @@ (c2 :> 2)
MCLogs   == (g :> {}) @@ (b2 :> {e}) @@ (b3 :> {}) @@ (c2 :> {e2})
MCUnreadable == (g :> {}) @@ (b2 :> {}) @@ (b3 :> {}) @@ (c2 :> {e})
MCReadable   == [b \in MCBlock |-> {}]

Watched(n, start, end, filter) ==
    [locator |-> L1, customer |-> alice, nonce |-> n, start |-> start, end |-> end,
     period |-> 3, filter |-> filter, mode |-> "event"]

Relay == [locator |-> L2, customer |-> bob, nonce |-> 1, start |-> 0, end |-> 1,
          period |-> 2, filter |-> f, mode |-> "relay"]

MCAppointment == {Watched(1, 0, 0, e), Watched(2, 0, 0, e2), Relay}
MCNetworkPrice == {0}
=============================================================================

------------------------ MODULE AppointmentRegister ------------------------
(***************************************************************************)
(* What the appointment store promises, whatever its indexes, its lock and *)
(* its database do: at each locator at most one appointment is kept, it is *)
(* replaced only by one with a larger nonce, and it stays until a removal. *)
(* A crash changes nothing.                                                *)
(***************************************************************************)
EXTENDS Naturals

CONSTANTS Locators, Nonces

VARIABLE held  \* at each locator, the nonce of the appointment kept, if any

Init == held = [l \in Locators |-> {}]

Put(l, n) ==
    /\ \A m \in held[l] : m < n
    /\ held' = [held EXCEPT ![l] = {n}]

Drop(l) == held' = [held EXCEPT ![l] = {}]

Next == \E l \in Locators : Drop(l) \/ \E n \in Nonces : Put(l, n)

Spec == Init /\ [][Next]_held
=============================================================================

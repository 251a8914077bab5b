----------------------------- MODULE MCPISAHash -----------------------------
(* The appointments of two customers, one of them updated, in a mode        *)
(* without and one with a decoder of challenge times, on a chain that is    *)
(* three intervals long.  Two promise a refund of 0, the only one the       *)
(* service signs; the contract takes any.                                   *)
EXTENDS PISAHash

CONSTANTS w1, admin, alice, bob, j1, j2, plain, timed

Plain == [name |-> plain, decoder |-> FALSE]
Timed == [name |-> timed, decoder |-> TRUE]

Signed(id, who, nonce, start, finish, mode, refund) ==
    [id |-> id, cus |-> who, nonce |-> nonce, start |-> start, finish |-> finish,
     challenge |-> 1, mode |-> mode, refund |-> refund]

MCAppointment == {Signed(j1, alice, 1, 3, 3, Plain, 0),
                  Signed(j1, alice, 2, 5, 6, Plain, 1),
                  Signed(j2, bob, 1, 3, 4, Timed, 0)}
MCMode == {Plain, Timed}
=============================================================================

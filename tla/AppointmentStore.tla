-------------------------- MODULE AppointmentStore --------------------------
(***************************************************************************)
(* The appointment store of the watcher (src/src/watcher/store.ts): a      *)
(* database and three indexes in memory.  addOrUpdateByLocator holds the   *)
(* lock of its locator while it writes the database and then the indexes;  *)
(* removeById deletes from the database and from the index by id first and *)
(* takes the lock only afterwards.  Each call is cut at its awaits, so     *)
(* calls interleave there, and a crash loses all but the database.         *)
(***************************************************************************)
EXTENDS Naturals, Sequences

CONSTANTS
    Appointment,    \* [locator, customer, nonce, ...]: one for each id
    NoAppointment

ASSUME AppointmentAssumption ==
    /\ NoAppointment \notin Appointment
    /\ \A a \in Appointment : a.nonce \in Nat
    /\ \A a, b \in Appointment :
          a.locator = b.locator =>
              /\ a.customer = b.customer
              /\ a.nonce = b.nonce => a = b

VARIABLES
    disk,        \* the records of the database
    byId,        \* appointmentsById
    byLocator,   \* appointmentsByLocator
    byCustomer,  \* appointmentsByCustomerAddress, {} for an address without entry
    locks,       \* stateLocatorLockManager: for each locator, the owner, then the waiters
    calls,       \* the calls in progress, each at the await it waits for
    loaded,      \* startInternal has read the database
    taken        \* history: the appointments ever written to the database

memory == <<byId, byLocator, byCustomer>>
storeVars == <<disk, memory, locks, calls, loaded, taken>>

Locators  == {a.locator : a \in Appointment}
Customers == {a.customer : a \in Appointment}
Nonces    == {a.nonce : a \in Appointment}
AtLocator(S, l) == {a \in S : a.locator = l}

Call(op, by, app, pc) ==
    [op |-> op, by |-> by, app |-> app, current |-> NoAppointment, pc |-> pc]

Move(c, pc) == calls' = (calls \ {c}) \cup {[c EXCEPT !.pc = pc]}
Return(c)   == calls' = calls \ {c}

-----------------------------------------------------------------------------
(* The lock of a locator *)

Acquire(c) == locks' = [locks EXCEPT ![c.app.locator] = Append(@, c.by)]
Release(c) == locks' = [locks EXCEPT ![c.app.locator] = Tail(@)]
Owns(c)    == /\ locks[c.app.locator] # <<>>
              /\ Head(locks[c.app.locator]) = c.by

-----------------------------------------------------------------------------
(* addOrUpdateByLocator; an appointment that was taken is not sent again:   *)
(* while it is held its nonce is too low, and when it is removed its start  *)
(* block is older than validate allows (20 + 3 blocks, while a removal      *)
(* waits for 100 confirmations).                                            *)

BeginAdd(a) ==
    /\ loaded /\ a \notin taken
    /\ \A c \in calls : c.by # a
    /\ LET c == Call("add", a, a, "lock")
       IN  calls' = calls \cup {c} /\ Acquire(c)
    /\ UNCHANGED <<disk, memory, loaded, taken>>

(* The nonce is checked again under the lock; if it is too low withLock     *)
(* releases the lock and rethrows.                                          *)
NonceTooLow(a) ==
    /\ byLocator[a.locator] # NoAppointment
    /\ a.nonce <= byLocator[a.locator].nonce

(* Mutation: the locks outlive an error. *)
EnterAddKeepsLock(c) ==
    /\ c.op = "add" /\ c.pc = "lock" /\ Owns(c)
    /\ IF NonceTooLow(c.app)
       THEN Return(c) /\ UNCHANGED locks
       ELSE /\ calls' = (calls \ {c}) \cup
                  {[c EXCEPT !.pc = "writing", !.current = byLocator[c.app.locator]]}
            /\ UNCHANGED locks
    /\ UNCHANGED <<disk, memory, loaded, taken>>

EnterAdd(c) ==
    /\ c.op = "add" /\ c.pc = "lock" /\ Owns(c)
    /\ IF NonceTooLow(c.app)
       THEN Return(c) /\ Release(c)
       ELSE /\ calls' = (calls \ {c}) \cup
                  {[c EXCEPT !.pc = "writing", !.current = byLocator[c.app.locator]]}
            /\ UNCHANGED locks
    /\ UNCHANGED <<disk, memory, loaded, taken>>

(* Mutation: the old record is forgotten in the batch. *)
WriteAddKeepsOld(c) ==
    /\ c.op = "add" /\ c.pc = "writing"
    /\ disk' = disk \cup {c.app}
    /\ taken' = taken \cup {c.app}
    /\ Move(c, "written")
    /\ UNCHANGED <<memory, locks, loaded>>

(* The batch: the old record goes and the new one comes, or neither. *)
WriteAdd(c) ==
    /\ c.op = "add" /\ c.pc = "writing"
    /\ disk' = (disk \ {c.current}) \cup {c.app}
    /\ taken' = taken \cup {c.app}
    /\ Move(c, "written")
    /\ UNCHANGED <<memory, locks, loaded>>

(* The indexes follow; deleteFromSet throws for an address without entry,   *)
(* and the rest of the update is then skipped.                              *)
DeleteThrows(app) == byCustomer[app.customer] = {}

FinishAdd(c) ==
    /\ c.op = "add" /\ c.pc = "written"
    /\ IF c.current # NoAppointment /\ DeleteThrows(c.app)
       THEN /\ byId' = byId \ {c.current}
            /\ UNCHANGED <<byLocator, byCustomer>>
       ELSE /\ byId' = (byId \ {c.current}) \cup {c.app}
            /\ byLocator' = [byLocator EXCEPT ![c.app.locator] = c.app]
            /\ byCustomer' = [byCustomer EXCEPT ![c.app.customer] =
                                  (@ \ {c.current}) \cup {c.app}]
    /\ Return(c) /\ Release(c)
    /\ UNCHANGED <<disk, loaded, taken>>

-----------------------------------------------------------------------------
(* removeById; for an id that is not in the index it returns at once *)

BeginRemove(by, a) ==
    /\ a \in byId
    /\ \A c \in calls : c.by # by
    /\ calls' = calls \cup {Call("remove", by, a, "deleting")}
    /\ UNCHANGED <<disk, memory, locks, loaded, taken>>

(* Mutation: the record stays in the database. *)
DeleteRecordInMemory(c) ==
    /\ c.op = "remove" /\ c.pc = "deleting"
    /\ Move(c, "deleted")
    /\ UNCHANGED <<disk, memory, locks, loaded, taken>>

DeleteRecord(c) ==
    /\ c.op = "remove" /\ c.pc = "deleting"
    /\ disk' = disk \ {c.app}
    /\ Move(c, "deleted")
    /\ UNCHANGED <<memory, locks, loaded, taken>>

DeleteById(c) ==
    /\ c.op = "remove" /\ c.pc = "deleted"
    /\ byId' = byId \ {c.app}
    /\ Move(c, "lock") /\ Acquire(c)
    /\ UNCHANGED <<disk, byLocator, byCustomer, loaded, taken>>

(* Under the lock: it throws if the locator has no appointment, and keeps   *)
(* the one of another id.                                                   *)
RemoveThrows(c) ==
    \/ byLocator[c.app.locator] = NoAppointment
    \/ DeleteThrows(c.app)

(* Mutation: the locator is freed whichever appointment it has. *)
SameLocator(c) == byLocator[c.app.locator] # NoAppointment

SameId(c) == byLocator[c.app.locator] = c.app

FinishRemove(c) ==
    /\ c.op = "remove" /\ c.pc = "lock" /\ Owns(c)
    /\ byLocator' = IF SameId(c)
                    THEN [byLocator EXCEPT ![c.app.locator] = NoAppointment]
                    ELSE byLocator
    /\ byCustomer' = IF RemoveThrows(c)
                     THEN byCustomer
                     ELSE [byCustomer EXCEPT ![c.app.customer] = @ \ {c.app}]
    /\ Return(c) /\ Release(c)
    /\ UNCHANGED <<disk, byId, loaded, taken>>

-----------------------------------------------------------------------------
(* The process stops, at any await; it starts again and reads the database. *)

Forgotten == [byId |-> {}, byLocator |-> [l \in Locators |-> NoAppointment],
              byCustomer |-> [p \in Customers |-> {}],
              locks |-> [l \in Locators |-> <<>>]]

Crash ==
    /\ byId' = Forgotten.byId
    /\ byLocator' = Forgotten.byLocator
    /\ byCustomer' = Forgotten.byCustomer
    /\ locks' = Forgotten.locks
    /\ calls' = {}
    /\ loaded' = FALSE
    /\ UNCHANGED <<disk, taken>>

(* For one locator the record read last wins. *)
LoadAppointments ==
    /\ ~loaded
    /\ loaded' = TRUE
    /\ byId' = disk
    /\ \E latest \in [Locators -> Appointment \cup {NoAppointment}] :
          /\ \A l \in Locators :
                IF AtLocator(disk, l) = {}
                THEN latest[l] = NoAppointment
                ELSE latest[l] \in AtLocator(disk, l)
          /\ byLocator' = latest
    /\ byCustomer' = [p \in Customers |-> {a \in disk : a.customer = p}]
    /\ UNCHANGED <<disk, locks, calls, taken>>

-----------------------------------------------------------------------------
EmptyStore ==
    /\ disk = {} /\ calls = {} /\ taken = {}
    /\ byId = Forgotten.byId
    /\ byLocator = Forgotten.byLocator
    /\ byCustomer = Forgotten.byCustomer
    /\ locks = Forgotten.locks

StoreInit == EmptyStore /\ loaded = FALSE

CallStep(c) ==
    EnterAdd(c) \/ WriteAdd(c) \/ FinishAdd(c)
    \/ DeleteRecord(c) \/ DeleteById(c) \/ FinishRemove(c)

StoreNext ==
    \/ \E a \in Appointment : BeginAdd(a)
    \/ \E a \in Appointment : \E by : BeginRemove(by, a)
    \/ \E c \in calls : CallStep(c)
    \/ Crash
    \/ LoadAppointments

StoreSpec == StoreInit /\ [][StoreNext]_storeVars

-----------------------------------------------------------------------------
(* What the store keeps for its customers is what its database holds. *)
Register == INSTANCE AppointmentRegister
                WITH Locators <- Locators,
                     Nonces   <- Nonces,
                     held     <- [l \in Locators |-> {a.nonce : a \in AtLocator(disk, l)}]
=============================================================================

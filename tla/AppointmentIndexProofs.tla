---------------------- MODULE AppointmentIndexProofs ----------------------
(***************************************************************************)
(* The three indexes of the appointment store and its database part while  *)
(* calls are in progress, each in its own way; every difference between    *)
(* them belongs to a call that will end it.  So with no call in progress   *)
(* they agree.                                                             *)
(***************************************************************************)
EXTENDS AppointmentStoreProofs

-----------------------------------------------------------------------------
(* What a writer has put in the database is in no index, so no removal of   *)
(* it has begun.                                                            *)
WrittenIsNew ==
    \A c \in calls : Writing(c) =>
        /\ c.app \in disk /\ c.app \notin byId
        /\ \A d \in calls : d.op = "remove" => d.app # c.app

(* The index by customer changes together with the one by locator. *)
CustomersFollow ==
    \A p \in Customers :
        byCustomer[p] = {a \in Appointment : a.customer = p /\ byLocator[a.locator] = a}

DiskInIds ==
    loaded => \A a \in disk : a \in byId \/ \E c \in calls : Writing(c) /\ c.app = a

(* A writer replaces a, or a removal of a is between its two halves. *)
Replacing(c, a) == Writing(c) /\ c.current = a
Halfway(c, a)   == c.op = "remove" /\ c.pc = "deleted" /\ c.app = a
Leaving(c, a)   == Deleted(c) /\ c.app = a

IdsOnDisk ==
    \A a \in byId : a \in disk \/ \E c \in calls : Replacing(c, a) \/ Halfway(c, a)

LocatorsOnDisk ==
    \A l \in Locators : byLocator[l] # NoAppointment =>
        \/ byLocator[l] \in disk
        \/ \E c \in calls : Replacing(c, byLocator[l]) \/ Leaving(c, byLocator[l])

MInv == WrittenIsNew /\ CustomersFollow /\ DiskInIds /\ IdsOnDisk /\ LocatorsOnDisk

USE AppointmentAssumption

-----------------------------------------------------------------------------
LEMMA InitMemory == EmptyStore => MInv
<1> SUFFICES ASSUME EmptyStore PROVE MInv  OBVIOUS
<1> USE DEF EmptyStore, Forgotten
<1>1. WrittenIsNew /\ DiskInIds /\ IdsOnDisk
  BY DEF WrittenIsNew, DiskInIds, IdsOnDisk
<1>2. CustomersFollow
  <2>1. \A a \in Appointment : byLocator[a.locator] # a  BY DEF Locators
  <2> QED  BY <2>1 DEF CustomersFollow
<1>3. LocatorsOnDisk  BY DEF LocatorsOnDisk
<1> QED  BY <1>1, <1>2, <1>3 DEF MInv

LEMMA BeginAddMemory ==
    ASSUME IInv, MInv, NEW a \in Appointment, BeginAdd(a)
    PROVE  MInv'
<1> DEFINE c == Call("add", a, a, "lock")
<1>1. c.op = "add" /\ c.app = a /\ c.pc = "lock"  BY DEF Call
<1>2. /\ calls' = calls \cup {c}
      /\ UNCHANGED <<disk, byId, byLocator, byCustomer, loaded, taken>>
  BY DEF BeginAdd, memory
<1>3. ~Writing(c)  BY <1>1 DEF Writing
<1> HIDE DEF c
<1>4. WrittenIsNew'  BY <1>1, <1>2, <1>3 DEF MInv, WrittenIsNew, Writing
<1>5. CustomersFollow'  BY <1>2 DEF MInv, CustomersFollow
<1>6. DiskInIds'  BY <1>2 DEF MInv, DiskInIds, Writing
<1>7. IdsOnDisk'  BY <1>2 DEF MInv, IdsOnDisk, Replacing, Halfway, Writing
<1>8. LocatorsOnDisk'
  BY <1>2 DEF MInv, LocatorsOnDisk, Replacing, Leaving, Writing, Deleted
<1> QED  BY <1>4, <1>5, <1>6, <1>7, <1>8 DEF MInv

LEMMA BeginRemoveMemory ==
    ASSUME IInv, MInv, NEW by, NEW a \in Appointment, BeginRemove(by, a)
    PROVE  MInv'
<1> DEFINE c == Call("remove", by, a, "deleting")
<1>1. c.op = "remove" /\ c.app = a /\ c.pc = "deleting"  BY DEF Call
<1>2. /\ calls' = calls \cup {c} /\ a \in byId
      /\ UNCHANGED <<disk, byId, byLocator, byCustomer, loaded, taken>>
  BY DEF BeginRemove, memory
<1>3. ~Writing(c)  BY <1>1 DEF Writing
<1> HIDE DEF c
<1>4. WrittenIsNew'  BY <1>1, <1>2, <1>3 DEF MInv, WrittenIsNew, Writing
<1>5. CustomersFollow'  BY <1>2 DEF MInv, CustomersFollow
<1>6. DiskInIds'  BY <1>2 DEF MInv, DiskInIds, Writing
<1>7. IdsOnDisk'  BY <1>2 DEF MInv, IdsOnDisk, Replacing, Halfway, Writing
<1>8. LocatorsOnDisk'
  BY <1>2 DEF MInv, LocatorsOnDisk, Replacing, Leaving, Writing, Deleted
<1> QED  BY <1>4, <1>5, <1>6, <1>7, <1>8 DEF MInv

LEMMA EnterAddMemory ==
    ASSUME IInv, MInv, NEW c \in calls, EnterAdd(c)
    PROVE  MInv'
<1>1. /\ c.op = "add" /\ c.pc = "lock"
      /\ UNCHANGED <<disk, byId, byLocator, byCustomer, loaded, taken>>
      /\ \E e : /\ calls' \subseteq (calls \ {c}) \cup {e} /\ calls \ {c} \subseteq calls'
                /\ e.op = "add" /\ e.pc = "writing"
  <2>1. c = [op |-> c.op, by |-> c.by, app |-> c.app, current |-> c.current, pc |-> c.pc]
    BY DEF IInv, CallShape
  <2> DEFINE d == [c EXCEPT !.pc = "writing"]
             e == [c EXCEPT !.pc = "writing", !.current = byLocator[c.app.locator]]
  <2>2. e = [d EXCEPT !.current = byLocator[c.app.locator]]  BY <2>1
  <2>3. d = [op |-> d.op, by |-> d.by, app |-> d.app, current |-> d.current, pc |-> d.pc]
        /\ d.op = c.op /\ d.pc = "writing"
    BY <2>1
  <2> HIDE DEF d
  <2>4. [d EXCEPT !.current = byLocator[c.app.locator]].op = d.op
        /\ [d EXCEPT !.current = byLocator[c.app.locator]].pc = d.pc
    BY <2>3
  <2>5. c.op = "add" => e.op = "add" /\ e.pc = "writing"  BY <2>2, <2>3, <2>4
  <2>6. calls' = calls \ {c} \/ calls' = (calls \ {c}) \cup {e}
    BY DEF EnterAdd, Return
  <2> QED  BY <2>5, <2>6 DEF EnterAdd, memory
<1>2. PICK e : /\ calls' \subseteq (calls \ {c}) \cup {e} /\ calls \ {c} \subseteq calls'
               /\ e.op = "add" /\ e.pc = "writing"
  BY <1>1
<1>3. ~Writing(e) /\ ~Writing(c) /\ ~Deleted(c)
  BY <1>1, <1>2 DEF Writing, Deleted
<1>4. WrittenIsNew'  BY <1>1, <1>2, <1>3 DEF MInv, WrittenIsNew, Writing
<1>5. CustomersFollow'  BY <1>1 DEF MInv, CustomersFollow
<1>6. DiskInIds'  BY <1>1, <1>2, <1>3 DEF MInv, DiskInIds, Writing
<1>7. IdsOnDisk'  BY <1>1, <1>2, <1>3 DEF MInv, IdsOnDisk, Replacing, Halfway, Writing
<1>8. LocatorsOnDisk'
  BY <1>1, <1>2, <1>3 DEF MInv, LocatorsOnDisk, Replacing, Leaving, Writing, Deleted
<1> QED  BY <1>4, <1>5, <1>6, <1>7, <1>8 DEF MInv

(* What the batch deletes is still in the indexes, and the writer will      *)
(* replace it there.                                                        *)
LEMMA WriteAddMemory ==
    ASSUME IInv, MInv, NEW c \in calls, WriteAdd(c)
    PROVE  MInv'
<1> DEFINE e == [c EXCEPT !.pc = "written"]
<1>1. e.op = c.op /\ e.app = c.app /\ e.pc = "written" /\ e.current = c.current
  BY MovedFields DEF IInv
<1>2. /\ c.op = "add" /\ c.pc = "writing"
      /\ calls' = (calls \ {c}) \cup {e}
      /\ disk' = (disk \ {c.current}) \cup {c.app}
      /\ UNCHANGED <<byId, byLocator, byCustomer, loaded>>
  BY DEF WriteAdd, memory, Move
<1> HIDE DEF e
<1>3. /\ c.app \notin taken /\ c.app \in Appointment /\ Owns(c)
      /\ c.current # NoAppointment => c.current.locator = c.app.locator
  BY <1>2, WriterSeesDisk
<1>4. Writing(e) /\ ~Writing(c) /\ ~Deleted(c)  BY <1>1, <1>2 DEF Writing, Deleted
<1>5. byId \subseteq taken /\ NoAppointment \notin disk  BY DEF IInv, Typed
<1>6. \A x \in calls : Writing(x) => x \in calls' /\ x.app # c.current
  <2> SUFFICES ASSUME NEW x \in calls, Writing(x)  PROVE x \in calls' /\ x.app # c.current
    OBVIOUS
  <2>1. x # c /\ x \in calls'  BY <1>2, <1>4
  <2>2. Owns(x) /\ x.app \in Appointment
    BY DEF Writing, Critical, IInv, LockHeld, CallShape
  <2>3. x.app.locator # c.app.locator  BY <2>1, <2>2, <1>3, OneOwner DEF IInv
  <2> QED  BY <2>1, <2>2, <2>3, <1>3
<1>7. WrittenIsNew'
  <2> SUFFICES ASSUME NEW x \in calls', Writing(x)
               PROVE  /\ x.app \in disk' /\ x.app \notin byId
                      /\ \A d \in calls' : d.op = "remove" => d.app # x.app
    BY <1>2 DEF WrittenIsNew, Writing
  <2>1. CASE x = e
    <3>1. \A d \in calls' : d.op = "remove" => d \in calls /\ d.app \in taken
      BY <1>1, <1>2 DEF IInv, CallShape
    <3> QED  BY <2>1, <3>1, <1>1, <1>2, <1>3, <1>5
  <2>2. CASE x # e
    <3>1. x \in calls  BY <2>2, <1>2
    <3> QED  BY <3>1, <1>1, <1>2, <1>6 DEF MInv, WrittenIsNew
  <2> QED  BY <2>1, <2>2
<1>8. CustomersFollow'  BY <1>2 DEF MInv, CustomersFollow
<1>9. DiskInIds'
  BY <1>1, <1>2, <1>4, <1>6 DEF MInv, DiskInIds, Writing
<1>10. IdsOnDisk'
  <2> SUFFICES ASSUME NEW a \in byId
               PROVE  a \in disk' \/ \E x \in calls' : Replacing(x, a) \/ Halfway(x, a)
    BY <1>2 DEF IdsOnDisk, Replacing, Halfway, Writing
  <2>1. CASE a = c.current  BY <2>1, <1>1, <1>2, <1>4 DEF Replacing
  <2>2. CASE a # c.current /\ a \in disk  BY <2>2, <1>2
  <2>3. CASE \E x \in calls : Replacing(x, a) \/ Halfway(x, a)
    BY <2>3, <1>2, <1>6 DEF Replacing, Halfway
  <2> QED  BY <2>1, <2>2, <2>3 DEF MInv, IdsOnDisk
<1>11. LocatorsOnDisk'
  <2> SUFFICES ASSUME NEW l \in Locators, byLocator[l] # NoAppointment
               PROVE  \/ byLocator[l] \in disk'
                      \/ \E x \in calls' : Replacing(x, byLocator[l]) \/ Leaving(x, byLocator[l])
    BY <1>2 DEF LocatorsOnDisk, Replacing, Leaving, Writing, Deleted
  <2>1. CASE byLocator[l] = c.current  BY <2>1, <1>1, <1>2, <1>4 DEF Replacing
  <2>2. CASE byLocator[l] # c.current /\ byLocator[l] \in disk  BY <2>2, <1>2
  <2>3. CASE \E x \in calls : Replacing(x, byLocator[l]) \/ Leaving(x, byLocator[l])
    BY <2>3, <1>2, <1>4, <1>6 DEF Replacing, Leaving
  <2> QED  BY <2>1, <2>2, <2>3 DEF MInv, LocatorsOnDisk
<1> QED  BY <1>7, <1>8, <1>9, <1>10, <1>11 DEF MInv

(* The writer ends the difference it made. *)
LEMMA FinishAddMemory ==
    ASSUME IInv, MInv, NEW c \in calls, FinishAdd(c)
    PROVE  MInv'
<1> DEFINE l == c.app.locator
           p == c.app.customer
<1>1. /\ Writing(c) /\ Owns(c) /\ c.op = "add"
      /\ c.current = byLocator[l] /\ c.app \in taken
      /\ c.app \in disk /\ c.current \notin disk
  BY DEF FinishAdd, Critical, Writing, IInv, LockHeld, SeesLocator, CallShape,
         MInv, WrittenIsNew
<1>2. /\ c.app \in Appointment /\ l \in Locators /\ p \in Customers
  BY LocatorsOfCalls DEF IInv
<1>3. c.current # NoAppointment =>
          /\ c.current \in Appointment /\ c.current.locator = l /\ c.current.customer = p
          /\ c.current \in byCustomer[p]
  BY <1>1, <1>2 DEF IInv, IndexShape, Typed
<1>4. ~(c.current # NoAppointment /\ DeleteThrows(c.app))
  BY <1>3 DEF DeleteThrows
<1>5. /\ byId' = (byId \ {c.current}) \cup {c.app}
      /\ byLocator' = [byLocator EXCEPT ![l] = c.app]
      /\ byCustomer' = [byCustomer EXCEPT ![p] = (@ \ {c.current}) \cup {c.app}]
      /\ calls' = calls \ {c}
      /\ UNCHANGED <<disk, loaded, taken>>
  BY <1>4 DEF FinishAdd, Return
<1>6. byLocator'[l] = c.app /\ \A k \in Locators : k # l => byLocator'[k] = byLocator[k]
  BY <1>2, <1>5 DEF IInv, Typed
<1>7. \A x \in calls' : Writing(x) => x \in calls /\ x.app # c.app /\ x.app.locator # l
  <2> SUFFICES ASSUME NEW x \in calls', Writing(x)
               PROVE  x \in calls /\ x.app # c.app /\ x.app.locator # l
    OBVIOUS
  <2>1. x \in calls /\ x # c  BY <1>5
  <2>2. Owns(x)  BY <2>1 DEF Writing, Critical, IInv, LockHeld
  <2> QED  BY <2>1, <2>2, <1>1, OneOwner DEF IInv
<1>8. WrittenIsNew'
  <2> SUFFICES ASSUME NEW x \in calls', Writing(x)
               PROVE  /\ x.app \in disk /\ x.app \notin byId'
                      /\ \A d \in calls' : d.op = "remove" => d.app # x.app
    BY <1>5 DEF WrittenIsNew, Writing
  <2> QED  BY <1>5, <1>7 DEF MInv, WrittenIsNew
<1>9. CustomersFollow'
  <2> SUFFICES ASSUME NEW q \in Customers
               PROVE  byCustomer'[q] = {a \in Appointment : a.customer = q
                                                            /\ byLocator'[a.locator] = a}
    BY DEF CustomersFollow
  <2>1. byCustomer[q] = {a \in Appointment : a.customer = q /\ byLocator[a.locator] = a}
    BY DEF MInv, CustomersFollow
  <2>2. \A a \in Appointment : a.locator # l => byLocator'[a.locator] = byLocator[a.locator]
    BY <1>6 DEF Locators
  <2>3. CASE q # p
    <3>1. byCustomer'[q] = byCustomer[q]  BY <2>3, <1>5 DEF IInv, Typed
    <3>2. \A a \in Appointment : a.customer = q => a.locator # l
      BY <2>3, <1>2
    <3> QED  BY <3>1, <3>2, <2>1, <2>2
  <2>4. CASE q = p
    <3>1. byCustomer'[q] = (byCustomer[q] \ {c.current}) \cup {c.app}
      BY <2>4, <1>2, <1>5 DEF IInv, Typed
    <3>2. ASSUME NEW a \in Appointment, a.customer = q, byLocator'[a.locator] = a
          PROVE  a \in byCustomer'[q]
      <4>1. CASE a.locator = l  BY <4>1, <3>1, <3>2, <1>6
      <4>2. CASE a.locator # l
        BY <4>2, <3>1, <3>2, <2>1, <2>2, <1>3
      <4> QED  BY <4>1, <4>2
    <3>3. ASSUME NEW a \in byCustomer'[q]
          PROVE  a \in Appointment /\ a.customer = q /\ byLocator'[a.locator] = a
      <4>1. CASE a = c.app  BY <4>1, <2>4, <1>2, <1>6
      <4>2. CASE a # c.app
        <5>1. a \in byCustomer[q] /\ a # c.current  BY <4>2, <3>1, <3>3
        <5>2. a.locator # l  BY <5>1, <2>1, <1>1
        <5> QED  BY <5>1, <5>2, <2>1, <2>2
      <4> QED  BY <4>1, <4>2
    <3> QED  BY <3>2, <3>3
  <2> QED  BY <2>3, <2>4
<1>10. DiskInIds'
  <2> SUFFICES ASSUME loaded, NEW a \in disk
               PROVE  a \in byId' \/ \E x \in calls' : Writing(x) /\ x.app = a
    BY <1>5 DEF DiskInIds, Writing
  <2> QED  BY <1>1, <1>5 DEF MInv, DiskInIds
<1>11. IdsOnDisk'
  <2> SUFFICES ASSUME NEW a \in byId'
               PROVE  a \in disk \/ \E x \in calls' : Replacing(x, a) \/ Halfway(x, a)
    BY <1>5 DEF IdsOnDisk, Replacing, Halfway, Writing
  <2>1. CASE a = c.app  BY <2>1, <1>1
  <2>2. CASE a # c.app
    <3>1. a \in byId /\ a # c.current  BY <2>2, <1>5
    <3>2. \A x \in calls : Replacing(x, a) \/ Halfway(x, a) => x \in calls'
      BY <3>1, <1>1, <1>5 DEF Replacing, Halfway
    <3> QED  BY <3>1, <3>2 DEF MInv, IdsOnDisk
  <2> QED  BY <2>1, <2>2
<1>12. LocatorsOnDisk'
  <2> SUFFICES ASSUME NEW k \in Locators, byLocator'[k] # NoAppointment
               PROVE  \/ byLocator'[k] \in disk
                      \/ \E x \in calls' : Replacing(x, byLocator'[k]) \/ Leaving(x, byLocator'[k])
    BY <1>5 DEF LocatorsOnDisk, Replacing, Leaving, Writing, Deleted
  <2>1. CASE k = l  BY <2>1, <1>1, <1>6
  <2>2. CASE k # l
    <3>1. byLocator'[k] = byLocator[k] /\ byLocator[k].locator = k
      BY <2>2, <1>6 DEF IInv, IndexShape
    <3>2. byLocator[k] # c.current  BY <3>1, <2>2, <1>3
    <3>3. \A x \in calls : Replacing(x, byLocator[k]) \/ Leaving(x, byLocator[k]) => x \in calls'
      BY <3>2, <1>1, <1>5 DEF Replacing, Leaving, Deleted
    <3> QED  BY <3>1, <3>3 DEF MInv, LocatorsOnDisk
  <2> QED  BY <2>1, <2>2
<1> QED  BY <1>8, <1>9, <1>10, <1>11, <1>12 DEF MInv

LEMMA DeleteRecordMemory ==
    ASSUME IInv, MInv, NEW c \in calls, DeleteRecord(c)
    PROVE  MInv'
<1> DEFINE e == [c EXCEPT !.pc = "deleted"]
<1>1. e.op = c.op /\ e.app = c.app /\ e.pc = "deleted"
  BY MovedFields DEF IInv
<1>2. /\ c.op = "remove" /\ c.pc = "deleting"
      /\ calls' = (calls \ {c}) \cup {e}
      /\ disk' = disk \ {c.app}
      /\ UNCHANGED <<byId, byLocator, byCustomer, loaded>>
  BY DEF DeleteRecord, memory, Move
<1> HIDE DEF e
<1>3. /\ ~Writing(e) /\ ~Writing(c) /\ ~Deleted(c) /\ Halfway(e, c.app) /\ Leaving(e, c.app)
  BY <1>1, <1>2 DEF Writing, Deleted, Halfway, Leaving
<1>4. WrittenIsNew'  BY <1>1, <1>2, <1>3 DEF MInv, WrittenIsNew, Writing
<1>5. CustomersFollow'  BY <1>2 DEF MInv, CustomersFollow
<1>6. DiskInIds'  BY <1>2, <1>3 DEF MInv, DiskInIds, Writing
<1>7. IdsOnDisk'
  <2> SUFFICES ASSUME NEW a \in byId
               PROVE  a \in disk' \/ \E x \in calls' : Replacing(x, a) \/ Halfway(x, a)
    BY <1>2 DEF IdsOnDisk, Replacing, Halfway, Writing
  <2>1. \A x \in calls : Replacing(x, a) \/ Halfway(x, a) => x \in calls'
    BY <1>2, <1>3 DEF Replacing, Halfway
  <2> QED  BY <2>1, <1>2, <1>3 DEF MInv, IdsOnDisk
<1>8. LocatorsOnDisk'
  <2> SUFFICES ASSUME NEW l \in Locators, byLocator[l] # NoAppointment
               PROVE  \/ byLocator[l] \in disk'
                      \/ \E x \in calls' : Replacing(x, byLocator[l]) \/ Leaving(x, byLocator[l])
    BY <1>2 DEF LocatorsOnDisk, Replacing, Leaving, Writing, Deleted
  <2>1. \A x \in calls : Replacing(x, byLocator[l]) \/ Leaving(x, byLocator[l]) => x \in calls'
    BY <1>2, <1>3 DEF Replacing, Leaving
  <2> QED  BY <2>1, <1>2, <1>3 DEF MInv, LocatorsOnDisk
<1> QED  BY <1>4, <1>5, <1>6, <1>7, <1>8 DEF MInv

LEMMA DeleteByIdMemory ==
    ASSUME IInv, MInv, NEW c \in calls, DeleteById(c)
    PROVE  MInv'
<1> DEFINE e == [c EXCEPT !.pc = "lock"]
<1>1. e.op = c.op /\ e.app = c.app /\ e.pc = "lock"
  BY MovedFields DEF IInv
<1>2. /\ c.op = "remove" /\ c.pc = "deleted"
      /\ calls' = (calls \ {c}) \cup {e}
      /\ byId' = byId \ {c.app}
      /\ UNCHANGED <<disk, byLocator, byCustomer, loaded>>
  BY DEF DeleteById, Move
<1> HIDE DEF e
<1>3. ~Writing(e) /\ ~Writing(c) /\ Deleted(c) /\ Leaving(e, c.app) /\ c.app \notin disk
  BY <1>1, <1>2 DEF Writing, Deleted, Leaving, IInv, CallShape
<1>4. WrittenIsNew'  BY <1>1, <1>2, <1>3 DEF MInv, WrittenIsNew, Writing
<1>5. CustomersFollow'  BY <1>2 DEF MInv, CustomersFollow
<1>6. DiskInIds'  BY <1>2, <1>3 DEF MInv, DiskInIds, Writing
<1>7. IdsOnDisk'
  <2> SUFFICES ASSUME NEW a \in byId, a # c.app
               PROVE  a \in disk \/ \E x \in calls' : Replacing(x, a) \/ Halfway(x, a)
    BY <1>2 DEF IdsOnDisk, Replacing, Halfway, Writing
  <2>1. \A x \in calls : Replacing(x, a) \/ Halfway(x, a) => x \in calls'
    BY <1>2, <1>3 DEF Replacing, Halfway
  <2> QED  BY <2>1 DEF MInv, IdsOnDisk
<1>8. LocatorsOnDisk'
  <2> SUFFICES ASSUME NEW l \in Locators, byLocator[l] # NoAppointment
               PROVE  \/ byLocator[l] \in disk
                      \/ \E x \in calls' : Replacing(x, byLocator[l]) \/ Leaving(x, byLocator[l])
    BY <1>2 DEF LocatorsOnDisk, Replacing, Leaving, Writing, Deleted
  <2>1. CASE byLocator[l] = c.app  BY <2>1, <1>2, <1>3
  <2>2. CASE byLocator[l] # c.app
    <3>1. \A x \in calls : Replacing(x, byLocator[l]) \/ Leaving(x, byLocator[l]) => x \in calls'
      BY <2>2, <1>2, <1>3 DEF Replacing, Leaving
    <3> QED  BY <3>1 DEF MInv, LocatorsOnDisk
  <2> QED  BY <2>1, <2>2
<1> QED  BY <1>4, <1>5, <1>6, <1>7, <1>8 DEF MInv

(* If the removal finds its appointment at the locator then it is in the    *)
(* customer's set, too; if not, it is in neither.                           *)
LEMMA FinishRemoveMemory ==
    ASSUME IInv, MInv, NEW c \in calls, FinishRemove(c)
    PROVE  MInv'
<1> DEFINE l == c.app.locator
           p == c.app.customer
<1>1. c.op = "remove" /\ c.pc = "lock" /\ ~Writing(c)
  BY DEF FinishRemove, Writing
<1>2. /\ c.app \in Appointment /\ l \in Locators /\ p \in Customers
  BY LocatorsOfCalls DEF IInv
<1>3. /\ calls' = calls \ {c}
      /\ UNCHANGED <<disk, byId, loaded, taken>>
      /\ byLocator' = IF SameId(c) THEN [byLocator EXCEPT ![l] = NoAppointment]
                                   ELSE byLocator
      /\ byCustomer' = IF RemoveThrows(c) THEN byCustomer
                       ELSE [byCustomer EXCEPT ![p] = @ \ {c.app}]
  BY DEF FinishRemove, Return
<1>4. /\ \A k \in Locators : k # l => byLocator'[k] = byLocator[k]
      /\ byLocator'[l] = byLocator[l] \/ (byLocator[l] = c.app /\ byLocator'[l] = NoAppointment)
      /\ byLocator'[l] # c.app
  BY <1>2, <1>3 DEF IInv, Typed, SameId
<1>5. WrittenIsNew'  BY <1>1, <1>3 DEF MInv, WrittenIsNew, Writing
<1>6. CustomersFollow'
  <2> SUFFICES ASSUME NEW q \in Customers
               PROVE  byCustomer'[q] = {a \in Appointment : a.customer = q
                                                            /\ byLocator'[a.locator] = a}
    BY DEF CustomersFollow
  <2>1. byCustomer[q] = {a \in Appointment : a.customer = q /\ byLocator[a.locator] = a}
    BY DEF MInv, CustomersFollow
  <2>2. byCustomer'[q] = byCustomer[q] \ {c.app}
    <3>1. CASE q = p /\ ~RemoveThrows(c)  BY <3>1, <1>2, <1>3 DEF IInv, Typed
    <3>2. CASE q # p
      <4>1. byCustomer'[q] = byCustomer[q]  BY <3>2, <1>3 DEF IInv, Typed
      <4> QED  BY <4>1, <3>2, <2>1
    <3>3. CASE q = p /\ RemoveThrows(c)
      <4>1. byCustomer'[q] = byCustomer[q]  BY <3>3, <1>3
      <4>2. c.app \notin byCustomer[q]
        BY <3>3, <2>1, <1>2 DEF RemoveThrows, DeleteThrows
      <4> QED  BY <4>1, <4>2
    <3> QED  BY <3>1, <3>2, <3>3
  <2>3. ASSUME NEW a \in Appointment
        PROVE  byLocator'[a.locator] = a <=> byLocator[a.locator] = a /\ a # c.app
    <3>1. a.locator \in Locators  BY DEF Locators
    <3>2. CASE a.locator # l  BY <3>1, <3>2, <1>4
    <3>3. CASE a.locator = l  BY <3>3, <1>4
    <3> QED  BY <3>2, <3>3
  <2> QED  BY <2>1, <2>2, <2>3
<1>7. DiskInIds'  BY <1>1, <1>3 DEF MInv, DiskInIds, Writing
<1>8. IdsOnDisk'
  <2> SUFFICES ASSUME NEW a \in byId
               PROVE  a \in disk \/ \E x \in calls' : Replacing(x, a) \/ Halfway(x, a)
    BY <1>3 DEF IdsOnDisk, Replacing, Halfway, Writing
  <2>1. \A x \in calls : Replacing(x, a) \/ Halfway(x, a) => x \in calls'
    BY <1>1, <1>3 DEF Replacing, Halfway
  <2> QED  BY <2>1 DEF MInv, IdsOnDisk
<1>9. LocatorsOnDisk'
  <2> SUFFICES ASSUME NEW k \in Locators, byLocator'[k] # NoAppointment
               PROVE  \/ byLocator'[k] \in disk
                      \/ \E x \in calls' : Replacing(x, byLocator'[k]) \/ Leaving(x, byLocator'[k])
    BY <1>3 DEF LocatorsOnDisk, Replacing, Leaving, Writing, Deleted
  <2>1. byLocator'[k] = byLocator[k]  BY <1>4
  <2>2. byLocator[k].locator = k  BY <2>1 DEF IInv, IndexShape
  <2>3. byLocator[k] # c.app  BY <2>1, <2>2, <1>4
  <2>4. \A x \in calls : Replacing(x, byLocator[k]) \/ Leaving(x, byLocator[k]) => x \in calls'
    BY <2>3, <1>1, <1>3 DEF Replacing, Leaving
  <2> QED  BY <2>1, <2>4 DEF MInv, LocatorsOnDisk
<1> QED  BY <1>5, <1>6, <1>7, <1>8, <1>9 DEF MInv

LEMMA CrashMemory == IInv /\ MInv /\ Crash => MInv'
<1> SUFFICES ASSUME IInv, MInv, Crash PROVE MInv'  OBVIOUS
<1>1. /\ byId' = {} /\ byLocator' = [l \in Locators |-> NoAppointment]
      /\ byCustomer' = [p \in Customers |-> {}]
      /\ calls' = {} /\ loaded' = FALSE
  BY DEF Crash, Forgotten
<1>2. WrittenIsNew' /\ DiskInIds' /\ IdsOnDisk' /\ LocatorsOnDisk'
  BY <1>1 DEF WrittenIsNew, DiskInIds, IdsOnDisk, LocatorsOnDisk
<1>3. CustomersFollow'
  <2>1. \A a \in Appointment : byLocator'[a.locator] # a  BY <1>1 DEF Locators
  <2> QED  BY <2>1, <1>1 DEF CustomersFollow
<1> QED  BY <1>2, <1>3 DEF MInv

LEMMA LoadMemory == IInv /\ MInv /\ LoadAppointments => MInv'
<1> SUFFICES ASSUME IInv, MInv, LoadAppointments PROVE MInv'  OBVIOUS
<1>1. /\ byId' = disk /\ calls' = {} /\ UNCHANGED disk
      /\ byCustomer' = [p \in Customers |-> {a \in disk : a.customer = p}]
  BY DEF LoadAppointments, IInv, NothingBeforeLoading
<1>2. PICK latest \in [Locators -> Appointment \cup {NoAppointment}] :
          /\ \A l \in Locators : IF AtLocator(disk, l) = {}
                                 THEN latest[l] = NoAppointment
                                 ELSE latest[l] \in AtLocator(disk, l)
          /\ byLocator' = latest
  BY DEF LoadAppointments
<1>3. disk \subseteq Appointment  BY DEF IInv, Typed
<1>4. WrittenIsNew' /\ DiskInIds' /\ IdsOnDisk'
  BY <1>1 DEF WrittenIsNew, DiskInIds, IdsOnDisk
<1>5. LocatorsOnDisk'  BY <1>1, <1>2 DEF LocatorsOnDisk, AtLocator
<1>6. ASSUME NEW a \in Appointment PROVE byLocator'[a.locator] = a <=> a \in disk
  <2>1. a.locator \in Locators  BY DEF Locators
  <2>2. CASE a \in disk
    <3>1. latest[a.locator] \in AtLocator(disk, a.locator)
      BY <2>1, <2>2, <1>2 DEF AtLocator
    <3> QED  BY <2>2, <3>1, <1>2 DEF AtLocator, IInv, OneAtLocator
  <2>3. CASE a \notin disk  BY <2>1, <2>3, <1>2 DEF AtLocator
  <2> QED  BY <2>2, <2>3
<1>7. CustomersFollow'  BY <1>1, <1>3, <1>6 DEF CustomersFollow
<1> QED  BY <1>4, <1>5, <1>7 DEF MInv

LEMMA NextMemory == IInv /\ MInv /\ [StoreNext]_storeVars => MInv'
<1> SUFFICES ASSUME IInv, MInv, [StoreNext]_storeVars PROVE MInv'  OBVIOUS
<1>1. ASSUME NEW a \in Appointment, BeginAdd(a) PROVE MInv'
  BY <1>1, BeginAddMemory
<1>2. ASSUME NEW a \in Appointment, NEW by, BeginRemove(by, a) PROVE MInv'
  BY <1>2, BeginRemoveMemory
<1>3. ASSUME NEW c \in calls, CallStep(c) PROVE MInv'
  BY <1>3, EnterAddMemory, WriteAddMemory, FinishAddMemory, DeleteRecordMemory,
     DeleteByIdMemory, FinishRemoveMemory DEF CallStep
<1>4. CASE UNCHANGED storeVars
  <2> USE <1>4 DEF storeVars, memory
  <2>1. WrittenIsNew' /\ CustomersFollow' /\ DiskInIds'
    BY DEF MInv, WrittenIsNew, CustomersFollow, DiskInIds, Writing
  <2>2. IdsOnDisk' /\ LocatorsOnDisk'
    BY DEF MInv, IdsOnDisk, LocatorsOnDisk, Replacing, Halfway, Leaving, Writing, Deleted
  <2> QED  BY <2>1, <2>2 DEF MInv
<1> QED  BY <1>1, <1>2, <1>3, <1>4, CrashMemory, LoadMemory DEF StoreNext

(* Without calls in progress there is nothing on its way. *)
LEMMA QuietStoreAgrees ==
    ASSUME IInv, MInv, loaded, calls = {}
    PROVE  /\ byId = disk
           /\ \A l \in Locators : AtLocator(disk, l) = {byLocator[l]} \ {NoAppointment}
           /\ \A p \in Customers : byCustomer[p] = {a \in disk : a.customer = p}
<1>1. byId = disk  BY DEF MInv, DiskInIds, IdsOnDisk
<1>2. disk \subseteq Appointment  BY DEF IInv, Typed
<1>3. \A a \in disk : byLocator[a.locator] = a  BY DEF IInv, DiskFollowed
<1>4. \A l \in Locators : byLocator[l] # NoAppointment =>
          byLocator[l] \in disk /\ byLocator[l].locator = l
  BY DEF MInv, LocatorsOnDisk, IInv, IndexShape
<1>5. \A l \in Locators : AtLocator(disk, l) = {byLocator[l]} \ {NoAppointment}
  BY <1>2, <1>3, <1>4 DEF AtLocator
<1>6. ASSUME NEW a \in Appointment PROVE byLocator[a.locator] = a <=> a \in disk
  <2>1. a.locator \in Locators  BY DEF Locators
  <2> QED  BY <2>1, <1>3, <1>4
<1>7. \A p \in Customers : byCustomer[p] = {a \in disk : a.customer = p}
  BY <1>2, <1>6 DEF MInv, CustomersFollow
<1> QED  BY <1>1, <1>5, <1>7
=============================================================================

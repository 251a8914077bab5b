----------------------- MODULE AppointmentStoreProofs -----------------------
(***************************************************************************)
(* The appointment store implements the register of appointments, for any  *)
(* set of appointments and any number of concurrent calls: the lock makes  *)
(* each writer's view of its locator the true one, even though removals    *)
(* write the database before they take the lock.                           *)
(***************************************************************************)
EXTENDS AppointmentStore, TLAPS

-----------------------------------------------------------------------------
(* The inductive invariant *)

IsSeq(s) == \E T : s \in Seq(T)

Typed ==
    /\ taken \subseteq Appointment /\ disk \subseteq taken /\ byId \subseteq taken
    /\ byLocator \in [Locators -> Appointment \cup {NoAppointment}]
    /\ byCustomer \in [Customers -> SUBSET Appointment]
    /\ locks = [l \in Locators |-> locks[l]]
    /\ \A l \in Locators : IsSeq(locks[l])

Adding(c)   == c.op = "add" /\ c.pc \in {"lock", "writing"}
Critical(c) == c.op = "add" /\ c.pc \in {"writing", "written"}
Deleted(c)  == c.op = "remove" /\ c.pc \in {"deleted", "lock"}
Writing(c)  == c.op = "add" /\ c.pc = "written"

(* A call is known by its caller; what it removes was written before, and   *)
(* what it adds was not.                                                    *)
CallShape ==
    /\ \A c, d \in calls : c.by = d.by => c = d
    /\ \A c \in calls :
          /\ c = [op |-> c.op, by |-> c.by, app |-> c.app, current |-> c.current, pc |-> c.pc]
          /\ c.app \in Appointment /\ c.op \in {"add", "remove"}
          /\ c.op = "add" => c.by = c.app
          /\ Adding(c) => c.app \notin taken
          /\ Writing(c) => c.app \in taken
          /\ c.op = "remove" => c.app \in taken
          /\ Deleted(c) => c.app \notin disk

(* Who is in the critical section owns the lock, and sees its locator.      *)
LockHeld == \A c \in calls : Critical(c) => Owns(c)

SeesLocator ==
    \A c \in calls : Critical(c) =>
        /\ c.current = byLocator[c.app.locator]
        /\ c.current # NoAppointment => c.current.nonce < c.app.nonce
        /\ Writing(c) => c.current \notin disk

(* The database has at most one record at a locator: the one the index has, *)
(* or the one a writer will put there.                                      *)
OneAtLocator == \A a, b \in disk : a.locator = b.locator => a = b

DiskFollowed ==
    loaded => \A a \in disk : \/ byLocator[a.locator] = a
                              \/ \E c \in calls : Writing(c) /\ c.app = a

(* The indexes agree so far that no deleteFromSet of a writer throws.       *)
IndexShape ==
    \A l \in Locators : byLocator[l] # NoAppointment =>
        /\ byLocator[l].locator = l
        /\ byLocator[l] \in byCustomer[byLocator[l].customer]
        /\ byLocator[l] \in taken

NothingBeforeLoading == ~loaded => calls = {} /\ byId = {}

IInv ==
    /\ Typed /\ CallShape /\ LockHeld /\ SeesLocator
    /\ OneAtLocator /\ DiskFollowed /\ IndexShape /\ NothingBeforeLoading

USE AppointmentAssumption

-----------------------------------------------------------------------------
(* Sequences *)

LEMMA AppendSeq ==
    ASSUME NEW s, IsSeq(s), NEW x
    PROVE  /\ IsSeq(Append(s, x)) /\ Append(s, x) # <<>>
           /\ s # <<>> => Head(Append(s, x)) = Head(s)
<1>1. PICK T : s \in Seq(T)  BY DEF IsSeq
<1>2. s \in Seq(T \cup {x})  BY <1>1
<1>3. Append(s, x) \in Seq(T \cup {x})  BY <1>2
<1>4. Len(s) \in Nat /\ Len(Append(s, x)) = Len(s) + 1  BY <1>1, <1>2
<1>5. Append(s, x) # <<>>  BY <1>4, <1>3
<1>6. ASSUME s # <<>> PROVE Head(Append(s, x)) = Head(s)
  <2>1. Len(s) > 0  BY <1>6, <1>2, <1>4
  <2>2. Append(s, x)[1] = s[1]  BY <1>2, <2>1
  <2>3. Head(s) = s[1]  BY <1>2, <2>1
  <2>4. Head(Append(s, x)) = Append(s, x)[1]  BY <1>3, <1>5
  <2> QED  BY <2>2, <2>3, <2>4
<1> QED  BY <1>3, <1>5, <1>6 DEF IsSeq

LEMMA TailSeq ==
    ASSUME NEW s, IsSeq(s), s # <<>>
    PROVE  IsSeq(Tail(s))
<1>1. PICK T : s \in Seq(T)  BY DEF IsSeq
<1>2. Tail(s) \in Seq(T)  BY <1>1
<1> QED  BY <1>2 DEF IsSeq

-----------------------------------------------------------------------------
(* Locks *)

(* A call that joins the queue of a lock disturbs no owner. *)
LEMMA AcquireKeepsOwners ==
    ASSUME Typed, NEW c, c.app \in Appointment, Acquire(c),
           NEW d, d.app \in Appointment, Owns(d)
    PROVE  Owns(d)'
<1>1. c.app.locator \in Locators /\ d.app.locator \in Locators
  BY DEF Locators
<1>2. locks' = [locks EXCEPT ![c.app.locator] = Append(@, c.by)]
  BY DEF Acquire
<1>3. CASE d.app.locator = c.app.locator
  <2> DEFINE l == c.app.locator
             s == locks[l]
  <2>1. IsSeq(s) /\ s # <<>> /\ Head(s) = d.by
    BY <1>1, <1>3 DEF Owns, Typed
  <2>2. locks'[l] = Append(s, c.by)
    BY <1>1, <1>2 DEF Typed
  <2> HIDE DEF s
  <2>3. locks'[l] # <<>> /\ Head(locks'[l]) = d.by
    BY <2>1, <2>2, AppendSeq
  <2> QED  BY <1>3, <2>3 DEF Owns
<1>4. CASE d.app.locator # c.app.locator
  BY <1>1, <1>2, <1>4 DEF Owns, Typed
<1> QED  BY <1>3, <1>4

(* The owner that leaves disturbs no other lock. *)
LEMMA ReleaseKeepsOthers ==
    ASSUME Typed, NEW c, c.app \in Appointment, Release(c), Owns(c),
           NEW d, d.app \in Appointment, Owns(d), d.by # c.by
    PROVE  Owns(d)'
<1>1. c.app.locator \in Locators /\ d.app.locator \in Locators
  BY DEF Locators
<1>2. locks' = [locks EXCEPT ![c.app.locator] = Tail(@)]
  BY DEF Release
<1>3. d.app.locator # c.app.locator
  BY DEF Owns
<1> QED  BY <1>1, <1>2, <1>3 DEF Owns, Typed

LEMMA LockTypes ==
    ASSUME Typed, NEW c, c.app \in Appointment,
           Acquire(c) \/ (Release(c) /\ Owns(c)) \/ UNCHANGED locks
    PROVE  locks' = [l \in Locators |-> locks'[l]] /\ \A l \in Locators : IsSeq(locks'[l])
<1>1. c.app.locator \in Locators
  BY DEF Locators
<1>2. CASE Acquire(c)
  BY <1>1, <1>2, AppendSeq DEF Acquire, Typed
<1>3. CASE Release(c) /\ Owns(c)
  BY <1>1, <1>3, TailSeq DEF Release, Owns, Typed
<1>4. CASE UNCHANGED locks
  BY <1>4 DEF Typed
<1> QED  BY <1>2, <1>3, <1>4

-----------------------------------------------------------------------------
(* Calls *)

LEMMA MovedFields ==
    ASSUME CallShape, NEW c \in calls, NEW p
    PROVE  LET d == [c EXCEPT !.pc = p]
           IN  /\ d.op = c.op /\ d.by = c.by /\ d.app = c.app /\ d.current = c.current
               /\ d.pc = p
               /\ d = [op |-> d.op, by |-> d.by, app |-> d.app,
                       current |-> d.current, pc |-> d.pc]
BY DEF CallShape

(* Two calls in the critical section, or one there and one that leaves its *)
(* own, are at different locators. *)
LEMMA OneOwner ==
    ASSUME CallShape, NEW c \in calls, NEW d \in calls, Owns(c), Owns(d),
           c.app.locator = d.app.locator
    PROVE  c = d
<1>1. c.by = d.by  BY DEF Owns
<1> QED  BY <1>1 DEF CallShape

LEMMA LocatorsOfCalls ==
    ASSUME CallShape, NEW c \in calls
    PROVE  /\ c.app \in Appointment /\ c.app.locator \in Locators
           /\ c.app.customer \in Customers /\ c.app.nonce \in Nat
BY DEF CallShape, Locators, Customers

-----------------------------------------------------------------------------
(* The steps *)

LEMMA InitStore == EmptyStore => IInv
<1> SUFFICES ASSUME EmptyStore PROVE IInv  OBVIOUS
<1> USE DEF EmptyStore, Forgotten
<1>1. Typed
  <2>1. IsSeq(<<>>)  
    <3>1. <<>> \in Seq({})  OBVIOUS
    <3> QED  BY <3>1 DEF IsSeq
  <2> QED  BY <2>1 DEF Typed
<1>2. CallShape  BY DEF CallShape
<1>3. LockHeld /\ SeesLocator  BY DEF LockHeld, SeesLocator
<1>4. OneAtLocator /\ DiskFollowed  BY DEF OneAtLocator, DiskFollowed
<1>5. IndexShape  BY DEF IndexShape
<1>6. NothingBeforeLoading  BY DEF NothingBeforeLoading
<1> QED  BY <1>1, <1>2, <1>3, <1>4, <1>5, <1>6 DEF IInv

(* A call begins: it holds nothing, sees nothing, and has written nothing. *)
LEMMA BeginAddKeeps ==
    ASSUME IInv, NEW a \in Appointment, BeginAdd(a)
    PROVE  IInv'
<1> DEFINE c == Call("add", a, a, "lock")
<1>a. /\ c = [op |-> "add", by |-> a, app |-> a, current |-> NoAppointment, pc |-> "lock"]
      /\ c.op = "add" /\ c.by = a /\ c.app = a /\ c.pc = "lock"
  BY DEF Call
<1>b. /\ calls' = calls \cup {c} /\ Acquire(c) /\ loaded /\ a \notin taken
      /\ \A d \in calls : d.by # a
      /\ UNCHANGED <<disk, byId, byLocator, byCustomer, loaded, taken>>
  BY DEF BeginAdd, memory
<1>c. ~Critical(c) /\ ~Deleted(c) /\ ~Writing(c)  BY <1>a DEF Critical, Deleted, Writing
<1>d. c.app \in Appointment  BY <1>a
<1> HIDE DEF c
<1>1. Typed'  BY <1>b, <1>d, LockTypes DEF Typed, IInv
<1>2. CallShape'
  <2>1. \A d, e \in calls' : d.by = e.by => d = e  BY <1>a, <1>b DEF CallShape, IInv
  <2> QED  BY <2>1, <1>a, <1>b, <1>c DEF CallShape, IInv, Adding, Deleted, Writing
<1>3. LockHeld'
  BY <1>b, <1>c, <1>d, AcquireKeepsOwners, LocatorsOfCalls DEF LockHeld, Critical, IInv
<1>4. SeesLocator'  BY <1>b, <1>c DEF SeesLocator, IInv, Critical, Writing
<1>5. OneAtLocator'  BY <1>b DEF OneAtLocator, IInv
<1>6. DiskFollowed'  BY <1>b DEF DiskFollowed, IInv, Writing
<1>7. IndexShape'  BY <1>b DEF IndexShape, IInv
<1>8. NothingBeforeLoading'  BY <1>b DEF NothingBeforeLoading, IInv
<1> QED  BY <1>1, <1>2, <1>3, <1>4, <1>5, <1>6, <1>7, <1>8 DEF IInv

LEMMA BeginRemoveKeeps ==
    ASSUME IInv, NEW by, NEW a \in Appointment, BeginRemove(by, a)
    PROVE  IInv'
<1> DEFINE c == Call("remove", by, a, "deleting")
<1>a. /\ c = [op |-> "remove", by |-> by, app |-> a, current |-> NoAppointment,
              pc |-> "deleting"]
      /\ c.op = "remove" /\ c.by = by /\ c.app = a /\ c.pc = "deleting"
  BY DEF Call
<1>b. /\ calls' = calls \cup {c} /\ a \in byId
      /\ \A d \in calls : d.by # by
      /\ UNCHANGED <<disk, byId, byLocator, byCustomer, locks, loaded, taken>>
  BY DEF BeginRemove, memory
<1>c. ~Critical(c) /\ ~Deleted(c) /\ ~Writing(c) /\ ~Adding(c)
  BY <1>a DEF Critical, Deleted, Writing, Adding
<1> HIDE DEF c
<1>1. Typed'  BY <1>b DEF Typed, IInv
<1>2. CallShape'
  <2>1. \A d, e \in calls' : d.by = e.by => d = e  BY <1>a, <1>b DEF CallShape, IInv
  <2>2. a \in taken  BY <1>b DEF Typed, IInv
  <2> QED  BY <2>1, <2>2, <1>a, <1>b, <1>c DEF CallShape, IInv, Adding, Deleted, Writing
<1>3. LockHeld'  BY <1>b, <1>c DEF LockHeld, Critical, Owns, IInv
<1>4. SeesLocator'  BY <1>b, <1>c DEF SeesLocator, IInv, Critical, Writing
<1>5. OneAtLocator'  BY <1>b DEF OneAtLocator, IInv
<1>6. DiskFollowed'  BY <1>b DEF DiskFollowed, IInv, Writing
<1>7. IndexShape'  BY <1>b DEF IndexShape, IInv
<1>8. NothingBeforeLoading'  BY <1>b DEF NothingBeforeLoading, IInv
<1> QED  BY <1>1, <1>2, <1>3, <1>4, <1>5, <1>6, <1>7, <1>8 DEF IInv

(* Under the lock the nonce is compared with that of the index. *)
LEMMA EnterAddKeeps ==
    ASSUME IInv, NEW c \in calls, EnterAdd(c)
    PROVE  IInv'
<1> DEFINE e == [c EXCEPT !.pc = "writing", !.current = byLocator[c.app.locator]]
<1>s. CallShape  BY DEF IInv
<1>a. /\ e.op = c.op /\ e.by = c.by /\ e.app = c.app /\ e.pc = "writing"
      /\ e.current = byLocator[c.app.locator]
      /\ e = [op |-> e.op, by |-> e.by, app |-> e.app, current |-> e.current, pc |-> e.pc]
  <2>1. c = [op |-> c.op, by |-> c.by, app |-> c.app, current |-> c.current, pc |-> c.pc]
    BY <1>s DEF CallShape
  <2> DEFINE d == [c EXCEPT !.pc = "writing"]
  <2>2. e = [d EXCEPT !.current = byLocator[c.app.locator]]
    BY <2>1
  <2>3. /\ d = [op |-> d.op, by |-> d.by, app |-> d.app, current |-> d.current, pc |-> d.pc]
        /\ d.op = c.op /\ d.by = c.by /\ d.app = c.app /\ d.pc = "writing"
    BY <2>1
  <2> HIDE DEF d
  <2>4. [d EXCEPT !.current = byLocator[c.app.locator]] =
            [op |-> d.op, by |-> d.by, app |-> d.app,
             current |-> byLocator[c.app.locator], pc |-> d.pc]
    BY <2>3
  <2> QED  BY <2>2, <2>3, <2>4
<1>b. /\ c.op = "add" /\ c.pc = "lock" /\ Owns(c)
      /\ UNCHANGED <<disk, byId, byLocator, byCustomer, loaded, taken>>
      /\ \/ calls' = calls \ {c} /\ Release(c)
         \/ ~NonceTooLow(c.app) /\ calls' = (calls \ {c}) \cup {e} /\ UNCHANGED locks
  BY DEF EnterAdd, memory, Return
<1>c. /\ c.app \in Appointment /\ c.app.locator \in Locators /\ c.by = c.app
      /\ c.app \notin taken
  BY <1>b, LocatorsOfCalls DEF IInv, CallShape, Adding
<1> HIDE DEF e
<1>d. ~Critical(c)  BY <1>b DEF Critical
<1>e. ~Writing(e) /\ ~Deleted(e)  BY <1>a, <1>b DEF Writing, Deleted
<1>f. ~NonceTooLow(c.app) =>
          e.current = NoAppointment \/ e.current.nonce < e.app.nonce
  <2>1. byLocator[c.app.locator] \in Appointment \cup {NoAppointment}
    BY <1>c DEF IInv, Typed
  <2> QED  BY <2>1, <1>a, <1>c DEF NonceTooLow
<1>1. Typed'  BY <1>b, <1>c, LockTypes DEF Typed, IInv
<1>2. CallShape'
  <2>1. \A x, y \in calls' : x.by = y.by => x = y  BY <1>a, <1>b DEF CallShape, IInv
  <2> QED  BY <2>1, <1>a, <1>b, <1>c, <1>e DEF CallShape, IInv, Adding, Deleted, Writing
<1>3. LockHeld'
  <2> SUFFICES ASSUME NEW x \in calls', Critical(x)  PROVE Owns(x)'
    BY DEF LockHeld, Critical
  <2>1. CASE x = e  
    <3>1. UNCHANGED locks \/ e \in calls  BY <1>b, <2>1
    <3>2. CASE UNCHANGED locks  BY <3>2, <2>1, <1>a, <1>b DEF Owns
    <3>3. CASE e \in calls
      BY <3>3, <1>a, <1>b DEF IInv, CallShape
    <3> QED  BY <3>1, <3>2, <3>3
  <2>2. CASE x # e
    <3>1. x \in calls /\ x # c  BY <2>2, <1>b
    <3>2. x.by # c.by /\ Owns(x) /\ x.app \in Appointment
      BY <3>1 DEF IInv, CallShape, LockHeld
    <3> QED  BY <3>2, <1>b, <1>c, ReleaseKeepsOthers DEF IInv, Owns
  <2> QED  BY <2>1, <2>2
<1>4. SeesLocator'
  BY <1>a, <1>b, <1>e, <1>f DEF SeesLocator, IInv, Critical, Writing, CallShape
<1>5. OneAtLocator'  BY <1>b DEF OneAtLocator, IInv
<1>6. DiskFollowed'
  <2>1. \A x \in calls : Writing(x) => x \in calls'  BY <1>b DEF Writing
  <2> QED  BY <2>1, <1>b DEF DiskFollowed, IInv, Writing
<1>7. IndexShape'  BY <1>b DEF IndexShape, IInv
<1>8. NothingBeforeLoading'  BY <1>b DEF NothingBeforeLoading, IInv
<1> QED  BY <1>1, <1>2, <1>3, <1>4, <1>5, <1>6, <1>7, <1>8 DEF IInv

(* What a writer finds in the database at its locator is at most what the   *)
(* index has there.                                                         *)
LEMMA WriterSeesDisk ==
    ASSUME IInv, NEW c \in calls, c.op = "add", c.pc = "writing"
    PROVE  /\ AtLocator(disk, c.app.locator) \subseteq {c.current}
           /\ c.app \notin taken /\ c.by = c.app /\ c.app \in Appointment
           /\ Owns(c) /\ loaded
           /\ c.current # NoAppointment =>
                 /\ c.current \in taken /\ c.current.locator = c.app.locator
                 /\ c.current \in Appointment /\ c.current.nonce < c.app.nonce
<1>1. Critical(c) /\ Adding(c) /\ Owns(c)
  BY DEF Critical, Adding, IInv, LockHeld
<1>2. c.current = byLocator[c.app.locator]
  BY <1>1 DEF IInv, SeesLocator
<1>3. c.app \in Appointment /\ c.app.locator \in Locators
  BY LocatorsOfCalls DEF IInv
<1>4. loaded  BY DEF IInv, NothingBeforeLoading
<1>5. ASSUME NEW a \in AtLocator(disk, c.app.locator) PROVE a = c.current
  <2>1. a \in disk /\ a.locator = c.app.locator  BY DEF AtLocator
  <2>2. ASSUME NEW d \in calls, Writing(d), d.app = a PROVE FALSE
    <3>1. Critical(d) /\ Owns(d)  BY <2>2 DEF Writing, Critical, IInv, LockHeld
    <3>2. c = d  BY <3>1, <2>1, <2>2, <1>1, OneOwner DEF IInv
    <3> QED  BY <3>2, <2>2 DEF Writing
  <2> QED  BY <2>1, <2>2, <1>2, <1>4 DEF IInv, DiskFollowed
<1>6. c.current # NoAppointment =>
         /\ c.current \in taken /\ c.current.locator = c.app.locator
         /\ c.current \in Appointment /\ c.current.nonce < c.app.nonce
  BY <1>1, <1>2, <1>3 DEF IInv, IndexShape, SeesLocator, Typed
<1> QED  BY <1>1, <1>3, <1>4, <1>5, <1>6 DEF IInv, CallShape

LEMMA WriteAddKeeps ==
    ASSUME IInv, NEW c \in calls, WriteAdd(c)
    PROVE  IInv'
<1> DEFINE e == [c EXCEPT !.pc = "written"]
<1>a. /\ e.op = c.op /\ e.by = c.by /\ e.app = c.app /\ e.pc = "written"
      /\ e.current = c.current
      /\ e = [op |-> e.op, by |-> e.by, app |-> e.app, current |-> e.current, pc |-> e.pc]
  BY MovedFields DEF IInv
<1>b. /\ c.op = "add" /\ c.pc = "writing"
      /\ calls' = (calls \ {c}) \cup {e}
      /\ disk' = (disk \ {c.current}) \cup {c.app}
      /\ taken' = taken \cup {c.app}
      /\ UNCHANGED <<byId, byLocator, byCustomer, locks, loaded>>
  BY DEF WriteAdd, memory, Move
<1> HIDE DEF e
<1>c. /\ AtLocator(disk, c.app.locator) \subseteq {c.current}
      /\ c.app \notin taken /\ c.by = c.app /\ c.app \in Appointment
      /\ Owns(c) /\ loaded
      /\ c.current # NoAppointment =>
            c.current \in taken /\ c.current.locator = c.app.locator
  BY <1>b, WriterSeesDisk
<1>d. Critical(c) /\ Writing(e) /\ ~Adding(e) /\ ~Deleted(e)
  BY <1>a, <1>b DEF Critical, Writing, Adding, Deleted
<1>e. NoAppointment \notin taken /\ disk \subseteq taken /\ taken \subseteq Appointment
  BY DEF IInv, Typed
<1>1. Typed'  BY <1>b, <1>c DEF Typed, IInv
<1>2. CallShape'
  <2>1. \A x, y \in calls' : x.by = y.by => x = y  BY <1>a, <1>b DEF CallShape, IInv
  <2>2. ASSUME NEW x \in calls, x # c, Adding(x)  PROVE x.app \notin taken'
    BY <2>2, <1>b, <1>c DEF IInv, CallShape, Adding
  <2>3. ASSUME NEW x \in calls, Deleted(x)  PROVE x.app \notin disk'
    BY <2>3, <1>b, <1>c DEF IInv, CallShape, Deleted
  <2> QED
    BY <2>1, <2>2, <2>3, <1>a, <1>b, <1>c, <1>d DEF CallShape, IInv, Adding, Deleted, Writing
<1>3. LockHeld'
  BY <1>a, <1>b, <1>d DEF LockHeld, IInv, Critical, Owns
<1>4. SeesLocator'
  <2> SUFFICES ASSUME NEW x \in calls', Critical(x)
               PROVE  /\ x.current = byLocator[x.app.locator]
                      /\ x.current # NoAppointment => x.current.nonce < x.app.nonce
                      /\ Writing(x) => x.current \notin disk'
    BY <1>b DEF SeesLocator, Critical, Writing
  <2>1. CASE x = e
    <3>1. c.current # c.app  BY <1>c, <1>e
    <3> QED  BY <2>1, <3>1, <1>a, <1>b, <1>d DEF IInv, SeesLocator
  <2>2. CASE x # e
    <3>1. x \in calls  BY <2>2, <1>b
    <3>2. x.app.locator \in Locators  BY <3>1, LocatorsOfCalls DEF IInv
    <3>3. x.current = byLocator[x.app.locator]  BY <3>1 DEF IInv, SeesLocator
    <3>4. x.current # c.app
      BY <3>2, <3>3, <1>c DEF IInv, IndexShape
    <3> QED  BY <3>1, <3>4, <1>b DEF IInv, SeesLocator
  <2> QED  BY <2>1, <2>2
<1>5. OneAtLocator'
  <2>1. ASSUME NEW a \in disk', a.locator = c.app.locator  PROVE a = c.app
    BY <2>1, <1>b, <1>c DEF AtLocator
  <2> QED  BY <2>1, <1>b DEF OneAtLocator, IInv
<1>6. DiskFollowed'
  <2>1. \A x \in calls : Writing(x) => x \in calls'  BY <1>b DEF Writing
  <2> QED  BY <2>1, <1>a, <1>b, <1>d DEF DiskFollowed, IInv, Writing
<1>7. IndexShape'  BY <1>b DEF IndexShape, IInv
<1>8. NothingBeforeLoading'  BY <1>b, <1>c DEF NothingBeforeLoading, IInv
<1> QED  BY <1>1, <1>2, <1>3, <1>4, <1>5, <1>6, <1>7, <1>8 DEF IInv

(* The memory follows the database; no deleteFromSet throws. *)
LEMMA FinishAddKeeps ==
    ASSUME IInv, NEW c \in calls, FinishAdd(c)
    PROVE  IInv'
<1> DEFINE l == c.app.locator
           p == c.app.customer
<1>a. /\ Critical(c) /\ Writing(c) /\ Owns(c)
      /\ c.current = byLocator[l] /\ c.app \in taken
      /\ c.current \notin disk
  BY DEF FinishAdd, Critical, Writing, IInv, LockHeld, SeesLocator, CallShape
<1>b. /\ c.app \in Appointment /\ l \in Locators /\ p \in Customers
  BY LocatorsOfCalls DEF IInv
<1>c. c.current # NoAppointment =>
          /\ c.current \in Appointment /\ c.current.locator = l /\ c.current.customer = p
          /\ c.current \in byCustomer[p]
  BY <1>a, <1>b DEF IInv, IndexShape, Typed
<1>d. ~(c.current # NoAppointment /\ DeleteThrows(c.app))
  BY <1>c DEF DeleteThrows
<1>e. /\ byId' = (byId \ {c.current}) \cup {c.app}
      /\ byLocator' = [byLocator EXCEPT ![l] = c.app]
      /\ byCustomer' = [byCustomer EXCEPT ![p] = (@ \ {c.current}) \cup {c.app}]
      /\ calls' = calls \ {c} /\ Release(c)
      /\ UNCHANGED <<disk, loaded, taken>>
  BY <1>d DEF FinishAdd, Return
<1>f. \A x \in calls' : x \in calls /\ x # c /\ x.by # c.by /\ x.app \in Appointment
  BY <1>e DEF IInv, CallShape
<1>g. byLocator'[l] = c.app /\ \A k \in Locators : k # l => byLocator'[k] = byLocator[k]
  BY <1>b, <1>e DEF IInv, Typed
<1>h. \A x \in calls' : Critical(x) => Owns(x) /\ x.app.locator # l
  <2> SUFFICES ASSUME NEW x \in calls', Critical(x)  PROVE Owns(x) /\ x.app.locator # l
    OBVIOUS
  <2>1. Owns(x)  BY <1>f DEF IInv, LockHeld
  <2> QED  BY <2>1, <1>a, <1>f, OneOwner DEF IInv
<1>1. Typed'
  <2>1. byLocator' \in [Locators -> Appointment \cup {NoAppointment}]
    BY <1>b, <1>e DEF IInv, Typed
  <2>2. byCustomer' \in [Customers -> SUBSET Appointment]
    BY <1>b, <1>e DEF IInv, Typed
  <2> QED  BY <2>1, <2>2, <1>a, <1>b, <1>e, LockTypes DEF Typed, IInv
<1>2. CallShape'  BY <1>e DEF CallShape, IInv, Adding, Deleted, Writing
<1>3. LockHeld'
  <2> SUFFICES ASSUME NEW x \in calls', Critical(x)  PROVE Owns(x)'
    BY DEF LockHeld, Critical
  <2> QED  BY <1>a, <1>b, <1>e, <1>f, <1>h, ReleaseKeepsOthers DEF IInv
<1>4. SeesLocator'
  <2> SUFFICES ASSUME NEW x \in calls', Critical(x)
               PROVE  /\ x.current = byLocator'[x.app.locator]
                      /\ x.current # NoAppointment => x.current.nonce < x.app.nonce
                      /\ Writing(x) => x.current \notin disk'
    BY DEF SeesLocator, Critical, Writing
  <2>1. x.app.locator \in Locators /\ x.app.locator # l /\ x \in calls
    BY <1>f, <1>h DEF Locators
  <2> QED  BY <2>1, <1>e, <1>g DEF IInv, SeesLocator
<1>5. OneAtLocator'  BY <1>e DEF OneAtLocator, IInv
<1>6. DiskFollowed'
  <2> SUFFICES ASSUME loaded, NEW a \in disk
               PROVE  byLocator'[a.locator] = a \/ \E x \in calls' : Writing(x) /\ x.app = a
    BY <1>e DEF DiskFollowed, Writing
  <2>1. a.locator \in Locators  BY DEF IInv, Typed, Locators
  <2>2. CASE byLocator[a.locator] = a
    <3>1. a.locator # l  BY <2>2, <1>a
    <3> QED  BY <2>1, <2>2, <3>1, <1>g
  <2>3. CASE \E x \in calls : Writing(x) /\ x.app = a
    BY <2>3, <1>e, <1>g
  <2> QED  BY <2>2, <2>3 DEF IInv, DiskFollowed
<1>7. IndexShape'
  <2> SUFFICES ASSUME NEW k \in Locators, byLocator'[k] # NoAppointment
               PROVE  /\ byLocator'[k].locator = k
                      /\ byLocator'[k] \in byCustomer'[byLocator'[k].customer]
                      /\ byLocator'[k] \in taken'
    BY DEF IndexShape
  <2>1. CASE k = l
    BY <2>1, <1>a, <1>b, <1>e, <1>g DEF IInv, Typed
  <2>2. CASE k # l
    <3>1. /\ byLocator'[k] = byLocator[k] /\ byLocator[k].locator = k
          /\ byLocator[k] \in byCustomer[byLocator[k].customer]
          /\ byLocator[k] \in taken
      BY <2>2, <1>g DEF IInv, IndexShape
    <3>2. byLocator[k] # c.current  BY <3>1, <2>2, <1>c
    <3>3. byLocator[k].customer \in Customers
      BY <3>1 DEF IInv, Typed, Customers
    <3> QED  BY <3>1, <3>2, <3>3, <1>b, <1>e DEF IInv, Typed
  <2> QED  BY <2>1, <2>2
<1>8. NothingBeforeLoading'  BY <1>e DEF NothingBeforeLoading, IInv
<1> QED  BY <1>1, <1>2, <1>3, <1>4, <1>5, <1>6, <1>7, <1>8 DEF IInv

(* The first half of a removal; it holds no lock. *)
LEMMA DeleteRecordKeeps ==
    ASSUME IInv, NEW c \in calls, DeleteRecord(c)
    PROVE  IInv'
<1> DEFINE e == [c EXCEPT !.pc = "deleted"]
<1>a. /\ e.op = c.op /\ e.by = c.by /\ e.app = c.app /\ e.pc = "deleted"
      /\ e.current = c.current
      /\ e = [op |-> e.op, by |-> e.by, app |-> e.app, current |-> e.current, pc |-> e.pc]
  BY MovedFields DEF IInv
<1>b. /\ c.op = "remove" /\ c.pc = "deleting"
      /\ calls' = (calls \ {c}) \cup {e}
      /\ disk' = disk \ {c.app}
      /\ UNCHANGED <<byId, byLocator, byCustomer, locks, loaded, taken>>
  BY DEF DeleteRecord, memory, Move
<1> HIDE DEF e
<1>c. ~Critical(e) /\ ~Writing(e) /\ ~Adding(e) /\ ~Writing(c)
  BY <1>a, <1>b DEF Critical, Writing, Adding
<1>1. Typed'  BY <1>b DEF Typed, IInv
<1>2. CallShape'
  <2>1. \A x, y \in calls' : x.by = y.by => x = y  BY <1>a, <1>b DEF CallShape, IInv
  <2> QED  BY <2>1, <1>a, <1>b, <1>c DEF CallShape, IInv, Adding, Deleted, Writing
<1>3. LockHeld'  BY <1>b, <1>c DEF LockHeld, IInv, Critical, Owns
<1>4. SeesLocator'  BY <1>b, <1>c DEF SeesLocator, IInv, Critical, Writing
<1>5. OneAtLocator'  BY <1>b DEF OneAtLocator, IInv
<1>6. DiskFollowed'
  <2>1. \A x \in calls : Writing(x) => x \in calls'  BY <1>b, <1>c
  <2> QED  BY <2>1, <1>b DEF DiskFollowed, IInv, Writing
<1>7. IndexShape'  BY <1>b DEF IndexShape, IInv
<1>8. NothingBeforeLoading'  BY <1>b DEF NothingBeforeLoading, IInv
<1> QED  BY <1>1, <1>2, <1>3, <1>4, <1>5, <1>6, <1>7, <1>8 DEF IInv

LEMMA DeleteByIdKeeps ==
    ASSUME IInv, NEW c \in calls, DeleteById(c)
    PROVE  IInv'
<1> DEFINE e == [c EXCEPT !.pc = "lock"]
<1>a. /\ e.op = c.op /\ e.by = c.by /\ e.app = c.app /\ e.pc = "lock"
      /\ e.current = c.current
      /\ e = [op |-> e.op, by |-> e.by, app |-> e.app, current |-> e.current, pc |-> e.pc]
  BY MovedFields DEF IInv
<1>b. /\ c.op = "remove" /\ c.pc = "deleted"
      /\ calls' = (calls \ {c}) \cup {e} /\ Acquire(c)
      /\ byId' = byId \ {c.app}
      /\ UNCHANGED <<disk, byLocator, byCustomer, loaded, taken>>
  BY DEF DeleteById, Move
<1> HIDE DEF e
<1>c. ~Critical(e) /\ ~Writing(e) /\ ~Adding(e) /\ ~Writing(c) /\ Deleted(c)
  BY <1>a, <1>b DEF Critical, Writing, Adding, Deleted
<1>d. c.app \in Appointment  BY LocatorsOfCalls DEF IInv
<1>1. Typed'  BY <1>b, <1>d, LockTypes DEF Typed, IInv
<1>2. CallShape'
  <2>1. \A x, y \in calls' : x.by = y.by => x = y  BY <1>a, <1>b DEF CallShape, IInv
  <2> QED  BY <2>1, <1>a, <1>b, <1>c DEF CallShape, IInv, Adding, Deleted, Writing
<1>3. LockHeld'
  <2> SUFFICES ASSUME NEW x \in calls', Critical(x)  PROVE Owns(x)'
    BY DEF LockHeld, Critical
  <2>1. x \in calls  BY <1>b, <1>c
  <2> QED  BY <2>1, <1>b, <1>d, AcquireKeepsOwners, LocatorsOfCalls DEF IInv, LockHeld
<1>4. SeesLocator'  BY <1>b, <1>c DEF SeesLocator, IInv, Critical, Writing
<1>5. OneAtLocator'  BY <1>b DEF OneAtLocator, IInv
<1>6. DiskFollowed'
  <2>1. \A x \in calls : Writing(x) => x \in calls'  BY <1>b, <1>c
  <2> QED  BY <2>1, <1>b DEF DiskFollowed, IInv, Writing
<1>7. IndexShape'  BY <1>b DEF IndexShape, IInv
<1>8. NothingBeforeLoading'  BY <1>b DEF NothingBeforeLoading, IInv
<1> QED  BY <1>1, <1>2, <1>3, <1>4, <1>5, <1>6, <1>7, <1>8 DEF IInv

(* The second half: the owner of the lock removes from the other indexes    *)
(* what the database lost before.                                           *)
LEMMA FinishRemoveKeeps ==
    ASSUME IInv, NEW c \in calls, FinishRemove(c)
    PROVE  IInv'
<1> DEFINE l == c.app.locator
           p == c.app.customer
<1>a. /\ Deleted(c) /\ Owns(c) /\ ~Writing(c)
      /\ c.app \notin disk
  BY DEF FinishRemove, Deleted, Writing, IInv, CallShape
<1>b. /\ c.app \in Appointment /\ l \in Locators /\ p \in Customers
  BY LocatorsOfCalls DEF IInv
<1>c. /\ calls' = calls \ {c} /\ Release(c)
      /\ UNCHANGED <<disk, byId, loaded, taken>>
      /\ byLocator' = IF SameId(c) THEN [byLocator EXCEPT ![l] = NoAppointment]
                                   ELSE byLocator
      /\ \/ UNCHANGED byCustomer
         \/ byCustomer' = [byCustomer EXCEPT ![p] = @ \ {c.app}]
  BY DEF FinishRemove, Return
<1>d. /\ \A k \in Locators : k # l => byLocator'[k] = byLocator[k]
      /\ byLocator'[l] = byLocator[l] \/ (byLocator[l] = c.app /\ byLocator'[l] = NoAppointment)
      /\ byLocator'[l] # c.app
  BY <1>b, <1>c DEF IInv, Typed, SameId
<1>f. \A x \in calls' : x \in calls /\ x # c /\ x.by # c.by /\ x.app \in Appointment
  BY <1>c DEF IInv, CallShape
<1>h. \A x \in calls' : Critical(x) => Owns(x) /\ x.app.locator # l
  <2> SUFFICES ASSUME NEW x \in calls', Critical(x)  PROVE Owns(x) /\ x.app.locator # l
    OBVIOUS
  <2>1. Owns(x)  BY <1>f DEF IInv, LockHeld
  <2> QED  BY <2>1, <1>a, <1>f, OneOwner DEF IInv
<1>1. Typed'
  <2>1. byLocator' \in [Locators -> Appointment \cup {NoAppointment}]
    BY <1>b, <1>c DEF IInv, Typed
  <2>2. byCustomer' \in [Customers -> SUBSET Appointment]
    BY <1>b, <1>c DEF IInv, Typed
  <2> QED  BY <2>1, <2>2, <1>a, <1>b, <1>c, LockTypes DEF Typed, IInv
<1>2. CallShape'  BY <1>c DEF CallShape, IInv, Adding, Deleted, Writing
<1>3. LockHeld'
  <2> SUFFICES ASSUME NEW x \in calls', Critical(x)  PROVE Owns(x)'
    BY DEF LockHeld, Critical
  <2> QED  BY <1>a, <1>b, <1>c, <1>f, <1>h, ReleaseKeepsOthers DEF IInv
<1>4. SeesLocator'
  <2> SUFFICES ASSUME NEW x \in calls', Critical(x)
               PROVE  /\ x.current = byLocator'[x.app.locator]
                      /\ x.current # NoAppointment => x.current.nonce < x.app.nonce
                      /\ Writing(x) => x.current \notin disk'
    BY DEF SeesLocator, Critical, Writing
  <2>1. x.app.locator \in Locators /\ x.app.locator # l /\ x \in calls
    BY <1>f, <1>h DEF Locators
  <2> QED  BY <2>1, <1>c, <1>d DEF IInv, SeesLocator
<1>5. OneAtLocator'  BY <1>c DEF OneAtLocator, IInv
<1>6. DiskFollowed'
  <2> SUFFICES ASSUME loaded, NEW a \in disk
               PROVE  byLocator'[a.locator] = a \/ \E x \in calls' : Writing(x) /\ x.app = a
    BY <1>c DEF DiskFollowed, Writing
  <2>1. a.locator \in Locators  BY DEF IInv, Typed, Locators
  <2>2. CASE byLocator[a.locator] = a
    BY <2>1, <2>2, <1>a, <1>d
  <2>3. CASE \E x \in calls : Writing(x) /\ x.app = a
    BY <2>3, <1>a, <1>c
  <2> QED  BY <2>2, <2>3 DEF IInv, DiskFollowed
<1>7. IndexShape'
  <2> SUFFICES ASSUME NEW k \in Locators, byLocator'[k] # NoAppointment
               PROVE  /\ byLocator'[k].locator = k
                      /\ byLocator'[k] \in byCustomer'[byLocator'[k].customer]
                      /\ byLocator'[k] \in taken'
    BY DEF IndexShape
  <2>1. byLocator'[k] = byLocator[k]  BY <1>d
  <2>2. /\ byLocator[k].locator = k /\ byLocator[k] \in taken
        /\ byLocator[k] \in byCustomer[byLocator[k].customer]
    BY <2>1 DEF IInv, IndexShape
  <2>3. byLocator[k] # c.app  BY <2>1, <2>2, <1>d
  <2>4. byLocator[k].customer \in Customers
    BY <2>2 DEF IInv, Typed, Customers
  <2> QED  BY <2>1, <2>2, <2>3, <2>4, <1>b, <1>c DEF IInv, Typed
<1>8. NothingBeforeLoading'  BY <1>c DEF NothingBeforeLoading, IInv
<1> QED  BY <1>1, <1>2, <1>3, <1>4, <1>5, <1>6, <1>7, <1>8 DEF IInv

LEMMA CrashKeeps == IInv /\ Crash => IInv'
<1> SUFFICES ASSUME IInv, Crash PROVE IInv'  OBVIOUS
<1>1. /\ byId' = {} /\ byLocator' = [l \in Locators |-> NoAppointment]
      /\ byCustomer' = [p \in Customers |-> {}]
      /\ locks' = [l \in Locators |-> <<>>]
      /\ calls' = {} /\ loaded' = FALSE /\ UNCHANGED <<disk, taken>>
  BY DEF Crash, Forgotten
<1>2. IsSeq(<<>>)
  <2>1. <<>> \in Seq({})  OBVIOUS
  <2> QED  BY <2>1 DEF IsSeq
<1>3. Typed'  BY <1>1, <1>2 DEF IInv, Typed
<1>4. CallShape' /\ LockHeld' /\ SeesLocator'
  BY <1>1 DEF CallShape, LockHeld, SeesLocator
<1>5. OneAtLocator' /\ DiskFollowed' /\ IndexShape' /\ NothingBeforeLoading'
  BY <1>1 DEF IInv, OneAtLocator, DiskFollowed, IndexShape, NothingBeforeLoading
<1> QED  BY <1>3, <1>4, <1>5 DEF IInv

(* There is one record at each locator, so the order of reading them is     *)
(* immaterial.                                                              *)
LEMMA LoadKeeps == IInv /\ LoadAppointments => IInv'
<1> SUFFICES ASSUME IInv, LoadAppointments PROVE IInv'  OBVIOUS
<1>1. /\ ~loaded /\ loaded' = TRUE /\ byId' = disk /\ calls = {}
      /\ byCustomer' = [p \in Customers |-> {a \in disk : a.customer = p}]
      /\ UNCHANGED <<disk, locks, calls, taken>>
  BY DEF LoadAppointments, IInv, NothingBeforeLoading
<1>2. PICK latest \in [Locators -> Appointment \cup {NoAppointment}] :
          /\ \A l \in Locators : IF AtLocator(disk, l) = {}
                                 THEN latest[l] = NoAppointment
                                 ELSE latest[l] \in AtLocator(disk, l)
          /\ byLocator' = latest
  BY DEF LoadAppointments
<1>3. disk \subseteq Appointment /\ disk \subseteq taken  BY DEF IInv, Typed
<1>4. Typed'  BY <1>1, <1>2, <1>3 DEF IInv, Typed
<1>5. CallShape' /\ LockHeld' /\ SeesLocator'
  BY <1>1 DEF CallShape, LockHeld, SeesLocator
<1>6. OneAtLocator'  BY <1>1 DEF IInv, OneAtLocator
<1>7. DiskFollowed'
  <2> SUFFICES ASSUME NEW a \in disk PROVE byLocator'[a.locator] = a
    BY <1>1 DEF DiskFollowed
  <2>1. a.locator \in Locators /\ a \in AtLocator(disk, a.locator)
    BY <1>3 DEF Locators, AtLocator
  <2>2. latest[a.locator] \in AtLocator(disk, a.locator)  BY <2>1, <1>2
  <2> QED  BY <2>2, <1>2 DEF AtLocator, IInv, OneAtLocator
<1>8. IndexShape'
  <2> SUFFICES ASSUME NEW l \in Locators, latest[l] # NoAppointment
               PROVE  /\ latest[l].locator = l
                      /\ latest[l] \in byCustomer'[latest[l].customer]
                      /\ latest[l] \in taken
    BY <1>1, <1>2 DEF IndexShape
  <2>1. latest[l] \in disk /\ latest[l].locator = l  BY <1>2 DEF AtLocator
  <2>2. latest[l].customer \in Customers  BY <2>1, <1>3 DEF Customers
  <2> QED  BY <2>1, <2>2, <1>1, <1>3
<1>9. NothingBeforeLoading'  BY <1>1 DEF NothingBeforeLoading
<1> QED  BY <1>4, <1>5, <1>6, <1>7, <1>8, <1>9 DEF IInv

LEMMA NextStore == IInv /\ [StoreNext]_storeVars => IInv'
<1> SUFFICES ASSUME IInv, [StoreNext]_storeVars PROVE IInv'  OBVIOUS
<1>1. ASSUME NEW a \in Appointment, BeginAdd(a) PROVE IInv'
  BY <1>1, BeginAddKeeps
<1>2. ASSUME NEW a \in Appointment, NEW by, BeginRemove(by, a) PROVE IInv'
  BY <1>2, BeginRemoveKeeps
<1>3. ASSUME NEW c \in calls, CallStep(c) PROVE IInv'
  BY <1>3, EnterAddKeeps, WriteAddKeeps, FinishAddKeeps, DeleteRecordKeeps,
     DeleteByIdKeeps, FinishRemoveKeeps DEF CallStep
<1>4. CASE UNCHANGED storeVars
  <2> USE <1>4 DEF storeVars, memory
  <2>1. Typed'  BY DEF IInv, Typed
  <2>2. CallShape'  BY DEF IInv, CallShape, Adding, Writing, Deleted
  <2>3. LockHeld' /\ SeesLocator'
    BY DEF IInv, LockHeld, SeesLocator, Critical, Writing, Owns
  <2>4. OneAtLocator' /\ DiskFollowed' /\ IndexShape' /\ NothingBeforeLoading'
    BY DEF IInv, OneAtLocator, DiskFollowed, IndexShape, NothingBeforeLoading, Writing
  <2> QED  BY <2>1, <2>2, <2>3, <2>4 DEF IInv
<1> QED  BY <1>1, <1>2, <1>3, <1>4, CrashKeeps, LoadKeeps DEF StoreNext

-----------------------------------------------------------------------------
(* The register *)

held == [l \in Locators |-> {a.nonce : a \in AtLocator(disk, l)}]

LEMMA InitRegister == EmptyStore => Register!Init
<1> SUFFICES ASSUME EmptyStore PROVE Register!Init  OBVIOUS
<1>1. \A l \in Locators : AtLocator(disk, l) = {}  BY DEF EmptyStore, AtLocator
<1> QED  BY <1>1 DEF Register!Init

(* The batch replaces what the writer saw by a larger nonce. *)
LEMMA WriteIsPut ==
    ASSUME IInv, NEW c \in calls, WriteAdd(c)
    PROVE  Register!Next
<1> DEFINE l == c.app.locator
           n == c.app.nonce
<1>1. /\ c.op = "add" /\ c.pc = "writing"
      /\ disk' = (disk \ {c.current}) \cup {c.app}
  BY DEF WriteAdd
<1>2. /\ AtLocator(disk, l) \subseteq {c.current}
      /\ c.app \in Appointment
      /\ c.current # NoAppointment => c.current.locator = l /\ c.current.nonce < n
  BY <1>1, WriterSeesDisk
<1>3. l \in Locators /\ n \in Nonces  BY <1>2 DEF Locators, Nonces
<1>4. NoAppointment \notin disk  BY DEF IInv, Typed
<1>5. \A m \in held[l] : m < n
  BY <1>2, <1>3, <1>4 DEF held, AtLocator
<1>6. AtLocator(disk', l) = {c.app}  BY <1>1, <1>2 DEF AtLocator
<1>7. \A k \in Locators : k # l => AtLocator(disk', k) = AtLocator(disk, k)
  BY <1>1, <1>2, <1>4 DEF AtLocator
<1>8. held' = [held EXCEPT ![l] = {n}]
  <2>1. held'[l] = {n}  BY <1>3, <1>6 DEF held
  <2>2. \A k \in Locators : k # l => held'[k] = held[k]
    BY <1>7 DEF held
  <2> QED  BY <2>1, <2>2 DEF held
<1>9. Register!Put(l, n)  BY <1>5, <1>8 DEF Register!Put, held
<1> QED  BY <1>3, <1>9 DEF Register!Next

(* The deletion of a record drops what is kept at its locator, or finds     *)
(* nothing there.                                                           *)
LEMMA DeleteIsDrop ==
    ASSUME IInv, NEW c \in calls, DeleteRecord(c)
    PROVE  Register!Next \/ UNCHANGED held
<1> DEFINE l == c.app.locator
<1>1. disk' = disk \ {c.app}  BY DEF DeleteRecord
<1>2. l \in Locators  BY LocatorsOfCalls DEF IInv
<1>3. CASE c.app \notin disk
  <2>1. disk' = disk  BY <1>1, <1>3
  <2> QED  BY <2>1 DEF held, AtLocator
<1>4. CASE c.app \in disk
  <2>1. AtLocator(disk', l) = {}
    BY <1>1, <1>4 DEF AtLocator, IInv, OneAtLocator
  <2>2. \A k \in Locators : k # l => AtLocator(disk', k) = AtLocator(disk, k)
    BY <1>1 DEF AtLocator
  <2>3. held'[l] = {} /\ \A k \in Locators : k # l => held'[k] = held[k]
    BY <1>2, <2>1, <2>2 DEF held
  <2>4. held' = [held EXCEPT ![l] = {}]
    BY <2>3 DEF held
  <2>5. Register!Drop(l)  BY <2>4 DEF Register!Drop, held
  <2> QED  BY <1>2, <2>5 DEF Register!Next
<1> QED  BY <1>3, <1>4

LEMMA StepIsRegister ==
    IInv /\ [StoreNext]_storeVars => [Register!Next]_held
<1> SUFFICES ASSUME IInv, [StoreNext]_storeVars PROVE [Register!Next]_held
  OBVIOUS
<1>1. ASSUME UNCHANGED disk PROVE UNCHANGED held
  BY <1>1 DEF held, AtLocator
<1>2. ASSUME NEW a \in Appointment, BeginAdd(a) PROVE UNCHANGED disk
  BY <1>2 DEF BeginAdd
<1>3. ASSUME NEW a \in Appointment, NEW by, BeginRemove(by, a) PROVE UNCHANGED disk
  BY <1>3 DEF BeginRemove
<1>4. ASSUME NEW c \in calls, CallStep(c) PROVE [Register!Next]_held
  <2>1. CASE WriteAdd(c)  BY <2>1, WriteIsPut
  <2>2. CASE DeleteRecord(c)  BY <2>2, DeleteIsDrop
  <2>3. CASE EnterAdd(c) \/ FinishAdd(c) \/ DeleteById(c) \/ FinishRemove(c)
    BY <2>3, <1>1 DEF EnterAdd, FinishAdd, DeleteById, FinishRemove
  <2> QED  BY <1>4, <2>1, <2>2, <2>3 DEF CallStep
<1>5. CASE Crash \/ LoadAppointments \/ UNCHANGED storeVars
  BY <1>1, <1>5 DEF Crash, LoadAppointments, storeVars
<1> QED  BY <1>1, <1>2, <1>3, <1>4, <1>5 DEF StoreNext

(* Whatever calls interleave at the awaits of the store, and wherever it    *)
(* crashes, its database is a register of appointments.                     *)
THEOREM StoreImplementsRegister == StoreSpec => Register!Spec
<1>1. StoreInit => Register!Init /\ IInv
  BY InitRegister, InitStore DEF StoreInit
<1>2. IInv /\ [StoreNext]_storeVars => [Register!Next]_held
  BY StepIsRegister
<1> QED
  BY <1>1, <1>2, NextStore, PTL DEF StoreSpec, Register!Spec, held
=============================================================================

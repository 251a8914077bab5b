------------------------------- MODULE Tower -------------------------------
(***************************************************************************)
(* The tower (src/src/tower.ts) as the service runs it (service.ts): the   *)
(* API validates an appointment (dataEntities/appointment.ts) and hands it *)
(* to the responder or to the appointment store, while the watcher follows *)
(* the chain.  The process may stop at any point; what it stored is JSON,  *)
(* and the service starts its parts one after the other.                   *)
(***************************************************************************)
EXTENDS Watcher

CONSTANTS
    Root,            \* the block the tower first started at
    ForkLimit, SynchronisationLimit,
    MinDuration, MaxDuration,
    MaxRestarts      \* bound: how often the process stops

ASSUME TowerAssumption ==
    /\ Root \in Block /\ Parent[Root] = NoBlock /\ NoBlock \notin Block
    /\ \A a \in Appointment :
          /\ a.mode \in {"relay", "event"}
          /\ a.start \in Int /\ a.end \in Int
    /\ MaxRestarts \in Nat

VARIABLES
    signed,     \* history: the relay transactions the customers got a signature for
    restarts

towerVars == <<signed, restarts>>
vars == <<storeVars, machineVars, phase, actionVars, queueVars, towerVars>>

-----------------------------------------------------------------------------
(* addAppointment.  The handler answers only once the whole service has     *)
(* started; parse and the checks on hashes, conditions, topics and          *)
(* signatures are about fields that nothing else here looks at.             *)

Validate(a) ==
    /\ a.start >= Number[head] - ForkLimit - SynchronisationLimit
    /\ a.start <= Number[head] + SynchronisationLimit
    /\ a.end - a.start \in MinDuration .. MaxDuration

(* A relay transaction goes to the responder at once.  Unless it is there   *)
(* already the customer gets a signature, also if the responder gave up or  *)
(* one of its calls failed.                                                 *)
AddRelay(a, price) ==
    /\ phase = "started" /\ a.mode = "relay" /\ a \notin signed
    /\ Validate(a)
    /\ StartResponse(a, a.start + a.period, price)
    /\ signed' = signed \cup {a}
    /\ UNCHANGED <<restarts, machineVars, phase, actionVars, storeVars>>

AddToWatch(a) ==
    /\ phase = "started" /\ a.mode = "event"
    /\ Validate(a) /\ ~NonceTooLow(a)
    /\ BeginAdd(a)
    /\ UNCHANGED <<machineVars, phase, actionVars, queueVars, towerVars>>

ContinueCall(c) ==
    /\ EnterAdd(c) \/ WriteAdd(c) \/ FinishAdd(c) \/ DeleteRecord(c) \/ DeleteById(c)
    /\ UNCHANGED <<machineVars, phase, actionVars, queueVars, towerVars>>

-----------------------------------------------------------------------------
(* The process stops: the databases keep the blocks, the actions, the       *)
(* queue and the appointments.  The responder's new queue is the empty seed *)
(* until its store is started, and the new cache counts as empty.  A tower  *)
(* that had a block in memory whose batch had failed is torn.               *)

StaleOf(states) == [b \in Block |-> IF b \in onDisk /\ states[b] # NoState
                                    THEN Stale ELSE NoState]

Stop ==
    /\ phase # "down" /\ restarts < MaxRestarts
    /\ restarts' = restarts + 1
    /\ gaps' = IF cached = onDisk THEN gaps ELSE gaps \cup {"torn"}
    /\ Crash
    /\ phase' = "down"
    /\ cached' = onDisk
    /\ isEmpty' = TRUE /\ minHeight' = 0
    /\ head' = NoBlock
    /\ anchor' = StaleOf(anchor)
    /\ prevEmitted' = StaleOf(prevEmitted)
    /\ emitting' = Idle
    /\ running' = {}
    /\ queue' = {}
    /\ UNCHANGED <<onDisk, storedHead, actionStore, issued, storedQueue, answered,
                   refused, failures, signed>>

(* The machine starts, and runs the stored actions.  A response holds an    *)
(* appointment that is a plain object without encodeForResponse: it throws. *)
(* A removal finds the appointment store empty, and does nothing.           *)
StartMachine ==
    /\ phase = "down"
    /\ phase' = "booting"
    /\ running' = {[act |-> x, pc |-> "applied"] :
                      x \in {y \in actionStore : y.kind = "remove"}}
    /\ UNCHANGED <<machineVars, actionStore, issued, queueVars, storeVars, towerVars>>

(* The block processor processes the stored head's number, and emits no     *)
(* head before it has started.                                              *)
StartProcessor(h) ==
    /\ phase = "booting"
    /\ h \in cached /\ Number[h] = storedHead
    /\ head' = h
    /\ phase' = "emitting"
    /\ UNCHANGED <<cached, onDisk, isEmpty, minHeight, gaps, storedHead, anchor, prevEmitted,
                   emitting, actionVars, queueVars, storeVars, towerVars>>

StartStore ==
    /\ phase = "emitting"
    /\ LoadAppointments
    /\ UNCHANGED <<machineVars, phase, actionVars, queueVars, towerVars>>

(* The responder's store comes last: what the watcher answered before it    *)
(* went to the seed queue, and replaced the queue in the database.          *)
StartResponderStore ==
    /\ phase = "emitting" /\ loaded
    /\ phase' = "started"
    /\ queue' = storedQueue
    /\ UNCHANGED <<machineVars, actionVars, storedQueue, answered, refused, failures,
                   storeVars, towerVars>>

-----------------------------------------------------------------------------
NothingKnown == [b \in Block |-> IF b = Root THEN [number |-> Number[b], items |-> <<>>]
                                             ELSE NoState]

Init ==
    /\ EmptyStore /\ loaded = TRUE
    /\ cached = {Root} /\ onDisk = {Root}
    /\ isEmpty = FALSE /\ minHeight = Number[Root] /\ gaps = {}
    /\ head = Root /\ storedHead = Number[Root]
    /\ anchor = NothingKnown /\ prevEmitted = NothingKnown
    /\ emitting = Idle /\ phase = "started"
    /\ actionStore = {} /\ running = {} /\ issued = {}
    /\ queue = {} /\ storedQueue = {} /\ answered = {}
    /\ refused = {} /\ failures = 0
    /\ signed = {} /\ restarts = 0

Api ==
    \/ \E a \in Appointment : AddToWatch(a)
    \/ \E a \in Appointment, price \in NetworkPrice : AddRelay(a, price)

Chain == (\E b \in Block : ReceiveBlock(b) \/ NewHead(b)) /\ UNCHANGED towerVars

RunAction(t) ==
    /\ \/ \E price \in NetworkPrice : Respond(t, price)
       \/ StartRemoval(t)
       \/ EndRemoval(t)
       \/ RemoveAction(t)
    /\ UNCHANGED towerVars

Confirmation == (\E q \in queue : ResponseConfirmed(q)) /\ UNCHANGED towerVars

Store == (StoreActions \/ WriteEmitted \/ StoreHeadNumber) /\ UNCHANGED towerVars

Starting ==
    \/ StartMachine
    \/ \E h \in Block : StartProcessor(h)
    \/ StartStore
    \/ StartResponderStore

Next ==
    \/ Api
    \/ \E c \in calls : ContinueCall(c)
    \/ Chain
    \/ Store
    \/ \E t \in running : RunAction(t)
    \/ Confirmation
    \/ Stop
    \/ Starting

(* The event loop continues every call, every action, the head that is      *)
(* being processed and the start; blocks, requests and stops come as they   *)
(* please.                                                                  *)
Fairness ==
    /\ WF_vars(\E c \in calls : ContinueCall(c))
    /\ WF_vars(\E t \in running : RunAction(t))
    /\ WF_vars(Store)
    /\ WF_vars(Starting)

Spec == Init /\ [][Next]_vars /\ Fairness

-----------------------------------------------------------------------------
(* Properties *)

(* The types of the watcher's and the tower's own state; an action's        *)
(* observed block is that of an event at or below its head.                 *)
TypeOK ==
    /\ disk \subseteq Appointment /\ byId \subseteq Appointment
    /\ onDisk \subseteq cached /\ cached \subseteq Block
    /\ head \in cached \cup {NoBlock} /\ storedHead \in {Number[b] : b \in Block}
    /\ minHeight \in Nat /\ gaps \subseteq {"empty", "height", "torn"}
    /\ phase \in {"down", "booting", "emitting", "started"} /\ loaded \in BOOLEAN
    /\ emitting.pc \in {"idle", "actions", "batch", "number"}
    /\ {t.act : t \in running} \subseteq actionStore
    /\ actionStore \subseteq issued
    /\ \A x \in issued : x.kind = "respond" => x.observed \in 0 .. Number[x.at]
    /\ \A q \in queue : q.app \in answered /\ q.gas \in 1 .. MaxGasPrice
    /\ failures \in 0 .. MaxFailures
    /\ loaded => phase \in {"emitting", "started"}
    /\ phase = "started" => loaded
    /\ signed \subseteq Appointment /\ restarts \in 0 .. MaxRestarts

(* Whatever the order in which updates and removals passed the database,    *)
(* the maps and the lock, once no call is in progress the three maps hold   *)
(* what the database holds: after a restart nothing else is known.          *)
IndexesAgree ==
    loaded /\ calls = {} =>
        /\ byId = disk
        /\ \A l \in Locators : AtLocator(disk, l) = {byLocator[l]} \ {NoAppointment}
        /\ \A p \in Customers : byCustomer[p] = {a \in disk : a.customer = p}

Ancestry[b \in Block] ==
    {b} \cup (IF Parent[b] \in Block THEN Ancestry[Parent[b]] ELSE {})

EventBlocks(a, b) == {x \in Ancestry[b] : HasEvent(x, a)}

(* The chain up to h justifies giving up the appointment: its event lies    *)
(* deep enough, or it ended long ago and its event never came.              *)
Fulfilled(a, h) ==
    \E x \in EventBlocks(a, h) : Number[h] - Number[x] + 1 >= ConfirmationsBeforeRemoval
Expired(a, h) ==
    /\ Number[h] - a.end > ConfirmationsBeforeRemoval
    /\ \A x \in EventBlocks(a, h) : Number[x] < a.start

(* An appointment that was written is watched until the chain allows to     *)
(* forget it: a replacement, a removal of another appointment, a crash at   *)
(* any await or a fork never loses it, and it is only ever superseded by a  *)
(* larger nonce.  This needs that no block lies off its parent, as one does *)
(* that comes first after a downtime, or that a cascade attached, or that   *)
(* follows a block lost at a stop: see AnchorMatchesChain.                  *)
AcceptedIsHeldUntilDone ==
    gaps = {} => \A a \in taken :
        \/ \E d \in disk : d.locator = a.locator /\ d.nonce >= a.nonce
        \/ \E x \in issued :
              /\ x.kind = "remove"
              /\ x.app.locator = a.locator /\ x.app.nonce >= a.nonce
              /\ Fulfilled(x.app, x.at) \/ Expired(x.app, x.at)

(* The anchor state of a block is what a scan of its chain finds, however   *)
(* the appointments came and went while its ancestors were processed: an    *)
(* appointment still watched has no event from its start on, and an event   *)
(* observed is on the block's own chain.  Where a block lies off its parent *)
(* the scan stops, and does not see the events below.                       *)
AnchorMatchesChain ==
    gaps = {} => \A b \in cached :
        anchor[b] \notin {NoState, Stale} =>
            \A a \in DOMAIN anchor[b].items :
                IF anchor[b].items[a] = Watching
                THEN \A x \in EventBlocks(a, b) : Number[x] < a.start
                ELSE \E x \in EventBlocks(a, b) : Number[x] = anchor[b].items[a]

Answers(a) == \E x \in issued : x.kind = "respond" /\ x.app = a

(* An event deep enough on the chain of a head that was processed to its    *)
(* end has its response, whichever heads were skipped, failed or came twice *)
(* on the way and wherever the process stopped, provided that every block   *)
(* got its state and lies on its parent: one that does not leaves the heads *)
(* above it with nothing to be compared with.                               *)
EveryProcessedHeadAnswered(h) ==
    anchor[h] \notin {NoState, Stale} /\ prevEmitted[h] = anchor[h] =>
        \A a \in DOMAIN anchor[h].items :
            LET n == anchor[h].items[a]
            IN  Observed(n) /\ Number[h] - n + 1 >= ConfirmationsBeforeResponse => Answers(a)

NoBlockFailed == \A b \in cached : anchor[b] # NoState

AnsweredUnlessBlockFailed ==
    gaps = {} /\ NoBlockFailed => \A h \in cached : EveryProcessedHeadAnswered(h)

(* The same, also where a block got no state.  After a restart none does    *)
(* that lies on a block read from disk.                                     *)
AnsweredAcrossRestarts == gaps = {} => \A h \in cached : EveryProcessedHeadAnswered(h)

(* The watcher gives up an appointment whose event is on the chain, from    *)
(* its start on, only after it decided to respond to it: neither an event   *)
(* that came before the appointment, nor a fork, nor a late head makes it   *)
(* count as expired.                                                        *)
AnsweredIfNeeded(x) ==
    (\E y \in EventBlocks(x.app, x.at) : Number[y] >= x.app.start) => Answers(x.app)

RemovedOnlyAnswered ==
    gaps = {} /\ NoBlockFailed =>
        \A x \in issued : x.kind = "remove" => AnsweredIfNeeded(x)

(* No response disappears but for one of the reasons the code has for it,   *)
(* over any crash: until it enters the responder's queue it is in the       *)
(* action store, unless it was tried and the queue was full, one of the     *)
(* calls of the attempt failed, or the gas curve had no second point, with  *)
(* MAX_BLOCKS left and never otherwise; the same holds for a relay          *)
(* transaction a customer got a signature for.                              *)
GivenUp(a) ==
    \E r \in refused : r.app = a /\ (r.why = "curve" => r.left = MaxBlocks)

ResponsesAccountedFor ==
    /\ \A x \in issued :
          x.kind = "respond" => x \in actionStore \/ x.app \in answered \/ GivenUp(x.app)
    /\ \A a \in signed : a \in answered \/ GivenUp(a)

(* Once the responder's store is started its memory and its database hold   *)
(* one queue, whatever call failed and wherever the process stopped.        *)
OneQueue == phase = "started" => queue = storedQueue

(* The database implements the register of appointments, over the API, the  *)
(* removals of the watcher, and crashes.                                    *)
StoreIsRegister == Register!Spec

(* The calls to the store all end and release the locks of their locators:  *)
(* no error path keeps one, and no two calls wait for each other.           *)
CallsReturn == []<>(calls = {} /\ \A l \in Locators : locks[l] = <<>>)

(* The removals the watcher decided on are carried out, unless the tower    *)
(* stops.                                                                   *)
RemovalsTakeEffect ==
    <>[](\A x \in issued : x.kind = "remove" => x.app \notin disk \/ restarts > 0)
=============================================================================

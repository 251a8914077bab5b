------------------------------ MODULE Watcher ------------------------------
(***************************************************************************)
(* The watcher (src/src/watcher/watcher.ts) run by the blockchain machine  *)
(* (blockchainMachine.ts) over the appointment store.  For every block the *)
(* machine computes which appointments' events were observed; for every    *)
(* new head it compares that with the nearest head emitted before, stores  *)
(* the actions due (actionStore.ts) and runs them in the background, where *)
(* they interleave with later blocks and with the calls of the API.        *)
(***************************************************************************)
EXTENDS AppointmentStore, GasPriceEstimator, FiniteSets

CONSTANTS
    Block, NoBlock, Parent, Number,
    Logs,           \* the event filters that match a log of each block
    Unreadable,     \* those that cannot be compared with a log of the block
    ConfirmationsBeforeResponse, ConfirmationsBeforeRemoval,
    MaxQueueDepth,  \* of the responder's queue
    NetworkPrice,   \* what provider.getGasPrice may answer
    MaxFailures     \* bound: how often one of startResponse's calls fails

ASSUME WatcherAssumption ==
    /\ ConfirmationsBeforeResponse \in Nat /\ ConfirmationsBeforeRemoval \in Nat
    /\ ConfirmationsBeforeResponse <= ConfirmationsBeforeRemoval
    /\ NetworkPrice \subseteq Nat
    /\ MaxFailures \in Nat
    /\ \A b \in Block : Number[b] \in Nat
    /\ \A b \in Block : Parent[b] \in Block => Number[b] = Number[Parent[b]] + 1

VARIABLES
    cached,       \* the attached blocks of the cache
    onDisk,       \* those whose batch was written
    isEmpty,      \* since the process started, the cache was given no block it did not hold
    minHeight,    \* the height of the first block it was given
    gaps,         \* history: how blocks came to lie off their parents
    head,
    storedHead,   \* the number that BlockProcessorStore keeps
    anchor,       \* anchorState of each block
    prevEmitted,  \* prevEmittedAnchorState of each block
    emitting,     \* the head being processed, the actions to store and the next await
    actionStore,  \* the database of the action store
    running,      \* the actions run in the background
    phase,        \* of the service's start: down, booting, emitting, started
    queue,        \* the responder's queue
    storedQueue,  \* the same in its database
    answered,     \* history: the appointments that entered it
    refused,      \* history: the responses that startResponse gave up
    failures,     \* history: how many of its calls failed
    issued        \* history: the actions stored by any head

machineVars == <<cached, onDisk, isEmpty, minHeight, gaps, head, storedHead, anchor,
                 prevEmitted, emitting>>
actionVars  == <<actionStore, running, issued>>
queueVars   == <<queue, storedQueue, answered, refused, failures>>

(* Two states without items: the block has no anchor state, and it has one  *)
(* read from disk, whose Map became a plain object.                         *)
NoState == [number |-> -1, items |-> <<>>]
Stale   == [number |-> -2, items |-> <<>>]

Idle == [head |-> NoBlock, actions |-> {}, pc |-> "idle"]

-----------------------------------------------------------------------------
(* The state of an appointment: the number of the block its event was       *)
(* observed in, or Watching                                                 *)

Watching == -1
NoItem   == -2
Observed(item) == item >= 0

(* findAncestor stops where the parent is not in the cache. *)
CachedAncestry(b) ==
    LET up[x \in Block] == {x} \cup (IF Parent[x] \in cached THEN up[Parent[x]] ELSE {})
    IN  up[b]

HasEvent(b, a) == a.filter \in Logs[b]

(* hasLogMatchingEventFilter calls toLowerCase on each topic of the filter  *)
(* and of the log: it throws at a null topic, which validate admits, and at *)
(* a log with fewer topics.                                                 *)
MatchThrows(b, a) == a.filter \in Unreadable[b] \ Logs[b]

(* getInitialState: the nearest ancestor with the event from the start on. *)
InitialItem(b, a) ==
    LET events == {Number[x] : x \in {y \in CachedAncestry(b) :
                                         HasEvent(y, a) /\ Number[y] >= a.start}}
    IN  IF events = {} THEN Watching
        ELSE CHOOSE n \in events : \A m \in events : m <= n

InitialThrows(b, a) ==
    \E x \in CachedAncestry(b) :
        /\ MatchThrows(x, a) /\ Number[x] >= a.start
        /\ \A y \in CachedAncestry(b) : HasEvent(y, a) => Number[y] < Number[x]

ReduceItem(item, b, a) ==
    IF item = Watching /\ HasEvent(b, a) THEN Number[b] ELSE item

ItemOf(state, a) == IF a \in DOMAIN state.items THEN state.items[a] ELSE NoItem

(* The item in the parent's state; without that state, its initial one. *)
PrevItem(b, a) ==
    IF Parent[b] \notin cached THEN NoItem
    ELSE IF anchor[Parent[b]] = NoState THEN InitialItem(Parent[b], a)
                                       ELSE ItemOf(anchor[Parent[b]], a)

(* Mutation: a new appointment is watched from the block it is first seen in. *)
NewItemNotLookingBack(b, a) ==
    ReduceItem(IF PrevItem(b, a) = NoItem THEN Watching ELSE PrevItem(b, a), b, a)

NewItem(b, a) ==
    IF PrevItem(b, a) = NoItem THEN InitialItem(b, a)
                               ELSE ReduceItem(PrevItem(b, a), b, a)

(* A stale parent state has no items to look up, and any appointment's      *)
(* filter may be one that cannot be compared: reduce throws.                *)
ReduceThrows(b) ==
    \E a \in byId :
        \/ /\ Parent[b] \in cached
           /\ \/ anchor[Parent[b]] = Stale
              \/ anchor[Parent[b]] = NoState /\ InitialThrows(Parent[b], a)
        \/ PrevItem(b, a) = NoItem /\ InitialThrows(b, a)
        \/ PrevItem(b, a) = Watching /\ MatchThrows(b, a)

NewState(b) ==
    [number |-> Number[b],
     items  |-> [a \in byId |-> NewItem(b, a)]]

-----------------------------------------------------------------------------
(* detectChanges *)

(* Mutation: the block of the event does not count. *)
DepthAbove(state, a) == state.number - ItemOf(state, a)

Depth(state, a) == state.number - ItemOf(state, a) + 1

ShouldHaveStartedResponder(state, a) ==
    /\ Observed(ItemOf(state, a))
    /\ Depth(state, a) >= ConfirmationsBeforeResponse

ShouldRemoveObserved(state, a) ==
    /\ Observed(ItemOf(state, a))
    /\ Depth(state, a) >= ConfirmationsBeforeRemoval

(* Mutation: off by one. *)
ShouldRemoveExpiredEarly(state, a) ==
    /\ ItemOf(state, a) = Watching
    /\ state.number - a.end >= ConfirmationsBeforeRemoval

ShouldRemoveExpired(state, a) ==
    /\ ItemOf(state, a) = Watching
    /\ state.number - a.end > ConfirmationsBeforeRemoval

Action(kind, a, observed, at) ==
    [kind |-> kind, app |-> a, observed |-> observed, at |-> at]

Changes(prev, state, h) ==
    {Action("respond", a, ItemOf(state, a), h) :
        a \in {x \in DOMAIN state.items :
                  /\ ~ShouldHaveStartedResponder(prev, x)
                  /\ ShouldHaveStartedResponder(state, x)}}
    \cup
    {Action("remove", a, NoItem, h) :
        a \in {x \in DOMAIN state.items :
                  \/ ~ShouldRemoveObserved(prev, x) /\ ShouldRemoveObserved(state, x)
                  \/ ~ShouldRemoveExpired(prev, x) /\ ShouldRemoveExpired(state, x)}}

(* Its loop throws on a stale state, and on an item whose appointment left  *)
(* the store since the block was processed.                                 *)
DetectThrows(prev, state) ==
    \/ state = Stale
    \/ DOMAIN state.items # {} /\ prev = Stale
    \/ ~(DOMAIN state.items \subseteq byId)

-----------------------------------------------------------------------------
(* Which blocks the cache attaches (BlockCache and BlockProcessor are about *)
(* how they come to it): the first one it is given since the process        *)
(* started, whatever lies between it and the blocks read from disk; after   *)
(* that a block on an attached parent, one at the height of the first, and  *)
(* one that the cascade finds above a block other than its parent.          *)
InCascade(b) == \E x \in cached : Number[x] + 1 = Number[b]

Attachable(b) ==
    \/ isEmpty
    \/ /\ Number[b] >= minHeight
       /\ Parent[b] \in cached \/ Number[b] = minHeight \/ InCascade(b)

NoteGap(b) ==
    gaps' = IF Parent[b] \in cached THEN gaps
            ELSE gaps \cup {IF isEmpty THEN "empty" ELSE "height"}

PrevEmittedBelow(b) == IF Parent[b] \in cached THEN prevEmitted[Parent[b]] ELSE NoState

(* processNewBlock, in the batch of addBlock.  If it throws the block stays *)
(* in the cache in memory, without a state, and the batch is not written.   *)
(* While the service starts the block processor asks for one height only.   *)
ReceiveBlock(b) ==
    /\ phase # "down" /\ emitting = Idle
    /\ phase = "booting" => Number[b] = storedHead
    /\ b \notin cached /\ Attachable(b)
    /\ cached' = cached \cup {b}
    /\ isEmpty' = FALSE
    /\ minHeight' = IF isEmpty THEN Number[b] ELSE minHeight
    /\ NoteGap(b)
    /\ IF ReduceThrows(b)
       THEN UNCHANGED <<onDisk, anchor, prevEmitted>>
       ELSE /\ onDisk' = onDisk \cup {b}
            /\ anchor' = [anchor EXCEPT ![b] = NewState(b)]
            /\ prevEmitted' = [prevEmitted EXCEPT ![b] = PrevEmittedBelow(b)]
    /\ UNCHANGED <<head, storedHead, emitting, phase, actionVars, queueVars, storeVars>>

(* The head's processing up to its first await.  From then on it waits for  *)
(* the write of the actions it detected, for that of its batch, and for     *)
(* that of its number.  The provider announces each height once; that two   *)
(* handlers of the block processor overtake each other is left to           *)
(* BlockProcessor.                                                          *)
Emit(h, actions, pc) == emitting' = [head |-> h, actions |-> actions, pc |-> pc]

NewHead(h) ==
    /\ phase \in {"emitting", "started"} /\ emitting = Idle
    /\ h \in cached /\ Number[h] > Number[head]
    /\ head' = h
    /\ LET state == anchor[h]
           prev  == prevEmitted[h]
       IN  \/ state = NoState /\ Emit(h, {}, "number")
           \/ state # NoState /\ prev = NoState /\ Emit(h, {}, "batch")
           \/ /\ state # NoState /\ prev # NoState
              /\ \/ DetectThrows(prev, state) /\ UNCHANGED emitting
                 \/ /\ ~DetectThrows(prev, state)
                    /\ IF Changes(prev, state, h) = {}
                       THEN Emit(h, {}, "batch")
                       ELSE Emit(h, Changes(prev, state, h), "actions")
    /\ UNCHANGED <<cached, onDisk, isEmpty, minHeight, gaps, storedHead, anchor, prevEmitted,
                   phase, actionVars, queueVars, storeVars>>

(* The actions are stored, and run in the background. *)
StoreActions ==
    /\ emitting.pc = "actions"
    /\ actionStore' = actionStore \cup emitting.actions
    /\ running' = running \cup {[act |-> x, pc |-> "ready"] : x \in emitting.actions}
    /\ issued' = issued \cup emitting.actions
    /\ Emit(emitting.head, {}, "batch")
    /\ UNCHANGED <<cached, onDisk, isEmpty, minHeight, gaps, head, storedHead, anchor,
                   prevEmitted, phase, queueVars, storeVars>>

(* The batch with the state that is now the one emitted last; until its     *)
(* lock is released nobody reads that state.                                *)
WriteEmitted ==
    /\ emitting.pc = "batch"
    /\ prevEmitted' = [prevEmitted EXCEPT ![emitting.head] = anchor[emitting.head]]
    /\ Emit(emitting.head, {}, "number")
    /\ UNCHANGED <<cached, onDisk, isEmpty, minHeight, gaps, head, storedHead, anchor, phase,
                   actionVars, queueVars, storeVars>>

(* setLatestHeadNumber. *)
StoreHeadNumber ==
    /\ emitting.pc = "number"
    /\ storedHead' = Number[emitting.head]
    /\ emitting' = Idle
    /\ UNCHANGED <<cached, onDisk, isEmpty, minHeight, gaps, head, anchor, prevEmitted, phase,
                   actionVars, queueVars, storeVars>>

-----------------------------------------------------------------------------
(* startResponse of the responder logs and forgets a full queue, an         *)
(* estimate that throws, a network that does not tell its gas price and a   *)
(* queue that cannot be written; only for a response it already has it      *)
(* rethrows.                                                                *)
DepthReached == Cardinality(queue) >= MaxQueueDepth
Left(deadline) == deadline - Number[head]
(* Mutation: no response once the deadline passed. *)
GivesUpWhenLate(deadline) ==
    DepthReached \/ EstimateThrows(Left(deadline)) \/ Left(deadline) <= 0
GivesUp(deadline) == DepthReached \/ EstimateThrows(Left(deadline))
AlreadyAdded(a) == \E q \in queue : q.app = a

Forget(a, deadline, why) ==
    refused' = refused \cup {[app |-> a, left |-> Left(deadline), why |-> why]}

Item(a, deadline, price) == [app |-> a, gas |-> Estimate(price, Left(deadline))]

(* updateQueue: the database first, then the memory. *)
Enqueue(a, deadline, price) ==
    /\ queue' = queue \cup {Item(a, deadline, price)}
    /\ storedQueue' = queue'
    /\ answered' = answered \cup {a}
    /\ UNCHANGED <<refused, failures>>

(* getGasPrice rejects before the queue is looked at, the write after it. *)
PriceFails(a, deadline) ==
    /\ failures < MaxFailures /\ ~DepthReached
    /\ failures' = failures + 1
    /\ Forget(a, deadline, "failed")
    /\ UNCHANGED <<queue, storedQueue, answered>>

(* Mutation: the memory has the new queue before it is written. *)
WriteFailsInMemory(a, deadline, price) ==
    /\ failures < MaxFailures /\ ~GivesUp(deadline) /\ ~AlreadyAdded(a)
    /\ failures' = failures + 1
    /\ queue' = queue \cup {Item(a, deadline, price)}
    /\ Forget(a, deadline, "failed")
    /\ UNCHANGED <<storedQueue, answered>>

WriteFails(a, deadline, price) ==
    /\ failures < MaxFailures /\ ~GivesUp(deadline) /\ ~AlreadyAdded(a)
    /\ failures' = failures + 1
    /\ Forget(a, deadline, "failed")
    /\ UNCHANGED <<queue, storedQueue, answered>>

(* All its ways to return without an error. *)
StartResponse(a, deadline, price) ==
    \/ /\ GivesUp(deadline)
       /\ Forget(a, deadline, IF DepthReached THEN "full" ELSE "curve")
       /\ UNCHANGED <<queue, storedQueue, answered, failures>>
    \/ ~GivesUp(deadline) /\ ~AlreadyAdded(a) /\ Enqueue(a, deadline, price)
    \/ PriceFails(a, deadline)
    \/ WriteFails(a, deadline, price)

(* External: the responder's transaction is confirmed, the item leaves.     *)
ResponseConfirmed(q) ==
    /\ queue' = queue \ {q}
    /\ storedQueue' = queue'
    /\ UNCHANGED <<answered, refused, failures, machineVars, phase, actionVars, storeVars>>

-----------------------------------------------------------------------------
(* runActionsForComponent: applyAction, then removeAction; an action that   *)
(* throws is logged and stays in the store until the next start.            *)
SetPc(t, pc) == running' = (running \ {t}) \cup {[t EXCEPT !.pc = pc]}
Throws(t)    == running' = running \ {t}

Respond(t, price) ==
    LET a == t.act.app
        deadline == t.act.observed + a.period
    IN  /\ t.pc = "ready" /\ t.act.kind = "respond"
        /\ \/ ~GivesUp(deadline) /\ AlreadyAdded(a) /\ Throws(t) /\ UNCHANGED queueVars
           \/ StartResponse(a, deadline, price) /\ SetPc(t, "applied")
        /\ UNCHANGED <<actionStore, issued, machineVars, phase, storeVars>>

StartRemoval(t) ==
    /\ t.pc = "ready" /\ t.act.kind = "remove"
    /\ IF t.act.app \in byId
       THEN BeginRemove(t.act, t.act.app) /\ SetPc(t, "removing")
       ELSE SetPc(t, "applied") /\ UNCHANGED storeVars
    /\ UNCHANGED <<actionStore, issued, machineVars, phase, queueVars>>

EndRemoval(t) ==
    /\ t.pc = "removing"
    /\ \E c \in calls :
          /\ c.by = t.act
          /\ FinishRemove(c)
          /\ IF RemoveThrows(c) THEN Throws(t) ELSE SetPc(t, "applied")
    /\ UNCHANGED <<actionStore, issued, machineVars, phase, queueVars>>

RemoveAction(t) ==
    /\ t.pc = "applied"
    /\ actionStore' = actionStore \ {t.act}
    /\ running' = running \ {t}
    /\ UNCHANGED <<issued, machineVars, phase, queueVars, storeVars>>
=============================================================================

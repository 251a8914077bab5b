--------------------------- MODULE MultiResponder ---------------------------
(***************************************************************************)
(* The multi responder with its store and its component                    *)
(* (src/src/responder/{multiResponder,store,component}.ts) over the gas    *)
(* queue, between the watcher, which starts responses, and the network,    *)
(* which mines the transactions and reorganises.                           *)
(*                                                                         *)
(* A call holds the lock of the store from its first to its last access to *)
(* the queue, so what it does to the queue is one action.  What it has to  *)
(* broadcast is sent after the lock is released, in any order.             *)
(***************************************************************************)
EXTENDS GasQueue

CONSTANTS
    Response,       \* the appointments that are responded to
    Price,          \* what the gas price estimator may return
    FirstNonce,     \* the nonce of the first transaction
    Confirmations,  \* confirmationsRequired
    ConfirmationsBeforeResponse,  \* of the watcher
    MaxStarts,      \* bound: how often the watcher starts the same response
    MaxBlocks,      \* bound: the height of the chain
    MaxPerBlock,    \* bound: the responder's transactions in one block
    MaxReorgs,      \* bound: reorganisations
    MaxFailures     \* bound: failed broadcasts, estimates and database writes

ASSUME ResponderAssumption ==
    /\ IsFiniteSet(Response)
    /\ Price \subseteq Nat
    /\ ConfirmationsBeforeResponse \in Nat /\ ConfirmationsBeforeResponse >= 1
    /\ {FirstNonce, Confirmations, MaxStarts, MaxBlocks, MaxPerBlock, MaxReorgs,
        MaxFailures} \subseteq Nat

VARIABLES
    queue,        \* the items of the queue
    emptyNonce,   \* its emptyNonce
    transactions, \* the tracked items, in the order of their insertion
    calls,        \* the calls holding (the first) and waiting for the lock
    outbox,       \* items whose broadcast has not reached the node yet
    chain,        \* external: the blocks, with what the tower knows of them
    sent,         \* external: the transactions that reached the network
    visible,      \* external: the tower sees the chain from this length on
    starts,       \* history: how often each response was started
    issued,       \* history: the items that were ever handed to broadcast
    used,         \* history: the transactions that were ever mined
    crowded,      \* history: some head brought two newly mined transactions
    full,         \* history: the queue had no room for what was to be re-enqueued
    overtaken,    \* history: the responses that were behind the front when mined
    restored,     \* history: some of those was put back into the queue
    reorgs,       \* history: reorganisations so far
    failures      \* history: failures so far

responderVars == <<queue, emptyNonce, transactions>>
networkVars   == <<chain, sent, visible>>
countVars     == <<starts, crowded, full, overtaken, restored, reorgs>>
vars == <<responderVars, calls, outbox, networkVars, countVars, issued, used, failures>>

-----------------------------------------------------------------------------
(* The members of a sequence that are in a set, in their order: SelectSeq   *)
(* without recursion, which can be reasoned about.                          *)
Among(s, S) ==
    LET places == {i \in DOMAIN s : s[i] \in S}
        Nth(k) == CHOOSE i \in places : Cardinality({j \in places : j <= i}) = k
    IN  [k \in 1..Cardinality(places) |-> s[Nth(k)]]

-----------------------------------------------------------------------------
(* The store *)

Tracked == Ids(transactions)

Record(id) == transactions[Position(transactions, id)]

(* Mutation: the record of a known id is not replaced. *)
AddAll(records, changed, items) ==
    records \o SelectSeq(items, LAMBDA item : item.request.id \notin Ids(records))

(* Map.set: a known id keeps its place, a new one goes to the end. *)
SetAll(records, changed, items) ==
    [i \in DOMAIN records |->
        LET new == {c \in changed : c.request.id = records[i].request.id} IN
        IF new = {} THEN records[i] ELSE CHOOSE c \in new : TRUE]
    \o Among(items, {c \in changed : c.request.id \notin Ids(records)})

(* updateQueue: the new items are recorded, and are to be broadcast. *)
UpdateQueue(items, nonce) ==
    LET new == Difference(items, queue) IN
    /\ queue' = items
    /\ emptyNonce' = nonce
    /\ transactions' = SetAll(transactions, new, items)
    /\ outbox' = outbox \cup new
    /\ issued' = issued \cup new

(* The call at the front of the lock returns, or throws, without an update. *)
NoUpdate == UNCHANGED <<responderVars, outbox, issued>>

-----------------------------------------------------------------------------
(* The calls.  Each takes the place of the lock's next owner. *)

StartCall(r, block) == [op |-> "startResponse", id |-> r, observed |-> block]
MinedCall(r, nonce) == [op |-> "txMined", id |-> r, nonce |-> nonce]
ReEnqueueCall(ids)  == [op |-> "reEnqueueMissingItems", ids |-> ids]
EndCall(r)          == [op |-> "endResponse", id |-> r]

Call == Head(calls)
Owner(op) == calls # <<>> /\ Call.op = op

Served ==
    /\ calls' = Tail(calls)
    /\ UNCHANGED <<networkVars, starts, crowded, reorgs, used, failures>>

(* The watcher starts a response, when the block in which it observed the  *)
(* event has enough confirmations; again, when a reorganisation shows it    *)
(* the event again.                                                         *)
WatcherStarts(r, block) ==
    /\ starts[r] < MaxStarts
    /\ chain[Len(chain)].emitted
    /\ Len(chain) - block + 1 >= ConfirmationsBeforeResponse
    /\ starts' = [starts EXCEPT ![r] = @ + 1]
    /\ calls' = Append(calls, StartCall(r, block))
    /\ UNCHANGED <<responderVars, outbox, networkVars, issued, used, crowded, full,
                   overtaken, restored, reorgs, failures>>

(* startResponse adds the response at the estimated price; it throws when  *)
(* the queue is full or holds the response already.                         *)
StartResponse(price) ==
    /\ Owner("startResponse")
    /\ LET request == [id |-> Call.id, ideal |-> price, observed |-> Call.observed]
           added   == Add(queue, emptyNonce, request)
       IN  IF ~DepthReached(queue) /\ WellFormed(added, emptyNonce + 1)
           THEN UpdateQueue(added, emptyNonce + 1)
           ELSE NoUpdate
    /\ UNCHANGED <<full, overtaken, restored>>
    /\ Served

(* txMined removes the response from the queue; it throws when the response *)
(* is not there, or was mined at another nonce than the front one.          *)
TxMined ==
    /\ Owner("txMined")
    /\ IF ~Contains(queue, Call.id) \/ queue[1].nonce # Call.nonce
       THEN NoUpdate /\ UNCHANGED overtaken
       ELSE IF queue[1].request.id = Call.id
       THEN UpdateQueue(Dequeue(queue), emptyNonce) /\ UNCHANGED overtaken
       ELSE /\ UpdateQueue(Consume(queue, Call.id), emptyNonce)
            /\ overtaken' = overtaken \cup {Call.id}
    /\ UNCHANGED <<full, restored>>
    /\ Served

(* Mutation: the missing items are put in front of the queue as they are. *)
ReEnqueueInFront ==
    /\ Owner("reEnqueueMissingItems")
    /\ LET unknown == {i \in DOMAIN Call.ids : Call.ids[i] \notin Tracked}
           missing == SelectSeq(Call.ids, LAMBDA id : ~Contains(queue, id))
           items   == [i \in DOMAIN missing |-> Record(missing[i])] \o queue
       IN  IF unknown = {} /\ missing # <<>> /\ Len(items) <= MaxQueueDepth
           THEN UpdateQueue(items, emptyNonce)
           ELSE NoUpdate
    /\ UNCHANGED <<full, overtaken, restored>>
    /\ Served

(* reEnqueueMissingItems prepends the records of the pending responses that *)
(* the queue lacks; it throws when there is no record, or when what it      *)
(* makes of them is no queue.                                               *)
ReEnqueueMissingItems ==
    /\ Owner("reEnqueueMissingItems")
    /\ LET missing   == Among(Call.ids, Response \ Ids(queue))
           items     == [i \in DOMAIN missing |-> Record(missing[i])]
           prepended == Prepend(queue, items)
       IN  /\ IF /\ \A i \in DOMAIN Call.ids : Call.ids[i] \in Tracked
                 /\ missing # <<>>
                 /\ WellFormed(prepended, emptyNonce)
              THEN /\ UpdateQueue(prepended, emptyNonce)
                   /\ restored' = (restored \/ \E i \in DOMAIN missing :
                                                  missing[i] \in overtaken)
              ELSE NoUpdate /\ UNCHANGED restored
           /\ full' = \/ full
                      \/ missing # <<>> /\ Len(missing) + Len(queue) > MaxQueueDepth
    /\ UNCHANGED overtaken
    /\ Served

(* endResponse: removeResponse of the store *)
EndResponse ==
    /\ Owner("endResponse")
    /\ transactions' = Among(transactions, {Record(id) : id \in Tracked \ {Call.id}})
    /\ UNCHANGED <<queue, emptyNonce, outbox, issued, full, overtaken, restored>>
    /\ Served

(* The estimate, or the write of the store, fails: the error is logged. *)
CallFails ==
    /\ calls # <<>>
    /\ failures < MaxFailures
    /\ failures' = failures + 1
    /\ calls' = Tail(calls)
    /\ NoUpdate
    /\ UNCHANGED <<networkVars, countVars, used>>

-----------------------------------------------------------------------------
(* Broadcasts *)

Broadcast(item) ==
    /\ item \in outbox
    /\ outbox' = outbox \ {item}
    /\ sent' = sent \cup {[id |-> item.request.id, nonce |-> item.nonce]}
    /\ UNCHANGED <<responderVars, calls, chain, visible, countVars, issued, used,
                   failures>>

(* sendTransaction throws: the error is logged. *)
BroadcastFails(item) ==
    /\ item \in outbox
    /\ failures < MaxFailures
    /\ failures' = failures + 1
    /\ outbox' = outbox \ {item}
    /\ UNCHANGED <<responderVars, calls, networkVars, countVars, issued, used>>

-----------------------------------------------------------------------------
(* The network (external) *)

Mined == UNION {{chain[b].txs[i] : i \in DOMAIN chain[b].txs} : b \in DOMAIN chain}

MinedIds == {tx.id : tx \in Mined}

NextNonce == FirstNonce + Cardinality(Mined)

(* Blocks are mined with transactions of consecutive nonces, whichever of  *)
(* those that were sent with a nonce.                                       *)
Mine(txs) ==
    /\ Len(chain) < MaxBlocks
    /\ \A i \in DOMAIN txs : txs[i] \in sent /\ txs[i].nonce = NextNonce + i - 1
    /\ chain' = Append(chain, [txs |-> txs, state |-> <<>>, known |-> FALSE,
                               emitted |-> FALSE])
    /\ used' = used \cup {txs[i] : i \in DOMAIN txs}
    /\ UNCHANGED <<responderVars, calls, outbox, sent, visible, starts, crowded,
                   full, overtaken, restored, reorgs, issued, failures>>

(* The last blocks are given up for a branch that will be longer.  The     *)
(* branches that are given up are no deeper than the confirmations waited  *)
(* for, which are the maximum reorganisation limit of the configuration.    *)
Reorg(depth) ==
    /\ reorgs < MaxReorgs
    /\ Len(chain) < MaxBlocks
    /\ depth < Len(chain)
    /\ visible - 1 - (Len(chain) - depth) <= Confirmations
    /\ reorgs' = reorgs + 1
    /\ chain' = SubSeq(chain, 1, Len(chain) - depth)
    /\ visible' = IF visible > Len(chain) THEN visible ELSE Len(chain) + 1
    /\ UNCHANGED <<responderVars, calls, outbox, sent, starts, crowded, full,
                   overtaken, restored, issued, used, failures>>

-----------------------------------------------------------------------------
(* The component: the state of the tracked responses at each block *)

(* txIdentifierInBlock: the first transaction of the response in a block *)
Find(r, b) ==
    LET at == {i \in DOMAIN chain[b].txs : chain[b].txs[i].id = r} IN
    IF at = {} THEN {}
    ELSE {[id |-> r, mined |-> TRUE, block |-> b,
           nonce |-> chain[b].txs[CHOOSE i \in at : \A j \in at : i <= j].nonce]}

Pending(r) == [id |-> r, mined |-> FALSE, block |-> 0, nonce |-> 0]

(* Mutation: the blocks of the branch are not looked at. *)
InitiallyPending(r, b) == Pending(r)

(* getInitialState: the last block of the branch with the transaction, not *)
(* below the block in which the event was observed                          *)
InitialState(r, b) ==
    LET found == UNION {Find(r, a) : a \in Record(r).request.observed..b} IN
    IF found = {} THEN Pending(r)
    ELSE CHOOSE s \in found : \A t \in found : t.block <= s.block

(* reduce: from the state at the parent, if the response was in it *)
StateAt(r, b) ==
    LET before == IF b > 1 THEN {chain[b-1].state[i] : i \in DOMAIN chain[b-1].state}
                           ELSE {}
        mine   == {s \in before : s.id = r}
        prev   == CHOOSE s \in mine : TRUE
    IN  IF mine = {} THEN InitialState(r, b)
        ELSE IF prev.mined \/ Find(r, b) = {} THEN prev
        ELSE CHOOSE s \in Find(r, b) : TRUE

Unknown == {b \in DOMAIN chain : ~chain[b].known}

(* processNewBlock, for the oldest block the tower does not know *)
NewBlock ==
    /\ Len(chain) >= visible
    /\ \E b \in Unknown :
        /\ \A a \in Unknown : b <= a
        /\ chain' = [chain EXCEPT
               ![b].known = TRUE,
               ![b].state = [i \in DOMAIN transactions |->
                                StateAt(transactions[i].request.id, b)]]
    /\ UNCHANGED <<responderVars, calls, outbox, sent, visible, countVars, issued, used,
                   failures>>

(* The state of the closest ancestor that was emitted as a head.  The code  *)
(* copies it from the parent when the block is processed; nothing can be    *)
(* emitted in between here, where a head is always the end of the chain, so *)
(* the copy is the same.  Heads that come late are left to BlockProcessor.  *)
EmittedBefore(b) == {a \in 1..(b - 1) : chain[a].emitted}
PrevEmitted(b) ==
    CHOOSE a \in EmittedBefore(b) : \A c \in EmittedBefore(b) : c <= a

Entry(b, r) == {s \in {chain[b].state[i] : i \in DOMAIN chain[b].state} : s.id = r}

HasBeenMined(b, r) == \E s \in Entry(b, r) : s.mined

(* Mutation: the confirmations are not waited for. *)
ShouldBeRemovedAtOnce(b, r) == HasBeenMined(b, r)

ShouldBeRemoved(b, r) == \E s \in Entry(b, r) : s.mined /\ b - s.block > Confirmations

NewlyMined(a, b) ==
    {i \in DOMAIN chain[b].state : chain[b].state[i].mined
                                   /\ ~HasBeenMined(a, chain[b].state[i].id)}

(* detectChanges between the states of two blocks *)
DetectChanges(a, b) ==
    LET state   == chain[b].state
        Nothing == [op |-> "nothing"]
        pending == Among(state, {Pending(r) : r \in Response})
        requeue == IF pending = <<>> THEN Nothing
                   ELSE ReEnqueueCall([i \in DOMAIN pending |-> pending[i].id])
        mined(i) == IF i \notin NewlyMined(a, b) THEN Nothing
                    ELSE MinedCall(state[i].id, state[i].nonce)
        ended(i) == IF ShouldBeRemoved(b, state[i].id)
                       /\ ~ShouldBeRemoved(a, state[i].id)
                    THEN EndCall(state[i].id) ELSE Nothing
        ofEach  == [k \in 1..(2 * Len(state)) |->
                       IF k % 2 = 1 THEN mined((k + 1) \div 2) ELSE ended(k \div 2)]
        all     == <<requeue>> \o ofEach
    IN  Among(all, {all[k] : k \in DOMAIN all} \ {Nothing})

(* processNewHead: the actions of the component all ask for the lock. *)
NewHead ==
    /\ Len(chain) >= visible
    /\ LET head == Len(chain) IN
        /\ chain[head].known /\ ~chain[head].emitted
        /\ chain' = [chain EXCEPT ![head].emitted = TRUE]
        /\ calls' = calls \o DetectChanges(PrevEmitted(head), head)
        /\ crowded' = (crowded \/ Cardinality(NewlyMined(PrevEmitted(head), head)) > 1)
    /\ UNCHANGED <<responderVars, outbox, sent, visible, starts, full, overtaken,
                   restored, reorgs, issued, used, failures>>

-----------------------------------------------------------------------------
Init ==
    /\ queue = <<>>
    /\ emptyNonce = FirstNonce
    /\ transactions = <<>>
    /\ calls = <<>>
    /\ outbox = {}
    /\ chain = <<[txs |-> <<>>, state |-> <<>>, known |-> TRUE, emitted |-> TRUE]>>
    /\ sent = {}
    /\ visible = 0
    /\ starts = [r \in Response |-> 0]
    /\ issued = {}
    /\ used = {}
    /\ crowded = FALSE
    /\ full = FALSE
    /\ overtaken = {}
    /\ restored = FALSE
    /\ reorgs = 0
    /\ failures = 0

Serve ==
    \/ \E price \in Price : StartResponse(price)
    \/ TxMined
    \/ ReEnqueueMissingItems
    \/ EndResponse

Next ==
    \/ \E r \in Response, block \in 1..Len(chain) : WatcherStarts(r, block)
    \/ Serve
    \/ CallFails
    \/ \E item \in outbox : Broadcast(item) \/ BroadcastFails(item)
    \/ \E n \in 0..MaxPerBlock : \E txs \in [1..n -> sent] : Mine(txs)
    \/ \E depth \in 1..Confirmations : Reorg(depth)
    \/ NewBlock
    \/ NewHead

Spec == Init /\ [][Next]_vars

-----------------------------------------------------------------------------
(* Properties *)

Requests == [id : Response, ideal : Price, observed : Nat]
Items    == [request : Requests, price : Nat, nonce : Nat]

(* Every field has the values the code gives it; the queue is one that its *)
(* constructor accepts.                                                     *)
TypeOK ==
    /\ queue \in Seq(Items)
    /\ emptyNonce \in Nat
    /\ WellFormed(queue, emptyNonce)
    /\ transactions \in Seq(Items)
    /\ NothingTwice(transactions)
    /\ outbox \subseteq issued /\ issued \subseteq Items
    /\ sent \subseteq [id : Response, nonce : Nat]
    /\ starts \in [Response -> 0..MaxStarts]

(* The tower has seen the head, and has nothing left to do about it. *)
Settled ==
    /\ calls = <<>> /\ outbox = {}
    /\ Len(chain) >= visible
    /\ chain[Len(chain)].emitted

(* gasQueue.ts:206-211: whatever is issued at a nonce that was issued       *)
(* before tops each earlier transaction at this nonce by the replacement    *)
(* rate, however the queue was rearranged: the nodes refuse it otherwise.   *)
(* The record of an overtaken response keeps the nonce of a place behind    *)
(* the front, which others move to: put back with it after a                *)
(* reorganisation, its price says nothing of what was issued there since.   *)
ReplacedAtHigherPrice ==
    [][~restored' =>
          \A new \in issued' \ issued, old \in issued :
              new.nonce = old.nonce
                  => 100 * new.price >= (100 + ReplacementRate) * old.price]_vars

(* A response leaves the queue only if a transaction of it was mined,      *)
(* whatever is replaced, reorganised, refused or started again.             *)
LeavesQueueOnlyMined ==
    [][\A r \in Ids(queue) \ Ids(queue') : \E tx \in used : tx.id = r]_vars

(* A nonce is given up only when it was used: a gap would keep every later *)
(* transaction of the account from being mined.                             *)
NoNonceGap ==
    \A n \in FirstNonce..(emptyNonce - 1) :
        \/ \E i \in DOMAIN queue : queue[i].nonce = n
        \/ \E tx \in used : tx.nonce = n

(* The record of a queued response, from which it is re-enqueued after a   *)
(* reorganisation, is its item in the queue.                                *)
QueuedIsRecorded ==
    \A i \in DOMAIN queue :
        queue[i].request.id \in Tracked => Record(queue[i].request.id) = queue[i]

(* endResponse forgets a response only while its transaction is mined, and *)
(* so deep that no reorganisation can undo it.                              *)
ForgottenOnlyWhenMined ==
    [][\A r \in Tracked \ Tracked' : r \in MinedIds]_vars

(* Nothing in the queue waits for a transaction the network never got.     *)
QueuedIsSent ==
    Settled /\ failures = 0 =>
        \A i \in DOMAIN queue :
            [id |-> queue[i].request.id, nonce |-> queue[i].nonce] \in sent

(* What the queue does not survive: two responses noticed by one head, a   *)
(* response started twice, or mined at two nonces, be it on two branches,   *)
(* after which those between have no place to be put back to; a             *)
(* reorganisation after an overtaken response, below a block in which an    *)
(* event was observed, or giving back more than the queue has room for; and *)
(* a failure.                                                               *)
Undisturbed ==
    /\ Confirmations <= ConfirmationsBeforeResponse
    /\ ~crowded /\ ~full /\ failures = 0
    /\ \A t, u \in used : t.id = u.id => t = u
    /\ \A r \in Response : starts[r] <= 1
    /\ reorgs = 0 \/ overtaken = {}

(* Once it has seen the head, the queue holds exactly the responses that   *)
(* are not mined on its branch, and its front has the nonce that is next.   *)
QueueMirrorsChain ==
    Settled /\ Undisturbed =>
        /\ \A r \in Tracked : Contains(queue, r) <=> r \notin MinedIds
        /\ queue # <<>> => queue[1].nonce = NextNonce

-----------------------------------------------------------------------------
(* What comments of the code say, and the component does not keep *)

(* multiResponder.ts:120-123: a queued transaction that was mined has the  *)
(* nonce of the front of the queue, since they come in the order of mining. *)
MinedInOrder ==
    Owner("txMined") /\ Contains(queue, Call.id) => queue[1].nonce = Call.nonce

(* multiResponder.ts:178-182: the responses that are still pending are in  *)
(* the mempool or mined; for those that are not, transactions are issued.   *)
ReissuedIfMissing ==
    [][Owner("reEnqueueMissingItems") /\ calls' = Tail(calls) /\ failures' = failures
       => \A i \in DOMAIN Call.ids :
             \/ \E tx \in sent : tx.id = Call.ids[i]
             \/ \E item \in outbox' : item.request.id = Call.ids[i]]_vars
=============================================================================

# PISA: a verification development

PISA is a watchtower for state channels. A customer hands it an *appointment*; the tower watches
the chain for the event the appointment names and, when the event is mined, sends the response
transaction and keeps re-sending it, at a growing gas price, until it is confirmed. This directory
holds TLA+ models of the tower's own logic and of its contracts, the TLC runs that check them on small instances, and
TLAPS proofs of the properties that matter most.

Paths below are relative to the repository. Everything is translated from the code; where a
comment of the code disagrees with it the disagreement is a run that TLC refutes (see *Where code
and comments disagree*).

## Inventory

The tower is one Node.js process: everything below is single-threaded, and interleaving happens
only at an `await`. What makes it hard is that almost every operation awaits something: the
provider, the database, a lock, or the listeners of an event.

| Component | State | Operations | What makes it hard | What makes it correct |
|---|---|---|---|---|
| **Block item store** `dataEntities/block.ts` | blocks, `attached` flags and anchor states in memory; the database; one open batch | `withBatch`, put, delete at height, load at start | the memory changes at once, the disk only when the batch is written; a batch can be dropped | disk is always a state a restart can go on from |
| **Block cache** `blockMonitor/blockCache.ts` | attached and detached blocks, `pruneHeight`, `maxHeight`, head, `isEmpty` | `addBlock`, `setHead`, `head`, `ancestry` | blocks arrive in any order, with forks; attaching one can attach others, move `minHeight` and prune; listeners are awaited in between | parents before children, one announcement per block, bounded depth, nothing attachable left behind |
| **Block processor** `blockMonitor/blockProcessor.ts` | calls in flight, `lastBlockHashReceived`, a lock, the stored head number | start, `processBlockNumber`, `processNewHead`, stop | the provider's event does not wait: calls overlap, answers overtake each other, fetches fail, the chain forks meanwhile | new head after its ancestors' new blocks; the head follows the tip; the stored head is on disk |
| **Blockchain machine**, components, **action store** `blockMonitor/{blockchainMachine,component,actionStore}.ts` | an anchor state per block and component, the previously emitted one, stored actions | `processNewBlock`, `processNewHead`, run, remove and reload actions | anchor states are functions of the branch, actions of the difference between two heads; a crash between an action's effect and its removal | the state of a block is the fold of its branch; every action is run at least once |
| **Multi responder**, **responder store**, **gas queue** `responder/{multiResponder,store,gasQueue}.ts` | a queue of (request, nonce, gas price), the transactions being tracked, both in memory and on disk | `startResponse`, `txMined`, `reEnqueueMissingItems`, `endResponse`, broadcast | replacing a transaction reuses its nonce at a higher price, and the *replaced* one may be mined; reorganisations bring back old nonces; errors are swallowed | queue ordered by price and nonce, one nonce per transaction, no response forgotten |
| **Responder component** `responder/component.ts` | pending or mined, per tracked transaction and block | `reduce`, `getInitialState`, `detectChanges`, `applyAction` | its actions run in parallel and in no fixed order | a transaction is dropped only after enough confirmations |
| **Gas price estimator** `responder/gasPriceEstimator.ts` | none | `estimate` | two points of an exponential curve may coincide | price grows towards the deadline |
| **Watcher** `watcher/watcher.ts` | watching or observed, per appointment and block | as the responder component | appointment read from the store for a state of an earlier block | a response for every observed event; removal only after confirmations |
| **Appointment store** `watcher/store.ts` | three indexes and the disk | `addOrUpdateByLocator`, `removeById`, load | updates and removals interleave at the database's awaits | indexes and disk agree; nonces only grow |
| **Tower, service** `tower.ts`, `service.ts`, `startUp.ts` | the services and their order | `addAppointment`, start, stop | stores are loaded after the processor has started | receipts only for stored appointments |
| **Locks, events, services** `utils/{lock,event}.ts`, `dataEntities/startStop.ts` | owner and waiters; listeners; started flag | acquire, release, `withLock`, emit, start, stop | release after a failed acquire | mutual exclusion, first come first served |
| **Contracts** `sol/contracts/*.sol` | appointments' records, deposits, shards of the data registry | respond, recourse, refund, deposit, withdraw, forfeit, shard reset | windows of blocks, in any order of calls | a customer is refunded or recoursed at most once |
| **Client, configuration, logging, parsing** | none | - | - | - |

How they interact: the provider's `block` event calls the block processor; it adds blocks to the
block cache under `blockItemStoreLock` and inside the item store's `withBatch`; the cache awaits
the listeners of `newBlock`, which is how the blockchain machine computes and stores anchor states
in the same batch; when the processor decides on a new head it awaits the listeners of `newHead`
the same way, and the machine compares the anchor state with the previously emitted one, stores
the resulting actions and runs them in the background; the actions of the watcher call
`startResponse`, those of the responder component call the other operations of the multi
responder, which signs and broadcasts transactions.

## Modules

| Module | Models |
|---|---|
| `BlockCache` | the block cache over the block item store, step by step inside `addBlock` |
| `MCBlockCache` | a block tree with two forks for it |
| `BlockCacheProofs` | its inductive invariant and theorems |
| `BlockProcessor` | the block processor, its store, the lock and the service's life, composed with `BlockCache` by `INSTANCE` |
| `MCBlockProcessor` | chains and forks for it |
| `BlockProcessorProofs` | the lock keeps the calls' batches apart; heads, stored head and walks |
| `GasQueue` | the operations of the gas queue, as operators on sequences of items |
| `GasQueueProofs` | what these operations make of a well formed queue |
| `MultiResponder` | the multi responder, its store and its component over `GasQueue`, with the network |
| `MCMultiResponder` | two responses for it |
| `MultiResponderProofs` | the responder's inductive invariant and theorems |
| `AppointmentRegister` | what the appointment store promises: the abstract specification |
| `AppointmentStore` | the appointment store: its database, its indexes, its lock, each call cut at its awaits |
| `AppointmentStoreProofs` | its inductive invariant; the store implements the register |
| `AppointmentIndexProofs` | indexes and database agree |
| `GasPriceEstimator` | what `estimate` returns and where it throws |
| `Watcher` | the watcher, run by the blockchain machine and the action store, over `AppointmentStore` and `GasPriceEstimator` |
| `Tower` | the tower and the service: API, start order, stop and restart, over `Watcher` |
| `MCTower` | a chain with a fork, two appointments at one locator and a relay transaction for it |
| `TowerProofs` | the tower's inductive invariants and theorems |
| `DataRegistry` | the shards of the contract that keeps responses |
| `PISAHash` | the arbitration contract over `DataRegistry` |
| `MCPISAHash` | three appointments of two customers for it |
| `PISAHashProofs` | the contract's theorems |

### BlockCache

| Variables | Code |
|---|---|
| `item`, `batch`, `disk` | the items of the store in memory (`absent`, `detached`, `attached`), `mBatch`, the database |
| `isEmpty`, `pruneHeight`, `maxHeight`, `headHash` | the cache's fields |
| `stage`, `level`, `todo`, `emitting`, `prevMinHeight`, `addResult` | where the `addBlock` in progress is: its recursion is flattened into the height it works on |
| `emitted`, `loaded`, `misplaced`, `rejections`, `restarts` | history, used by properties and bounds only; `misplaced` is set when the cascade attaches a block that `canAttachBlock` would refuse |

`addBlock` is the actions `AddBlockRefused`, `AddBlockAttached` and `AddBlockDetached` (up to the
first `await`), then `EmitNewBlock` (the listeners of `newBlock`), `MarkDetached` (the loop of
`processDetached`), `UpdateMaxHeightAndPrune`, `ScanLevel` (the recursive call for the next
height), `SettleAtMinHeight` (the loop of `processDetachedBlocksAtMinHeight`) and `WriteBatch`.
`RejectBatch` is a listener that throws or a write that fails, and `Restart` a crash at any step
followed by a new process that loads the disk. `SetHead` may happen between any two steps, because
`setHead` does not take the lock. A block is put and its children attached in one tree of block
hashes; transactions and logs of blocks are abstracted away, since nothing here reads them.

`MinHeight` is `NaN` in the code while `pruneHeight` is undefined, that is while the cache is
empty; no number is below it, which is the `~isEmpty` of `TooLow`.

### BlockProcessor

The processor's calls of `processBlockNumber` are `call[h]`, for `h` in `Handler`; `pc` names the
`await` the call is at: `fetch` (`getBlockRemote` by number is sent), `answered` (the node has
answered, the answer has not arrived), `parent` (by hash), `lock` (in the lock's queue), `adding`
(inside `addBlock`), `head` (waiting to emit the new head), `store` (waiting for
`setLatestHeadNumber`). A request by number is answered by the chain of that instant, so an answer
can be overtaken by a reorganisation or by another call. `lock` is the FIFO queue of
`blockItemStoreLock`. `BeginBatch` is the top of the do-while loop, evaluated with the head of that
instant.

The provider and the network are external: `NewTip` lets the chain grow or be replaced by a longer
fork, and the provider emits its latest number first and then each number after it, as ethers does.

`BlockProcessor` instantiates `BlockCache` with its own variables and calls its actions. That they are
called one `addBlock` at a time, as `BlockCache` has it, is the work of the lock: `LockKeepsBatchesApart`
says that a call is in the lock's queue exactly while it needs the lock, on every path through walks,
batches, heads and errors, that only the owner adds a block, and that no block is added while a
new head is delivered. `RejectAdd` includes a listener that throws during the start: the machine starts, and
listens, before the processor does (`service.ts:150-151`). `Restart` is
the cache's, with the processor's memory lost as well. `newHeads`, `seen`, `failures`, `rejected` (a
batch was rejected, in this run of the process or before) and `overtaken` (the provider's answer to a call
arrived after the answer for a later number) are history. `ProcessorAssumption` says that
the blocks shown go down to the height of `FirstTip`, the latest block when the tower first starts: the
provider can answer for every height the processor asks for.

### GasQueue and MultiResponder

A queue is an immutable value of the code; `GasQueue` has an operator for each of its methods, which
returns the items of the queue the code constructs. The constructor's checks are `WellFormed`: where
the code may throw, the model tests it, and `GasQueueProofs` shows where it cannot. `Sorted` is
`Array.sort`, stable as it is for up to ten elements on the Node version of the repository; the
service's queue holds at most 13.

| Variables | Code |
|---|---|
| `queue`, `emptyNonce`, `transactions` | `mQueue` and `mTransactions` of the responder store; `transactions` is a sequence because the order of the map decides the order of the component's actions |
| `calls` | the holder of the store's lock (the first) and its waiters: every call of the multi responder |
| `outbox` | items whose broadcast was started, in no order, after the lock was released |
| `chain` | the current branch: each block with the responder's transactions in it, the component's anchor state at it, whether the tower has processed it and whether it was emitted as a head |
| `sent`, `visible` | the transactions the network has; the length from which the node reports a new branch |
| `starts`, `issued`, `used`, `crowded`, `full`, `overtaken`, `restored`, `reorgs`, `failures` | history, used by properties and bounds only; `overtaken` is the set of responses that were mined from behind the front, `restored` says that one of them was put back |

`StartResponse`, `TxMined`, `ReEnqueueMissingItems` and `EndResponse` are the calls, each under the
lock as in the code, including the store's `updateQueue`: the difference to the old queue is
recorded and handed to broadcast. `CallFails` is an error thrown inside: it is logged and nothing
changed, because the memory is changed after the database; here both are one variable, and `Watcher` has
them apart (`queue` and `storedQueue`, compared by `OneQueue`). `NewBlock` and `NewHead` are
the blockchain machine for this component: `StateAt` is `reduce`, `InitialState` is
`getInitialState` with its search down to `blockObserved`, `DetectChanges` is the code's loop, in
the order of the map, and the actions it finds ask for the lock in that order. The watcher may start
a response at any emitted head whose event is `ConfirmationsBeforeResponse` deep. A head is compared
with the closest emitted block below it, which is what `prevEmittedAnchorState` was copied from: heads are
always the end of the chain here, so nothing is emitted between the processing of a block and that of its
head. `Mine` and `Reorg` are external: a block takes transactions with consecutive nonces from all that were ever sent,
replaced ones included, and a reorganisation drops blocks and is seen when the new branch is longer.

`Among`, the members of a sequence that are in a set, is the code's filter; it is written without
recursion, so that it can be reasoned about.

Restarts are not in this model: those of the blockchain machine are in `Tower`, and so is the start of the
responder's store; that the stored queue is broadcast again at the start is not modelled.

### AppointmentStore

| Variables | Code |
|---|---|
| `disk` | the records of the database |
| `byId`, `byLocator`, `byCustomer` | the three maps |
| `locks` | `stateLocatorLockManager`: for each locator, the owner and then the waiters |
| `calls` | the calls in progress; `pc` names the `await` a call is at, `current` is the appointment an update found under the lock |
| `loaded` | `startInternal` has read the database |
| `taken` | history: what was ever written |

An update is `BeginAdd` (it queues for the lock), `EnterAdd` (the check of the nonce under the lock,
which may throw and then releases it), `WriteAdd` (the batch) and `FinishAdd` (the maps). A removal
is `BeginRemove`, `DeleteRecord`, `DeleteById` (which queues for the lock) and `FinishRemove`: it
writes the database *before* it has the lock, which is what makes the agreement of the maps with the
database worth proving. `Crash` may come between any two steps. An appointment is identified by
customer, identifier and nonce; one that was taken is not offered again:
while it is held its nonce is too low, and when the watcher removes it, after 100 confirmations
(`service.ts:100`), its start block is older than the 20 + 3 blocks that `validate` allows.

`AppointmentRegister` has one variable, the nonce kept at each locator, and two actions, `Put` and
`Drop`. The refinement maps it to `disk`: what the store promises is what a restart finds.

### Watcher and Tower

| Variables | Code |
|---|---|
| `cached`, `onDisk`, `head`, `storedHead` | the attached blocks of the cache, those whose batch was written, the cache's head, the number in `BlockProcessorStore` |
| `anchor`, `prevEmitted` | `anchorState` and `prevEmittedAnchorState` of the block item store for the watcher; `NoState` where there is none, `Stale` for one read from disk |
| `isEmpty`, `minHeight` | the cache's `isEmpty`, and the height of the first block it was given since the process started |
| `emitting` | the head being processed and the `await` it is at: the actions' write, its batch, its number |
| `actionStore`, `running` | the database of the action store; the actions run in the background |
| `phase` | the service: `down`, `booting` (the machine has started), `emitting` (the block processor has), `started` (the responder's store, the last) |
| `queue`, `storedQueue` | the responder's queue in memory and in its database, as far as the watcher sees it: what is in it and at which price |
| `answered`, `confirmed`, `refused`, `failures`, `issued`, `signed`, `restarts` | history, used by properties and bounds only |
| `gaps` | history: how blocks came to lie off their parents (`empty`, `height`, `torn`: see *Premises*) |

`ReceiveBlock` is `processNewBlock` inside the batch of `addBlock`: `NewItem` is the mapped reducer,
`InitialItem` the watcher's `getInitialState` with `findAncestor`, `ReduceItem` its `reduce`. If any
of them throws the block stays in memory without a state and nothing is written. A block may come
without its parent (`Attachable`): as the first one after a restart, since the reopened cache counts as
empty; at the height of that one; or by the cascade. Its state is then the initial one, and its search
stops there. `NewHead` is `processNewHead` up to its first `await`; `StoreActions` (the actions, which
then run), `WriteEmitted` (the batch in which `prevEmittedAnchorState` is set) and `StoreHeadNumber`
are the writes that follow, and the process may stop between any two of them. `StartResponse` is the
responder's, with all its ways to return without an error: a full queue, an estimate that throws, a gas
price the provider does not give (`PriceFails`) and a write that fails (`WriteFails`). `Respond`,
`StartRemoval`, `EndRemoval` and `RemoveAction` are `runActionsForComponent` with `applyAction`. They interleave with later blocks and
with the API: `AddToWatch` and `AddRelay` are `addAppointment`, `Validate` the checks that refer to
the chain.

`Stop` is a crash at any point; a graceful stop waits for nothing that is in progress, so it is one
of the cases. `StaleOf` is what JSON leaves of an anchor state: its `items`, a `Map`, have become
a plain object. `StartMachine`, `StartProcessor`, `StartStore` and `StartResponderStore` are
`startInternal` of the service
in its order: when the stored actions are run, the appointment store is still empty, and a stored
response has an appointment without `encodeForResponse`; and from `StartProcessor` to
`StartResponderStore` the watcher's responses go to an empty queue.

Abstractions. The cache is not pruned, each block of a cascade is a step of its own, and how a block comes
to be attached off its parent is left to `BlockCache` and `BlockProcessor`: `Attachable` allows every
block one of their cases would; the number of
the head grows, and the start does not fail (`BlockProcessor` has handlers that overtake each other and
a start that fails). Of the writes, those of a block's batch and of the responder's queue may fail; those of
the appointments, of the actions and of the head's number do not. The watcher is alone in the machine; with the responder component beside it, an error
of one would also skip the other. Reading the appointments at the start is one step. `Unreadable` says
which filters cannot be compared with a log of a block, because a topic is null or missing.

### DataRegistry and PISAHash

| Variables | Code |
|---|---|
| `block`, `shards` | `block.number`; `datashards`, each with its creation block and its records |
| `watchers`, `modes`, `cheated`, `refunds`, `pendingrefunds`, `flag`, `frozen` | the contract's state of the same name |
| `balance` | the ether the contract holds |
| `responses`, `recourses`, `disorder` | history, used by properties only |

One action for each function: `Respond`, `Recourse`, `CancelledAppointment`, `RefundCustomer`,
`Withdraw`, `Forfeit`, `FailSafe`, `InstallWatcher`, `InstallMode`. A `require` is a guard, since a
call that fails is undone. Anybody may call in any order; signatures are taken as given, so an action
is possible for whoever could have signed. What contracts of a customer may answer (the decoded
dispute, the postcondition) is any of its possible values. `uint` arithmetic wraps at `MaxUint`,
as it does in Solidity 0.5, which the contract asks for. Reading the records also replaces old
shards, as `fetchRecords` does.

## Runs

| Run | Instance | What it shows |
|---|---|---|
| `block_cache` | 6 blocks: heights 1 to 4 and a fork at 2 and 3 whose bottom is never shown; `maxDepth` 2; one rejected batch, one restart | depth, contiguity, cascade completeness, one announcement, disk recoverable, head stays, `addBlock` returns |
| `block_processor_concurrent` | two calls in flight, branches of heights 3 and 3 to 5 on a block at 2; `maxDepth` 2; one rejected batch, one failed fetch or listener, one stop or crash | the lock keeps batches and heads of the calls apart, new head after the ancestors that are kept, stored head on disk, the head comes to be the tip if the provider answers in the order of the numbers |
| `block_processor_forks` | one call at a time, branches of heights 3 to 5 and 3 to 6; `maxDepth` 3; one rejected batch, one failure | only a failure misplaces a block, no gap in the head's ancestry, calls return |
| `block_processor_overtaken` | two calls, branches of heights 3 and 3 to 5; nothing fails | refutes `NewHeadAfterAncestorsIfUndisturbed` |
| `block_processor_catch_up` | one call; `maxDepth` 1 and a chain two blocks ahead | refutes `ProcessingReturns` |
| `block_processor_reopened` | one call, one restart | refutes `NewHeadAfterAncestors` |
| `responder` | two responses, two prices, four blocks of up to two transactions; one reorganisation, one failed call or broadcast | every issue at a nonce tops the earlier ones until an overtaken response is put back, no nonce is skipped, no response leaves the queue unmined or is forgotten while it can come back, records match the queue, and the queue mirrors the chain |
| `responder_mined_in_order` | two responses, one block; nothing fails | refutes `MinedInOrder` |
| `responder_reissue` | one failed broadcast | refutes `ReissuedIfMissing` |
| `tower` | a chain of height 3 and a fork at 2, two appointments at one locator with different filters, one relay transaction, a queue for one response; one filter that cannot be compared with a block; one failing price or queue write, one stop | indexes and disk agree, nothing accepted is lost, states match the chain, processed heads are answered, nothing is given up unanswered, responses are accounted for, memory and database hold one queue, the store implements the register, calls return, removals take effect |
| `tower_restart` | the same without failures, every filter can be compared | refutes `AnsweredAcrossRestarts` |
| `pisa_hash` | two appointments of one customer and one of another, refunds of 0 and 1, a mode with and one without a decoder; nine blocks with shards of three; two responses | the books balance, nothing is recoursed twice, a recorded response protects while its shard lives |

Bounds. With `maxDepth` 2 and heights 1 to 4 every interesting case of the cache occurs: the first
block in the middle of the chain, blocks below it, detached runs of two blocks, a cascade that
moves `minHeight`, pruning, and re-adding a pruned block; a rejected batch and a restart can happen
at every step and are followed by every sequence of additions. More rejections or restarts repeat
the same cases from states already reached. `MaxLag` bounds how far the provider's chain gets ahead
of the head; in `forks` it does not exceed `maxDepth`, because beyond it a call never returns
(`block_processor_catch_up`); in `concurrent` a restart leaves the head further behind, so that calls take
several batches. The branches are long enough to leave each other and come back, which a detached
block of the other branch takes. Handlers are bounded to two because two calls are enough
to overtake each other and to queue for the lock.

For the responder two responses are enough for every operation of the queue: insertion in front, a
replaced transaction that is mined, and a re-enqueued response that goes before or behind the other.
Four blocks are the confirmations, a reorganisation of one block and a longer branch. Responses are
interchangeable, hence the symmetry. `ConfirmationsBeforeResponse` is as large as the deepest
reorganisation. The queue has room for both;
a queue that is full when a response comes is in `tower`, and the proofs are for every depth.

For the tower two appointments at one locator are an update, and an update racing a removal; three
blocks are the event of one, its confirmations, and the end of the other, whose event is on the fork alone. A
queue for one response is full for the next. `ConfirmationsBeforeResponse` is below `ConfirmationsBeforeRemoval`, as in the
service. One stop may come at every step. What these bounds do not reach (two removals of the same
appointment in progress, more customers, deeper forks) is covered by the proofs.

For the contract nine blocks are three shards' lives, so that records are written, read, and replaced
both by a reader and by a writer; `MaxUint` is small enough to wrap. Two appointments promise a refund of 0, the
only one the service signs (`appointment.ts:281`), and one a larger refund, which the contract takes too.

Premises. The cascade may attach a block off its parent (`block_processor_overtaken`); from then on the
ancestry of a head may end above `minHeight`, hence `~misplaced` in `HeadAncestryReachesMinHeight` and
`NewHeadAfterKeptAncestors`. The latter speaks of the ancestors the cache keeps, those from `minHeight` on,
because a late answer can make a block of a lower branch the head, some of whose ancestors were below
`minHeight` when it was fetched and are never announced. `StoredHeadOnDisk` is false after a rejected
batch: its block stays attached in memory alone, and a later call may make it the head and store its
number. `AcceptedIsHeldUntilDone`, `AnchorMatchesChain`, `AnsweredUnlessBlockFailed` and
`RemovedOnlyAnswered` hold while every block lies on its parent (`gaps = {}`): where one does not, the search
for an appointment's event, and the state built on it, stop at the gap. There are three ways to one. The
first block after a restart is attached whatever was mined during the downtime (`empty`, which is
`block_processor_reopened`). A block is attached at the cache's `minHeight`, or by the cascade (`height`, see
`block_processor_overtaken`). And a tower stops with a block in memory whose batch had failed (`torn`): after a
restart `reduce` throws on the state read from disk, so the next block is attached in memory and not
written, while its child is; if the tower stops again, that block is missing below its child. The last two
of the four properties also need that every block got its state (`NoBlockFailed`):
`tower_restart` shows what happens after a restart without it, and it is the same when a block's processing
throws for a filter (see below). Without `gaps = {}` TLC refutes each of
the four, on a chain of up to five blocks with one stop. `HeadFollowsTipInOrder` needs that
the provider answers in the order of the numbers (`overtaken`), and `RemovalsTakeEffect` that the tower does
not stop (see below for both). `BooksBalance` holds until an appointment is forfeited, or a log is cancelled that was
not triggered: then `pendingrefunds` and the logs part for good (see below). `ReplacedAtHigherPrice`
holds until the record of an overtaken response is put back (`restored`, see below); with two responses TLC
finds nothing wrong without this premise, and the proof does not go through without it: the third
response is what it takes. `QueueMirrorsChain` is stated for what the queue survives, which `Undisturbed` spells
out; each premise is there because TLC shows a behaviour without it in which the queue and the chain
part for good: two responses first noticed at one head (`responder_mined_in_order`); the same
response started twice; a response mined at two nonces, on one chain or on two branches (below);
a response mined from a replaced transaction and then reorganised, whose nonce meets another's in
`prepend`, which throws; more responses given back than the queue has room for; a branch that goes below the block in which an event was observed, where
`getMinedTransaction` does not look (the service responds after 5 confirmations and follows
reorganisations of 100 blocks); and a failed call or broadcast.

Deadlock is checked for the cache. All other configurations switch it off: the chain stops growing at
the bound, and then nothing is left to do.

Fairness. `WF_vars(Continue)` for the cache: inside `addBlock` nothing waits for anything but the
listeners and the database, whose promises settle. For the processor: weak fairness of every call's
own steps (requests are answered or time out, a FIFO lock is granted, promises settle), of the
listeners, of boot and of the provider's events. Failures, restarts, stops and the growth of the
chain are not fair. For the tower: weak fairness of the calls to the store, of the actions run in the
background, of the writes of a head (`Store`) and of the start, all of which only wait for the database and
for a FIFO lock; requests, blocks, stops and the network are not fair.

## Where code and comments disagree

* `block_processor_overtaken`. `processDetached` attaches every detached block of the next height
  without looking at its parent (`blockCache.ts:118`). The head is a2 and two calls are in flight, for a3
  and, after a reorganisation, for b4, which is added detached and waits for b3. Now a3 arrives and is
  attached, and the cascade attaches b4, at the next height. The call for b5 finds its parent b4 attached,
  so its walk ends there, and b5 becomes the head: "new head" is delivered although b3 was never
  announced, and the ancestry of the head ends at b4, against `blockProcessor.ts:118-122` and
  `blockCache.ts:40`. With one call at a time a failed fetch of a parent has the same effect once the
  chain leaves that branch and comes back (`MisplacedOnlyAfterFailure` says that nothing else has).
* `block_processor_catch_up`. The batch loop at `blockProcessor.ts:215-256` takes its next height
  from the cache's head, which only `processNewHead`, after the loop, moves; more than `maxDepth`
  behind, the second batch is the first one again, and so on.
* `block_processor_reopened`. `addBlock` returns `NotAddedAlreadyExisted` before it clears
  `isEmpty`. A restarted process re-adds its stored head, which the loaded store already has; the
  cache stays "empty", the next block is taken for the first one ever and the blocks mined while
  the tower was down are never fetched, nor announced.

* `responder_mined_in_order`. `detectChanges` walks the tracked responses in the order of the map.
  Two responses mined in one block, or in two blocks that become a head together, may be reported
  with the later nonce first; `txMined` throws, its `catch` logs, and the response stays in the
  queue, where nothing behind it can be reported either.
* `responder_reissue`. `broadcast` logs a failure in the belief that a missing transaction will be
  issued again, but `reEnqueueMissingItems` looks only for responses that are not in the queue.
* `tower_restart`. The anchor states are written as JSON, which makes `{}` of the `Map` they hold.
  After a restart `reduce` throws for the first block above the stored ones; its child's state is
  computed anew, has no earlier one to be compared with, and becomes the emitted one without the
  response that is due at it. `dataEntities/block.ts:218-219` says that a restart always recovers.

Observations on the responder without a run:

* A transaction may be issued at a price the nodes refuse, against `gasQueue.ts:206-211` ("it must increase
  current gas price of that item by at least the replacement rate"). `replace` (`gasQueue.ts:339-353`) tops
  the item that is now at the nonce, and `prepend` takes the record of a missing response for it as it
  is. Three responses A, B and C with prices 20, 10 and 15, confirmations 2, a rate of 12%: A is
  queued in front of B, so that A is at nonce 1 and B at 2. The network mines B's first transaction, which
  was sent at nonce 1: `consume` moves A to nonce 2, for 20, and takes B out with its record, which is
  for nonce 2 and price 10. A is mined at nonce 2, both blocks are reorganised away, C is started at
  nonce 3, and on the new branch A's first transaction is mined at nonce 1.
  `reEnqueueMissingItems` puts B's record back, and C, which goes before B, comes to nonce 2, where it
  tops B's 10 only: it is issued there at 15, under the 22.4 that would replace A's transaction. The nodes
  refuse it, `broadcast` logs the refusal, and C waits in the queue (`responder_reissue`). TLC finds this
  in four blocks with one reorganisation of two, under a state constraint that leads to it; without one
  three responses are too many for a run of the table. It is the premise `restored` of
  `ReplacedAtHigherPrice`.
* The premises of `QueueMirrorsChain` above. One of them was found only beyond the bounds of the table,
  with `Confirmations` at 2. A's transaction is sent at nonce 1; the dearer B takes that nonce and A moves
  to 2; both are mined so. A reorganisation takes both blocks away, and on the new branch A's first
  transaction is mined, at nonce 1. `reEnqueueMissingItems` is to put B back at nonce 1, in front of a
  queue that goes on at 3: 2 is A's, which is mined elsewhere. The nonces are not consecutive, the
  constructor throws, and B, recorded as a response, is not in the queue any more. With the premise that a
  response is mined at one nonce on all branches together, TLC finds nothing wrong with two
  responses, `Confirmations` 2, six blocks and two reorganisations (11.6 million states, too many for a
  run of the table), nor with `Confirmations` 1 and two transactions to a block.
* The service's replacement rate of 12 (`service.ts:80`) is below the 12.5% the comment at `gasQueue.ts:226`
  gives for Parity.

Observations on the watcher and the service without a run:

* A null topic in a filter is admitted by `validate` (`appointment.ts:331`) and described in
  `client/README.md:61`, but `hasLogMatchingEventFilter` (`dataEntities/block.ts:27-31`) calls
  `toLowerCase` on it, and on a topic the log does not have. The block then stays in memory without
  anchor states, against the comment at `blockchainMachine.ts:127`. Once the appointment is gone a
  head above that block has no earlier state to be compared with, and responses of other appointments
  that are due at it are not made. This is the premise `NoBlockFailed`; the `tower` run has
  such a filter, and shows that the other properties hold with it.
* `reduce` ignores the start block and `getInitialState` does not (`watcher.ts:40-67`), and takes the
  nearest event where `reduce` keeps the first; which of them sees an event depends on when the
  appointment came. `AnchorMatchesChain` is stated for both.
* The gas curve throws when exactly `MAX_BLOCKS` blocks are left (`gasPriceEstimator.ts:56-78`);
  `startResponse` logs it, and the response is never made (`GivenUp` in `ResponsesAccountedFor`). A relay
  transaction's customer gets a signature all the same, as with a full queue or a call that fails.
* A stored response fails at every start, since its appointment is no longer an object with methods.
* A stored removal, run at a start before the appointments are loaded, finds nothing, and is removed from
  the action store, "upon completion" (`blockchainMachine.ts:25-26`); the appointment stays. So a stop
  between storing a removal and carrying it out loses the removal; TLC finds this in 12 steps.
* An event mined while the tower is down may be missed for good. The first block announced after a
  restart is attached without its parent (`block_processor_reopened`), and `blockchainMachine.ts:101-103` computes its
  initial state alone, which does not see the event below. The appointment counts as watched, and is
  given up as expired, unanswered: TLC refutes `RemovedOnlyAnswered` so when the gap is allowed. This is the
  premise `gaps = {}`.
* The responder's store is started last (`service.ts:153`), when the watcher's actions may already run. A
  response decided on before that is added to the empty queue of the constructor, which `updateQueue`
  writes over the stored one: the responses queued before the restart are gone. That a queued response stays
  in the database until it is confirmed is refuted by TLC, against `dataEntities/startStop.ts:7`
  ("must start it before using it").
* `startResponse` logs every error, also one that passes, such as a gas price the provider did not give or
  a queue that could not be written, and returns; the action is removed, and nobody tries again. `watcher.ts:90-91`
  leaves it to the responder that events "are properly acted upon". `ResponsesAccountedFor` names these reasons.

Observations on the contracts without a run:

* `cancelledAppointment` takes one from `pendingrefunds` whether or not a log was triggered, and `forfeit`
  takes none (`PISAHash.sol:322` and `:372-390`). TLC finds another customer's triggered log left with a counter
  of zero, at which `refundCustomer` and `forfeit` refuse, although `PISAHash.sol:300-301` expects that customers
  "will just cancel their own refund". It is the premise `disorder` of `BooksBalance`.
* In `didPISARespond` the check of the hash and the window matters only for a record with a lower
  nonce than the appointment's, which cannot have its hash: that alternative never decides.
* A shard is written to until the block in which it is two intervals old, and then replaced with all its
  records. So a record may live for two intervals or for one block, depending on where in its interval
  the shard was created, while a recourse is accepted until one interval after the start of the
  appointment (`PISAHash.sol:194`, "PISA log is likely deleted, so unfair to seek recourse"): with the
  bounds of `pisa_hash`, TLC finds a recourse that succeeds in the block after the response was
  recorded. `AnsweredIsSafe` therefore counts from the shard's creation.
* `withdraw` computes `block.number - 100` with `uint`: on a chain with fewer blocks nothing can be
  withdrawn. The model has no such chain.
* `Deposits` calls `getFlag`, which `PISAHash` does not have.

Three more observations on the cache and the processor have no run of their own: after a rejected batch the disk may
lack a block under an attached one (so `Recoverable` is stated only if nothing was rejected); the reopened cache
misses blocks without the processor too; and when the answer to the earlier of two calls comes last, it
becomes `lastBlockHashReceived`, and `setHead` moves the head back to the lower block, where it stays until
the provider announces another. TLC finds this with three blocks; it is the premise `overtaken` of
`HeadFollowsTipInOrder`.

## Proofs

`BlockCacheProofs` proves, for every block tree, every `maxDepth` and any number of rejections and
restarts, from `ChainAssumption` (a block is numbered one above its parent) and `BoundAssumption`, all
eight safety properties of `block_cache`:

* `CacheTypeOK`, `CacheEmitsOnce`, `CacheHead`, and `CacheKeepsShallow`, an
  action property. None but the first is inductive by itself. `IndInv` adds what is true of the call in
  progress: the block being announced is attached, unannounced and of the level worked on
  (`CallEmitting`); what is left of the level is detached and of that level (`CallTodo`); a level being
  processed has an attached block (`CallLevel`), without which pruning could pass every attached block;
  and an announced block is attached or below `pruneHeight` (`AnnouncedStays`), which is why a pruned
  block, if it is offered again, is refused. One lemma per action of `Next` shows that it is kept.
* `CacheNothingTooDeep`, `CacheHasNoGap`, `CacheAttachesAll`, `CacheRecovers`: what blockCache.ts
  promises of depth, contiguity and cascade, and what is on disk. `DeepInv` says how far the call in
  progress is from keeping each promise: `pruneHeight` follows `maxHeight` (`PruneTight`), the level worked
  on rests on the one below (`LevelBased`), what is attachable but not attached is at the level that is
  scanned next (`OpenPending`) or at a `minHeight` that the loop will come to (`LowPending`), and the
  memory is the disk with the open batch applied (`Mirrors`).
* `CacheFullInvariant`, which adds what a caller of the cache needs: `Ever`, the blocks announced in this
  run of the process, is closed under parents down to `minHeight` unless a block was misplaced
  (`EverClosed`); from it `AncestryReaches`: `ancestry` from an attached block arrives at `minHeight`.

`BlockProcessorProofs` is about any number of calls in flight, with all their failures. `CP` instantiates
`BlockCacheProofs` with the processor's variables; since every action of the processor is one of the
cache's or leaves it alone, and the calls hold blocks the chain has (`ProcInv`), the cache's invariant and
lemmas hold of the cache the calls share. With it the processor's invariants:

* `LockKeepsBatches` (`LockKeepsBatchesApart`). `LockInv`: the `addBlock` that runs is that of the call at the
  head of the lock's queue; `QueueInv`: a call is in the queue once, and exactly while it waits for the
  lock or holds it. Every way out of the critical section, an error or a walk that goes on, has to keep both.
* `ProcessorTypeOK`. That an announced number is a block's needs that the provider's chain has every
  height from the first tip's to the latest (`HeightsShown`).
* `HeadsAfterAncestors` (`NewHeadAfterKeptAncestors`). A call that waits with "new head" holds a block that
  was announced (`HeadsWereAttached`), and an announced block stays so while other calls go on; the
  announced blocks have their ancestors down to `minHeight` (`EverClosed`, `ChainWithin`); and when the
  call owns the lock no `addBlock` is half way (`LockInv`), so each announcement was delivered
  (`DeliveredInv`).
* `HeadAncestryIsWhole` (`HeadAncestryReachesMinHeight`).
* `StoredHeadIsOnDisk` (`StoredHeadOnDisk`). `StoredInv`: from `setHead` on, the height of a new head is
  covered, in memory and on disk, by an attached block of that height or of one more than `maxDepth`
  above; pruning, other calls, crashes and restarts keep it covered.

* `OneWalkMisplacesNothing` (`MisplacedOnlyAfterFailure`, until a restart), for one call of
  `processBlockNumber` at a time, which is its hypothesis. `WalkInv`: the blocks that are detached form
  a path, one block at each height, that rests on the block the call will add next (`WaitsFor`); the
  cascade takes this path up, block by block, each onto its parent (`CascadeOn`); and when the call
  does not walk nothing is detached. A second call, a failure in the middle of a walk, or a restart,
  which loads what a walk left on disk, breaks it.

`GasQueueProofs` proves, for every rate, every depth and every set of requests with integer prices:
`ReplaceTops` (a request that takes over a nonce tops the transaction it replaces), and
`AddMakesQueue`, `DequeueMakesQueue`, `ConsumeMakesQueue`: from a queue the constructor accepts, each
operation makes one the constructor accepts, which holds exactly the responses it should. So
`txMined` cannot fail in the constructor, and `startResponse` fails there only for a response that
is queued already. The argument describes each operation place by place (`ShiftToEnd`, `AddInserts`,
`ConsumeRemoves`) and derives order, nonces and uniqueness from these descriptions. `prepend` throws on
some inputs; what it makes of the others is `PrependPermutes`: the items and the missing ones in some
order, each topped where the request at its nonce changed. That a stable sort permutes is
`SortedPermutes`, from `RankPermutes`: the ranks of n distinct places are 1 to n, by counting. That no
operation lets a nonce's price sink is `AddReissues`, `RemovalReissues` and `PrependPermutes`.

`MultiResponderProofs` proves the eight properties of `responder`, for every set of responses and prices,
every rate, depth and number of confirmations, and every chain with any reorganisations no deeper than
the confirmations, from `QueueAssumption` and `ResponderAssumption`: `ResponderTypeOK`,
`NoNonceIsLost` (`NoNonceGap`), `RecordsMatchTheQueue` (`QueuedIsRecorded`), `QueueReachesTheNetwork`
(`QueuedIsSent`), `QueueFollowsTheChain` (`QueueMirrorsChain`), and the action properties `ReplacementsTop` (`ReplacedAtHigherPrice`), `OnlyMinedLeave`
(`LeavesQueueOnlyMined`) and `ForgottenAreMined` (`ForgottenOnlyWhenMined`). `ResponderInv` is the inductive
invariant. Two parts carry the argument:

* `CallsInv`. An action is decided on at a head, and applied when the lock is free: by then the
  blocks it was decided on may be gone. A `txMined` call still names a transaction that was mined
  once; an `endResponse` call names a response that is mined more than the confirmations below the highest
  block the tower saw (`Deep`), which no reorganisation takes back (`ReorgKeepsChain`). It needs that an
  anchor state says what the chain says (`ChainInv`, `StateIsThere`).
* `PriceInv`. Every item of the queue tops all that was ever issued at its nonce. For this to survive
  `prepend`, the records outside the queue must do so as well, each at a nonce of its own before the front
  (`Away`): a response that is removed leaves its record at the nonce it was mined at, and a record that
  comes back finds its place in the prolonged queue by itself. Only an overtaken response leaves a
  record elsewhere, which is where the premise of the property comes from.

One lemma per operation (`AddUpdates`, `RemovalUpdates`, `PrependUpdates`) shows that its queue is one that
`updateQueue` keeps the invariant with (`UpdateKeepsStore`), and one per action that the action keeps it.

`QueueFollowsTheChain` needs an invariant of its own, `ResponderInv /\ LinkInv /\ CalmInv`: that a settled
queue mirrors the chain says nothing of the steps between the block that mines a response and the call that
takes it off the queue.

* `LinkInv` holds whatever happens. Every transaction was issued, and whoever was asked for is queued or
  was mined (`LedgerInv`); the transactions up to a block are one at each nonce, from the first on
  (`NoncesInv`); the tower knows a block after those below it, and the chain is never further below the
  highest block the tower saw than the confirmations (`HeadsInv`).
* `CalmInv` holds while nothing disturbs the two (`Undisturbed`). Nobody is asked for twice (`OnceInv`); a
  response is mined in no block below its event, which is what makes an anchor state complete
  (`ObservedInv`, `StatesInv`); what is to be put back has a record (`MissingInv`).
* `\E R : Waiting(R)` is the core. `R[0]` is the set of transactions the queue is past, `R[k]` the one it
  will be past once the first k waiting calls are served: a `txMined` adds its own, a
  `reEnqueueMissingItems` takes away those it puts back (`After`). Each of them is a run of consecutive
  nonces, so that no call meets a gap; and the last one has all that an emitted head has, and, when that
  head is still the chain's, nothing else (`Heads`): the calls that wait, served in the order of the lock,
  lead from the queue to this head. `ServedWaits` and
  `ServeWaits` serve a call, `MoreWaits` and `StartWaits` add one, `HeadServes` shows that the calls
  that `detectChanges` emits for a head lead from the state of the head before to its own, on the same
  branch or another, and `NewHeadWaits` appends them. This is where at
  most one response may be newly mined at a head (`crowded`). `CalmMirrors` reads the property off the last
  set when no call waits and the head is that of the chain.

`AppointmentStoreProofs` proves `StoreImplementsRegister`: for every set of appointments, any number
of calls and crashes at any step, the store implements `AppointmentRegister`. It rests on
`AppointmentAssumption` (appointments at one locator are of one customer and have different nonces).
The refinement needs that the nonce a writer compared is still the one in the database when its batch
is written, although removals change the database without the lock. `IInv` is that argument: whoever
is between check and end owns the lock (`LockHeld`), holds what the map has (`SeesLocator`); the
database has at most one record at a locator (`OneAtLocator`), and it is the one of the map or of the
writer (`DiskFollowed`); and the maps agree so far that no writer throws half way (`IndexShape`).
`WriteIsPut` and `DeleteIsDrop` are the two steps that matter; all others stutter.

`AppointmentIndexProofs` extends this to the agreement of the maps. While calls are in progress each map
differs from the database in its own way; `MInv` says whose call each difference belongs to
(`DiskInIds`, `IdsOnDisk`, `LocatorsOnDisk`), that the map by customer follows the one by locator
(`CustomersFollow`), and that no removal knows what a writer has not finished (`WrittenIsNew`).
`QuietStoreAgrees`: with no call in progress nothing is left of these differences.

`TowerProofs` brings both to the tower: every step of the tower is a step of the store or leaves it
alone (`TowerStep`), hence `TowerKeepsRegister` and `TowerIndexesAgree`. Seven more theorems, for every
block tree, every set of appointments and any number of restarts:

* `ResponsesNeverVanish` (`ResponsesAccountedFor`). `RInv` adds what is true of a running action: one that
  is applied has been answered or given up, for one of the reasons `startResponse` has, and only such a one
  is removed from the action store.
* `ProcessedHeadsAreAnswered` (`AnsweredUnlessBlockFailed`). `HInv` says that while every block got its state
  and lies on its parent everything due in the state last emitted below a block has its response, or has it
  once the actions of the head in progress are stored (`Undisturbed`); what was emitted before a
  restart is stale, and compares with nothing.
* `TowerTyped`. `TInv` has the types, and that an observed block is not above the one whose state names it.
* `StatesMatchTheChain` (`AnchorMatchesChain`) and `AcceptedIsHeld` (`AcceptedIsHeldUntilDone`). They need
  each other: a removal is justified because the state it was decided on is right (`StatesRight`), and what
  was accepted is held because every removal that is running, stored or still to be stored is justified
  (`Intact`), for the very appointment or one with a larger nonce at its locator (`Removals`, `Held`).
  That no block lies off its parent enters as `Unbroken`: every cached block but the first has its parent
  in the cache, so the search for an event goes down the whole chain.
* `GivenUpIsAnswered` (`RemovedOnlyAnswered`). A removal of an observed appointment comes when its event is
  deeper than a response needs, so the response was decided on with this head or below it (`Covered`);
  a removal as expired means that the chain has no event to answer.
* `QueueIsStored` (`OneQueue`), by itself inductive.

`PISAHashProofs` proves, for every interval, every set of appointments and modes and every chain:

* `RecourseOnce`: the log's nonce covers all that were recoursed (`NonceCoversRecourses`), and
  clearing a log leaves the nonce.
* `AnsweredAppointmentsAreSafe`: a recorded response is in the shard it was recorded in, until that
  is two intervals old (`ResponsesKept`), whoever reads or writes in between; a shard whose creation
  lies ahead is replaced, but it has no records (`OnlyCreatedShardsFilled`).
* `ContractTypeOK`, from `TInv`, with `pendingrefunds` in range also where it wraps, for every refund
  including 0: a log has a deadline, and at least the bond, exactly while it is triggered.
* `BooksAlwaysBalance` (`BooksBalance`): until an appointment is forfeited or the owner cancels one that
  is not triggered, `pendingrefunds` counts the triggered logs and the balance covers what is owed and a
  bond for each. It assumes `UintAssumption`: finitely many appointments, and no more ids than a `uint`
  counts; with more, the counter would wrap by increments alone. One lemma per call that moves money
  (`RecourseBooks`, `ClearBooks`, `WithdrawBooks`) follows both sides: the number of triggered logs by
  `LogChanges` and the theorems on cardinality, the sum that is owed by `SumChanges`.

Three things that need induction are proved without an induction theorem: a recursive function of the
model (`Ancestry`, `Chain`) has the value its definition says because a solution of the equation is
exhibited (`ReachedDef`); what holds of all blocks is proved by taking a lowest one for which it does not
(`LowestBlock`, from the library's `WFMin`); and a sum over a set (`Owed`) follows a change of one value
because a smallest subset whose sum does not would have a smaller one (`SmallestSubset`).

Only model-checked: everything about liveness (`AddBlockReturns`, `HeadFollowsTipInOrder`,
`ProcessingReturns`, `CallsReturn`, `RemovalsTakeEffect`), which the proof system does not support. The
safety invariants and the action properties of the passing runs all have a theorem.

## Not modelled

* HTTP, configuration, logging, formatting; parsing, encoding, hashing and signing of appointments and
  receipts (functions of text, in the service and in the client library); the demos; the provider's
  internals.
* The arithmetic of the gas curve, which is real-valued: only its defining points, the only places it
  is asked for, are modelled.
* The responder's restart but for the loading of its queue, and both components in one machine: the state
  space of `MultiResponder` with a crash at every step is out of TLC's reach next to the reorganisations it has.
* That a started service refuses to be started again.
* `setHash`, `fetchHash`, `Deposits` and the example contracts.

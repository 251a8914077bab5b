--------------------------- MODULE BlockProcessor ---------------------------
(***************************************************************************)
(* The block processor (src/src/blockMonitor/blockProcessor.ts): it hears  *)
(* of block numbers from the provider and fills a BlockCache with each new *)
(* block and as many of its ancestors as it takes to attach it.            *)
(*                                                                         *)
(* The provider's "block" event does not wait for its listener, so several *)
(* calls of processBlockNumber may be in flight; they only exclude each    *)
(* other inside blockItemStoreLock.  Every step of a call up to its next   *)
(* await is one action.                                                    *)
(***************************************************************************)
EXTENDS Integers, FiniteSets, Sequences

CONSTANTS
    Block, NoBlock, Number, Parent, MaxDepth,  \* as in BlockCache
    MaxRejections, MaxRestarts,                \* bounds of BlockCache
    Handler,        \* bound: the calls of processBlockNumber that may be in flight
    MaxFailures,    \* bound: failed fetches and failed newHead listeners
    FirstTip,       \* the provider's latest block when the tower first starts
    MaxLag          \* bound: how far the chain may get ahead of the head

ASSUME ProcessorAssumption ==
    /\ Handler # {} /\ IsFiniteSet(Handler)
    /\ MaxFailures \in Nat /\ MaxLag \in Nat
    /\ FirstTip \in Block
    (* The chain is shown down to the first tip. *)
    /\ \A b \in Block : Parent[b] \notin Block => Number[b] <= Number[FirstTip]

VARIABLES
    item, batch, disk, isEmpty, pruneHeight, maxHeight, headHash, stage, level,
    todo, emitting, prevMinHeight, addResult, emitted, loaded, misplaced,
    rejections, restarts,  \* the variables of the BlockCache
    tip,         \* external: the latest block of the provider's chain
    announced,   \* the last number of a "block" event, NotYet before the first
    phase,       \* of the service: "starting", "started" or "stopped"
    call,        \* the calls of processBlockNumber
    lock,        \* blockItemStoreLock: its owner, then its waiters
    lastBlockHashReceived,
    storedHead,  \* the head number in the BlockProcessorStore, NotYet if there is none
    newHeads,    \* history: the blocks a "new head" event was delivered for
    seen,        \* history: the blocks a "new block" event was delivered for, ever
    failures,    \* history: failures so far
    rejected,    \* history: a batch was rejected, in some run of the process
    overtaken    \* history: an answer came in after that for a later number

Cache == INSTANCE BlockCache

ASSUME CacheAssumption == Cache!ChainAssumption /\ Cache!BoundAssumption

cacheState == <<item, batch, disk, isEmpty, pruneHeight, maxHeight, headHash,
                stage, level, todo, emitting, prevMinHeight, addResult, emitted,
                loaded, misplaced, rejections, restarts>>
network  == <<tip, announced>>
history  == <<newHeads, seen, failures, rejected, overtaken>>
vars == <<cacheState, network, phase, call, lock, lastBlockHashReceived,
          storedHead, history>>

NotYet == -1
Numbers == {Number[b] : b \in Block}

(* What a call waits for: the answer to getBlockRemote by number and its    *)
(* arrival, the one by hash, the lock, addBlock, the lock again, the store. *)
Steps == {"free", "fetch", "answered", "parent", "lock", "adding", "head", "store"}

Free == [pc |-> "free", target |-> NotYet, processing |-> NotYet,
         observed |-> NoBlock, cur |-> NoBlock]

-----------------------------------------------------------------------------
(* The provider (external): the chain of its latest block *)

Chain[b \in Block] ==
    {b} \cup (IF Parent[b] \in Block THEN Chain[Parent[b]] ELSE {})

Canonical(n) == {b \in Block : b \in Chain[tip] /\ Number[b] = n}

(* The chain grows, or a longer fork replaces it. *)
NewTip(b) ==
    /\ Number[b] > Number[tip]
    /\ Number[b] - Number[IF headHash = NoBlock THEN FirstTip ELSE headHash] <= MaxLag
    /\ tip' = b
    /\ UNCHANGED <<cacheState, announced, phase, call, lock, lastBlockHashReceived,
                   storedHead, history>>

-----------------------------------------------------------------------------
(* The parts of a call *)

(* acquire and release of blockItemStoreLock: a FIFO queue *)
Owns(h) == lock # <<>> /\ Head(lock) = h

(* A call ends; the one startInternal makes lets the service become started. *)
Return(h) ==
    /\ call' = [call EXCEPT ![h] = Free]
    /\ phase' = IF phase = "starting" THEN "started" ELSE phase

(* The beginning of a batch.  Reading head throws, which ends the call,     *)
(* before the first setHead or when the head has been pruned.               *)
BeginBatch(h, n) ==
    IF isEmpty
    THEN /\ call' = [call EXCEPT ![h] = [Free EXCEPT !.pc = "fetch", !.target = n,
                                                     !.processing = n]]
         /\ UNCHANGED phase
    ELSE IF headHash = NoBlock \/ item[headHash] = "absent"
    THEN Return(h)
    ELSE LET reach == Number[headHash] + MaxDepth IN
         /\ call' = [call EXCEPT ![h] =
                [Free EXCEPT !.pc = "fetch", !.target = n,
                             !.processing = IF n <= reach THEN n ELSE reach]]
         /\ UNCHANGED phase

LastBatch(h) == call[h].processing = call[h].target

-----------------------------------------------------------------------------
(* The actions *)

(* startInternal: the stored head number (unless it is 0), or else the     *)
(* provider's, is processed before the service listens to the provider.     *)
Boot(h) ==
    /\ phase = "starting"
    /\ \A g \in Handler : call[g].pc = "free"
    /\ BeginBatch(h, IF storedHead > 0 THEN storedHead ELSE Number[tip])
    /\ UNCHANGED <<cacheState, network, lock, lastBlockHashReceived, storedHead,
                   history>>

(* The provider emits "block", first for its latest number and then for    *)
(* every number after that.                                                 *)
NewBlockEvent(h) ==
    /\ phase = "started"
    /\ call[h].pc = "free"
    /\ announced # Number[tip]
    /\ announced' = IF announced = NotYet THEN Number[tip] ELSE announced + 1
    /\ BeginBatch(h, announced')
    /\ UNCHANGED <<cacheState, tip, lock, lastBlockHashReceived, storedHead, history>>

(* The provider (external) answers getBlockRemote(processingBlockNumber)    *)
(* with the block that is at that height now, *)
Answer(h) ==
    /\ call[h].pc = "fetch"
    /\ \E b \in Canonical(call[h].processing) :
        call' = [call EXCEPT ![h].pc = "answered", ![h].observed = b, ![h].cur = b]
    /\ UNCHANGED <<cacheState, network, phase, lock, lastBlockHashReceived,
                   storedHead, history>>

(* Only the history looks at what was received before. *)
NoteOvertaking(h) ==
    /\ overtaken' = \/ overtaken
                    \/ /\ lastBlockHashReceived # NoBlock
                       /\ Number[lastBlockHashReceived] > call[h].target
    /\ UNCHANGED <<newHeads, seen, failures, rejected>>

(* Mutation: lastBlockHashReceived is only set the first time. *)
ReceiveFirstOnly(h) ==
    /\ call[h].pc = "answered"
    /\ call' = [call EXCEPT ![h].pc = "lock"]
    /\ lastBlockHashReceived' = IF LastBatch(h) /\ lastBlockHashReceived = NoBlock
                                THEN call[h].observed ELSE lastBlockHashReceived
    /\ lock' = Append(lock, h)
    /\ NoteOvertaking(h)
    /\ UNCHANGED <<cacheState, network, phase, storedHead>>

(* Mutation: the head number is stored as soon as its block is received. *)
ReceiveAndStore(h) ==
    /\ call[h].pc = "answered"
    /\ call' = [call EXCEPT ![h].pc = "lock"]
    /\ lastBlockHashReceived' = IF LastBatch(h) THEN call[h].observed
                                               ELSE lastBlockHashReceived
    /\ storedHead' = Number[call[h].observed]
    /\ lock' = Append(lock, h)
    /\ NoteOvertaking(h)
    /\ UNCHANGED <<cacheState, network, phase>>

(* which the call receives some time later. *)
Receive(h) ==
    /\ call[h].pc = "answered"
    /\ call' = [call EXCEPT ![h].pc = "lock"]
    /\ lastBlockHashReceived' = IF LastBatch(h) THEN call[h].observed
                                               ELSE lastBlockHashReceived
    /\ lock' = Append(lock, h)
    /\ NoteOvertaking(h)
    /\ UNCHANGED <<cacheState, network, phase, storedHead>>

(* getBlockRemote(parentHash) answers. *)
FetchParent(h) ==
    /\ call[h].pc = "parent"
    /\ call' = [call EXCEPT ![h].pc = "lock"]
    /\ lock' = Append(lock, h)
    /\ UNCHANGED <<cacheState, network, phase, lastBlockHashReceived, storedHead,
                   history>>

(* getBlockRemote throws: the error is logged and the call ends. *)
FetchFails(h) ==
    /\ call[h].pc \in {"fetch", "parent"}
    /\ failures < MaxFailures
    /\ failures' = failures + 1
    /\ Return(h)
    /\ UNCHANGED <<cacheState, network, lock, lastBlockHashReceived, storedHead,
                   newHeads, seen, rejected, overtaken>>

(* Mutation: addBlock is called without waiting for the lock. *)
StartAddAtOnce(h) ==
    /\ call[h].pc = "lock"
    /\ Cache!AddBlock(call[h].cur)
    /\ call' = [call EXCEPT ![h].pc = "adding"]
    /\ UNCHANGED <<network, phase, lock, lastBlockHashReceived, storedHead, history>>

(* With the lock, addBlock(curBlock) is called. *)
StartAdd(h) ==
    /\ call[h].pc = "lock"
    /\ Owns(h)
    /\ Cache!AddBlock(call[h].cur)
    /\ call' = [call EXCEPT ![h].pc = "adding"]
    /\ UNCHANGED <<network, phase, lock, lastBlockHashReceived, storedHead, history>>

(* addBlock runs, or its batch is rejected: by a newBlock listener, which   *)
(* the blockchain machine adds before this service starts, or by the        *)
(* database.                                                                *)
RunAdd ==
    /\ Cache!Continue
    /\ seen' = IF stage = "emit" THEN seen \cup {emitting} ELSE seen
    /\ UNCHANGED <<network, phase, call, lock, lastBlockHashReceived, storedHead,
                   newHeads, failures, rejected, overtaken>>

RejectAdd ==
    /\ Cache!RejectBatch
    /\ rejected' = TRUE
    /\ UNCHANGED <<network, phase, call, lock, lastBlockHashReceived, storedHead,
                   newHeads, seen, failures, overtaken>>

(* addBlock has returned to call h, which releases the lock. *)
Added(h) == call[h].pc = "adding" /\ Owns(h) /\ stage = "idle"

NeedsParent == addResult \in {"AddedDetached", "NotAddedAlreadyExistedDetached"}

AddFailed(h) ==
    /\ Added(h)
    /\ addResult = "Rejected"
    /\ lock' = Tail(lock)
    /\ Return(h)
    /\ UNCHANGED <<cacheState, network, lastBlockHashReceived, storedHead, history>>

(* Mutation: the same block is tried again. *)
WalkInPlace(h) ==
    /\ Added(h)
    /\ NeedsParent
    /\ call' = [call EXCEPT ![h].pc = "lock"]
    /\ lock' = Append(Tail(lock), h)
    /\ UNCHANGED <<cacheState, network, phase, lastBlockHashReceived, storedHead,
                   history>>

(* The block was not attached: its parent is next, from the cache (and    *)
(* straight to the end of the lock's queue) or from the provider.           *)
WalkToParent(h) ==
    /\ Added(h)
    /\ NeedsParent
    /\ LET p == Parent[call[h].cur] IN
        /\ p \in Block
        /\ IF item[p] # "absent"
           THEN /\ call' = [call EXCEPT ![h].cur = p, ![h].pc = "lock"]
                /\ lock' = Append(Tail(lock), h)
           ELSE /\ call' = [call EXCEPT ![h].cur = p, ![h].pc = "parent"]
                /\ lock' = Tail(lock)
    /\ UNCHANGED <<cacheState, network, phase, lastBlockHashReceived, storedHead,
                   history>>

(* The walk is over. *)
Attached(h) == Added(h) /\ ~NeedsParent /\ addResult # "Rejected"

NextBatch(h) ==
    /\ Attached(h)
    /\ ~LastBatch(h)
    /\ BeginBatch(h, call[h].target)
    /\ lock' = Tail(lock)
    /\ UNCHANGED <<cacheState, network, lastBlockHashReceived, storedHead, history>>

(* Another block was received since, or setHead throws because the block   *)
(* is not attached: no new head.                                            *)
NotTheHead(h) ==
    /\ Attached(h)
    /\ LastBatch(h)
    /\ \/ lastBlockHashReceived # call[h].observed
       \/ ~Cache!HasBlock(call[h].observed)
    /\ lock' = Tail(lock)
    /\ Return(h)
    /\ UNCHANGED <<cacheState, network, lastBlockHashReceived, storedHead, history>>

(* processNewHead: setHead at once; the event, which needs the lock, only  *)
(* if the service is started.                                               *)
BecomeHead(h) ==
    /\ Attached(h)
    /\ LastBatch(h)
    /\ lastBlockHashReceived = call[h].observed
    /\ Cache!SetHead(call[h].observed)
    /\ IF phase = "started"
       THEN /\ call' = [call EXCEPT ![h].pc = "head"]
            /\ lock' = Append(Tail(lock), h)
       ELSE /\ call' = [call EXCEPT ![h].pc = "store"]
            /\ lock' = Tail(lock)
    /\ UNCHANGED <<network, phase, lastBlockHashReceived, storedHead, history>>

(* newHead.emit: the listeners return and the batch is written, *)
EmitNewHead(h) ==
    /\ call[h].pc = "head"
    /\ Owns(h)
    /\ newHeads' = newHeads \cup {call[h].observed}
    /\ call' = [call EXCEPT ![h].pc = "store"]
    /\ lock' = Tail(lock)
    /\ UNCHANGED <<cacheState, network, phase, lastBlockHashReceived, storedHead,
                   seen, failures, rejected, overtaken>>

(* or one of them throws, and the stored head number stays what it was.    *)
NewHeadFails(h) ==
    /\ call[h].pc = "head"
    /\ Owns(h)
    /\ failures < MaxFailures
    /\ failures' = failures + 1
    /\ lock' = Tail(lock)
    /\ Return(h)
    /\ UNCHANGED <<cacheState, network, lastBlockHashReceived, storedHead, newHeads,
                   seen, rejected, overtaken>>

(* Mutation: the number to go on with is stored. *)
StoreNext(h) ==
    /\ call[h].pc = "store"
    /\ storedHead' = Number[call[h].observed] + 1
    /\ Return(h)
    /\ UNCHANGED <<cacheState, network, lock, lastBlockHashReceived, history>>

(* setLatestHeadNumber *)
StoreHead(h) ==
    /\ call[h].pc = "store"
    /\ storedHead' = Number[call[h].observed]
    /\ Return(h)
    /\ UNCHANGED <<cacheState, network, lock, lastBlockHashReceived, history>>

(* stop: no more events are heard, the calls in flight go on. *)
Stop ==
    /\ phase = "started"
    /\ restarts < MaxRestarts
    /\ phase' = "stopped"
    /\ UNCHANGED <<cacheState, network, call, lock, lastBlockHashReceived, storedHead,
                   history>>

(* The process ends, in any state, and a new one is started. *)
Restart ==
    /\ Cache!Restart
    /\ announced' = NotYet
    /\ phase' = "starting"
    /\ call' = [h \in Handler |-> Free]
    /\ lock' = <<>>
    /\ lastBlockHashReceived' = NoBlock
    /\ UNCHANGED <<tip, storedHead, history>>

-----------------------------------------------------------------------------
Init ==
    /\ Cache!Init
    /\ tip = FirstTip
    /\ announced = NotYet
    /\ phase = "starting"
    /\ call = [h \in Handler |-> Free]
    /\ lock = <<>>
    /\ lastBlockHashReceived = NoBlock
    /\ storedHead = NotYet
    /\ newHeads = {}
    /\ seen = {}
    /\ failures = 0
    /\ rejected = FALSE
    /\ overtaken = FALSE

(* What a call of processBlockNumber does on its own. *)
Proceed(h) ==
    \/ Answer(h) \/ Receive(h) \/ FetchParent(h)
    \/ StartAdd(h) \/ AddFailed(h) \/ WalkToParent(h)
    \/ NextBatch(h) \/ NotTheHead(h) \/ BecomeHead(h)
    \/ EmitNewHead(h) \/ StoreHead(h)

Next ==
    \/ \E b \in Block : NewTip(b)
    \/ \E h \in Handler : Boot(h) \/ NewBlockEvent(h) \/ Proceed(h)
    \/ \E h \in Handler : FetchFails(h) \/ NewHeadFails(h)
    \/ RunAdd
    \/ RejectAdd
    \/ Stop
    \/ Restart

Spec == Init /\ [][Next]_vars

(* Requests are answered, the event loop runs every continuation, and the  *)
(* provider emits the numbers of its chain.                                 *)
FairSpec ==
    /\ Spec
    /\ WF_vars(RunAdd)
    /\ WF_vars(\E h \in Handler : Boot(h))
    /\ WF_vars(\E h \in Handler : NewBlockEvent(h))
    /\ \A h \in Handler : WF_vars(Proceed(h))

-----------------------------------------------------------------------------
(* Properties *)

(* Every field has the values the code gives it. *)
TypeOK ==
    /\ tip \in Block
    /\ announced \in Numbers \cup {NotYet}
    /\ phase \in {"starting", "started", "stopped"}
    /\ call \in [Handler -> [pc : Steps, target : Numbers \cup {NotYet},
                             processing : Nat \cup {NotYet},
                             observed : Block \cup {NoBlock}, cur : Block \cup {NoBlock}]]
    /\ lock \in Seq(Handler)
    /\ lastBlockHashReceived \in Block \cup {NoBlock}
    /\ storedHead \in Numbers \cup {NotYet}
    /\ newHeads \subseteq Block
    /\ seen \subseteq Block
    /\ failures \in Nat
    /\ rejected \in BOOLEAN
    /\ overtaken \in BOOLEAN

(* What a call holds or waits for blockItemStoreLock for. *)
UsesLock(h) == call[h].pc \in {"lock", "adding", "head"}

(* blockItemStoreLock, over walks, heads and failures of several calls: a   *)
(* call that needs it is in its queue once, and one that has left, on an    *)
(* error too, is not; only its owner adds a block, and while the owner has  *)
(* "new head" delivered no addBlock runs.  So withBatch never finds an open *)
(* batch, and no listener writes into the batch of another call.            *)
LockKeepsBatchesApart ==
    /\ \A h \in Handler : UsesLock(h) <=> \E i \in 1 .. Len(lock) : lock[i] = h
    /\ \A i, j \in 1 .. Len(lock) : lock[i] = lock[j] => i = j
    /\ \A h \in Handler : call[h].pc = "adding" => Owns(h)
    /\ stage # "idle" => \E h \in Handler : Owns(h) /\ call[h].pc = "adding"

(* blockProcessor.ts:118-119: each block is attached after its parent,      *)
(* except at depth maxDepth.  With one walk at a time it takes a failure,   *)
(* which leaves a block detached without its parent, to attach one off its  *)
(* parent.                                                                  *)
MisplacedOnlyAfterFailure == failures = 0 /\ rejections = 0 => ~misplaced

(* blockProcessor.ts:120-122: when "new head" is delivered for a block, a   *)
(* "new block" was delivered for it and for its ancestors, as far as        *)
(* maxDepth and the first head ever delivered go.                           *)
NewHeadAfterAncestors ==
    \A h \in Handler : call[h].pc = "head" /\ Owns(h) =>
        \A a \in Chain[call[h].observed] :
            /\ Number[call[h].observed] - Number[a] <= MaxDepth
            /\ \E s \in newHeads : Number[s] <= Number[a]
            => a \in seen

(* The same until a batch is rejected or the process is restarted.         *)
NewHeadAfterAncestorsIfUndisturbed ==
    rejections = 0 /\ restarts = 0 => NewHeadAfterAncestors

(* As long as the cascade attaches no block off its parent, the ancestors   *)
(* that the cache still keeps all had their "new block": the calls in       *)
(* flight, in any order, with forks and failed fetches and listeners, leave *)
(* none of them out.                                                        *)
NewHeadAfterKeptAncestors ==
    Cache!Undisturbed /\ ~misplaced =>
        \A h \in Handler : call[h].pc = "head" /\ Owns(h) =>
            \A a \in Chain[call[h].observed] : Number[a] >= Cache!MinHeight => a \in seen

(* The ancestry of the head, on which confirmations are counted and anchor  *)
(* states are computed, has no gap: walking it back from the head arrives   *)
(* at minHeight, whatever forks were followed and whatever failed, as long  *)
(* as the cascade attaches no block off its parent.                         *)
HeadAncestryReachesMinHeight ==
    loaded = {} /\ ~misplaced /\ Cache!HasBlock(headHash) =>
        Number[Cache!OldestAncestorInCache(headHash)] <= Cache!MinHeight

(* blockProcessor.ts:190-192: the head number a restart will begin with is  *)
(* written only after its block is on disk, as attached; unless a batch was *)
(* rejected, whose blocks are attached in memory alone.                     *)
StoredHeadOnDisk ==
    ~rejected /\ storedHead # NotYet =>
        \E b \in Block : /\ disk[b] = "attached"
                         /\ \/ Number[b] = storedHead
                            \/ Number[b] > storedHead + MaxDepth

NothingFails == failures = 0 /\ rejections = 0 /\ restarts = 0 /\ phase # "stopped"

(* blockCache.ts:289: once the chain stops growing, the head of the cache,  *)
(* from which every component reads the state of the chain, is the tip, and *)
(* stays it: however overlapping calls overtake each other in the walk and  *)
(* at the lock, and whatever forks they find, the last one sets the head.   *)
(* This needs that the provider's answers to them come in the order of      *)
(* their numbers, and that no fetch, listener or write and not the process  *)
(* failed.                                                                  *)
HeadFollowsTipInOrder == [](NothingFails /\ ~overtaken) => <>[](headHash = tip)

(* blockProcessor.ts:219-222: every call of processBlockNumber ends, in one *)
(* batch or in several.                                                     *)
ProcessingReturns ==
    \A h \in Handler : call[h].pc # "free" ~> call[h].pc = "free"
=============================================================================

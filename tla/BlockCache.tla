----------------------------- MODULE BlockCache -----------------------------
(***************************************************************************)
(* The block cache (src/src/blockMonitor/blockCache.ts) over the batched   *)
(* block item store (src/src/dataEntities/block.ts).                       *)
(*                                                                         *)
(* addBlock runs under a lock and inside one withBatch of the store, but   *)
(* it awaits the listeners of its newBlock event for every block that      *)
(* becomes attached.  A call is therefore a sequence of steps here: at     *)
(* each of them a reader may look at the memory, a listener may throw, the *)
(* write of the batch may fail or the process may crash.                   *)
(***************************************************************************)
EXTENDS Integers, FiniteSets

CONSTANTS
    Block,          \* the block hashes the network may ever show
    NoBlock,        \* the parent of a block whose parent is never shown
    Number,         \* block.number, for each block
    Parent,         \* block.parentHash, for each block
    MaxDepth,       \* maxDepth of the constructor
    MaxRejections,  \* bound: rejected batches in one run of the process
    MaxRestarts     \* bound: crashes followed by a restart

(* A block is numbered one above its parent. *)
ASSUME ChainAssumption ==
    /\ NoBlock \notin Block
    /\ Number \in [Block -> Nat]
    /\ Parent \in [Block -> Block \cup {NoBlock}]
    /\ \A b \in Block : Parent[b] \in Block => Number[b] = Number[Parent[b]] + 1

ASSUME BoundAssumption ==
    MaxDepth \in Nat /\ MaxRejections \in Nat /\ MaxRestarts \in Nat

VARIABLES
    item,        \* in memory: what the store knows of each block
    batch,       \* the puts and dels of the open batch
    disk,        \* the content of the database
    isEmpty,     \* mIsEmpty
    pruneHeight, \* next height to prune; undefined (never read) while isEmpty
    maxHeight,   \* mMaxHeight
    headHash,    \* the hash given to the last setHead
    stage,       \* where the addBlock in progress is, "idle" if there is none
    level,       \* the height processDetached is working on
    todo,        \* blocks of this level processDetached still has to attach
    emitting,    \* the block whose newBlock event is being delivered
    prevMinHeight, \* prevMinHeight of processDetachedBlocksAtMinHeight, or NotYet
    addResult,   \* what the last addBlock returned
    emitted,     \* history: newBlock events of this run of the process, per block
    loaded,      \* history: the blocks the database held when the process started
    misplaced,   \* history: the cascade attached a block that could not be attached
    rejections,  \* history: rejected batches in this run of the process
    restarts     \* history: restarts so far

storeVars == <<item, batch, disk>>
cacheVars == <<isEmpty, pruneHeight, maxHeight>>
callVars  == <<stage, level, todo, emitting, prevMinHeight, addResult>>
histVars  == <<loaded, misplaced, rejections, restarts>>
vars == <<storeVars, cacheVars, headHash, callVars, emitted, histVars>>

Status  == {"absent", "detached", "attached"}
Stage   == {"idle", "emit", "mark", "scan", "settle", "commit"}
NotYet  == -1
Results == {"None", "Added", "AddedDetached", "NotAddedAlreadyExisted",
            "NotAddedAlreadyExistedDetached", "NotAddedBlockNumberTooLow",
            "Rejected"}

NoWrites == [b \in Block |-> "unchanged"]

-----------------------------------------------------------------------------
(* Reading the cache. *)

Stored   == {b \in Block : item[b] # "absent"}
Attached == {b \in Block : item[b] = "attached"}
Detached == {b \in Block : item[b] = "detached"}

(* Mutation: the bound of the first block is forgotten. *)
MinHeightOfDepthOnly(lowest, highest) == highest - MaxDepth

(* Mutation: one height too many is pruned. *)
MinHeightOfShallow(lowest, highest) ==
    IF lowest >= highest - MaxDepth + 1 THEN lowest ELSE highest - MaxDepth + 1

(* minHeight, for given values of pruneHeight and maxHeight *)
MinHeightOf(lowest, highest) ==
    IF lowest >= highest - MaxDepth THEN lowest ELSE highest - MaxDepth

MinHeight == MinHeightOf(pruneHeight, maxHeight)

(* While pruneHeight is undefined minHeight is NaN, which no number is below. *)
TooLow(b) == ~isEmpty /\ Number[b] < MinHeight

HasBlock(b) == b \in Attached

(* Mutation: a detached parent is good enough. *)
CanAttachOnStored(b) ==
    \/ isEmpty
    \/ Parent[b] \in Stored
    \/ Number[b] = MinHeight

(* Mutation: blocks far above minHeight are attached too. *)
CanAttachFromMinHeight(b) ==
    \/ isEmpty
    \/ HasBlock(Parent[b])
    \/ Number[b] >= MinHeight

CanAttachBlock(b) ==
    \/ isEmpty
    \/ HasBlock(Parent[b])
    \/ Number[b] = MinHeight

(* Mutation: the blocks that are attached already are not filtered out. *)
StoredAt(h) == {b \in Stored : Number[b] = h}

(* Mutation: the height is not looked at. *)
DetachedFrom(h) == {b \in Detached : Number[b] >= h}

DetachedAt(h) == {b \in Detached : Number[b] = h}

(* ancestry: the blocks met walking from b through attached parents.       *)
Ancestry[b \in Block] ==
    {b} \cup (IF HasBlock(Parent[b]) THEN Ancestry[Parent[b]] ELSE {})

(* getOldestAncestorInCache: the one without an attached parent. *)
OldestAncestorInCache(b) ==
    CHOOSE a \in Ancestry[b] : ~HasBlock(Parent[a])

-----------------------------------------------------------------------------
(* The block item store. *)

PutAttached(b, a) ==
    /\ item'  = [item  EXCEPT ![b] = a]
    /\ batch' = [batch EXCEPT ![b] = a]

(* Mutation: the last of the heights survives. *)
DeleteItemsButLast(lo, hi) ==
    LET gone == {b \in Stored : lo <= Number[b] /\ Number[b] < hi - 1} IN
    /\ item'  = [b \in Block |-> IF b \in gone THEN "absent" ELSE item[b]]
    /\ batch' = [b \in Block |-> IF b \in gone THEN "absent" ELSE batch[b]]

(* deleteItemsAtHeight for every height in lo..hi-1 *)
DeleteItems(lo, hi) ==
    LET gone == {b \in Stored : lo <= Number[b] /\ Number[b] < hi} IN
    /\ item'  = [b \in Block |-> IF b \in gone THEN "absent" ELSE item[b]]
    /\ batch' = [b \in Block |-> IF b \in gone THEN "absent" ELSE batch[b]]

CommitBatch ==
    /\ disk' = [b \in Block |-> IF batch[b] = "unchanged" THEN disk[b] ELSE batch[b]]
    /\ batch' = NoWrites

-----------------------------------------------------------------------------
(* addBlock *)

(* A block that is already there, or too deep, changes nothing. *)
AddBlockRefused(b) ==
    /\ stage = "idle"
    /\ \/ /\ item[b] = "attached"
          /\ addResult' = "NotAddedAlreadyExisted"
       \/ /\ item[b] # "attached" /\ TooLow(b)
          /\ addResult' = "NotAddedBlockNumberTooLow"
       \/ /\ item[b] = "detached" /\ ~TooLow(b)
          /\ addResult' = "NotAddedAlreadyExistedDetached"
    /\ UNCHANGED <<storeVars, cacheVars, headHash, stage, level, todo, emitting,
                   prevMinHeight, emitted, histVars>>

NewToCache(b) == stage = "idle" /\ item[b] = "absent" /\ ~TooLow(b)

(* The first block fixes the height below which nothing is stored. *)
AddBlockAttached(b) ==
    /\ NewToCache(b)
    /\ CanAttachBlock(b)
    /\ pruneHeight' = IF isEmpty THEN Number[b] ELSE pruneHeight
    /\ isEmpty' = FALSE
    /\ PutAttached(b, "attached")
    /\ stage' = "emit"
    /\ emitting' = b
    /\ level' = Number[b]
    /\ todo' = {}
    /\ prevMinHeight' = NotYet
    /\ addResult' = "None"
    /\ UNCHANGED <<disk, maxHeight, headHash, emitted, histVars>>

AddBlockDetached(b) ==
    /\ NewToCache(b)
    /\ ~CanAttachBlock(b)
    /\ PutAttached(b, "detached")
    /\ stage' = "commit"
    /\ addResult' = "AddedDetached"
    /\ UNCHANGED <<disk, cacheVars, headHash, level, todo, emitting, prevMinHeight,
                   emitted, histVars>>

(* await newBlock.emit(block): the listeners return *)
EmitNewBlock ==
    /\ stage = "emit"
    /\ emitted' = [emitted EXCEPT ![emitting] = @ + 1]
    /\ emitting' = NoBlock
    /\ stage' = "mark"
    /\ UNCHANGED <<storeVars, cacheVars, headHash, level, todo, prevMinHeight,
                   addResult, histVars>>

(* Mutation: the new state of the block is not put into the batch. *)
MarkDetachedInMemory(b) ==
    /\ stage = "mark"
    /\ b \in todo
    /\ item' = [item EXCEPT ![b] = "attached"]
    /\ todo' = todo \ {b}
    /\ emitting' = b
    /\ stage' = "emit"
    /\ UNCHANGED <<batch, disk, cacheVars, headHash, level, prevMinHeight, addResult,
                   emitted, histVars>>

(* The loop of processDetached: one more block of the level is attached,    *)
(* whatever its parent is.                                                  *)
MarkDetached(b) ==
    /\ stage = "mark"
    /\ b \in todo
    /\ PutAttached(b, "attached")
    /\ todo' = todo \ {b}
    /\ emitting' = b
    /\ stage' = "emit"
    /\ misplaced' = (misplaced \/ ~CanAttachBlock(b))
    /\ UNCHANGED <<disk, cacheVars, headHash, level, prevMinHeight, addResult,
                   emitted, loaded, rejections, restarts>>

(* updateMaxHeightAndPrune, then the recursive call for the next height *)
UpdateMaxHeightAndPrune ==
    /\ stage = "mark"
    /\ todo = {}
    /\ IF maxHeight < level
       THEN /\ maxHeight' = level
            /\ pruneHeight' = MinHeightOf(pruneHeight, level)
            /\ DeleteItems(pruneHeight, pruneHeight')
       ELSE UNCHANGED <<maxHeight, pruneHeight, item, batch>>
    /\ level' = level + 1
    /\ stage' = "scan"
    /\ UNCHANGED <<disk, isEmpty, headHash, todo, emitting, prevMinHeight,
                   addResult, emitted, histVars>>

(* processDetached reads the detached blocks of its height. *)
ScanLevel ==
    /\ stage = "scan"
    /\ todo' = DetachedAt(level)
    /\ stage' = IF todo' = {} THEN "settle" ELSE "mark"
    /\ UNCHANGED <<storeVars, cacheVars, headHash, level, emitting, prevMinHeight,
                   addResult, emitted, histVars>>

(* Mutation: the blocks at minHeight are not looked at again. *)
SettleAtOnce ==
    /\ stage = "settle"
    /\ stage' = "commit"
    /\ addResult' = "Added"
    /\ UNCHANGED <<storeVars, cacheVars, headHash, level, todo, emitting,
                   prevMinHeight, emitted, histVars>>

(* Mutation: the loop goes on while minHeight has not decreased. *)
SettleForever ==
    /\ stage = "settle"
    /\ MinHeight >= prevMinHeight
    /\ prevMinHeight' = MinHeight
    /\ level' = MinHeight
    /\ stage' = "scan"
    /\ UNCHANGED <<storeVars, cacheVars, headHash, todo, emitting, addResult,
                   emitted, histVars>>

(* processDetachedBlocksAtMinHeight: again from minHeight while it moves *)
SettleAtMinHeight ==
    /\ stage = "settle"
    /\ IF MinHeight > prevMinHeight
       THEN /\ prevMinHeight' = MinHeight
            /\ level' = MinHeight
            /\ stage' = "scan"
            /\ UNCHANGED addResult
       ELSE /\ stage' = "commit"
            /\ addResult' = "Added"
            /\ UNCHANGED <<level, prevMinHeight>>
    /\ UNCHANGED <<storeVars, cacheVars, headHash, todo, emitting, emitted, histVars>>

(* withBatch writes everything atomically, and addBlock's caller goes on. *)
WriteBatch ==
    /\ stage = "commit"
    /\ CommitBatch
    /\ stage' = "idle"
    /\ UNCHANGED <<item, cacheVars, headHash, level, todo, emitting, prevMinHeight,
                   addResult, emitted, histVars>>

-----------------------------------------------------------------------------
(* Failures, crashes and the head *)

(* A newBlock listener throws, or the batch cannot be written: the batch is *)
(* dropped, the memory keeps what was done so far, the lock is released.    *)
RejectBatch ==
    /\ stage \in {"emit", "commit"}
    /\ rejections < MaxRejections
    /\ rejections' = rejections + 1
    /\ emitted' = IF stage = "emit" THEN [emitted EXCEPT ![emitting] = @ + 1] ELSE emitted
    /\ batch' = NoWrites
    /\ stage' = "idle"
    /\ emitting' = NoBlock
    /\ todo' = {}
    /\ addResult' = "Rejected"
    /\ UNCHANGED <<item, disk, cacheVars, headHash, level, prevMinHeight, loaded,
                   misplaced, restarts>>

(* The process dies; the next one loads the items (startInternal of the    *)
(* store) and constructs a cache, whose own fields start afresh.           *)
Restart ==
    /\ restarts < MaxRestarts
    /\ restarts' = restarts + 1
    /\ item' = disk
    /\ batch' = NoWrites
    /\ isEmpty' = TRUE
    /\ pruneHeight' = 0
    /\ maxHeight' = 0
    /\ headHash' = NoBlock
    /\ stage' = "idle"
    /\ level' = 0
    /\ todo' = {}
    /\ emitting' = NoBlock
    /\ prevMinHeight' = NotYet
    /\ addResult' = "None"
    /\ emitted' = [b \in Block |-> 0]
    /\ loaded' = {b \in Block : disk[b] # "absent"}
    /\ misplaced' = FALSE
    /\ rejections' = 0
    /\ UNCHANGED disk

(* Mutation: detached blocks are accepted. *)
SetHeadStored(b) ==
    /\ b \in Stored
    /\ headHash' = b
    /\ UNCHANGED <<storeVars, cacheVars, callVars, emitted, histVars>>

(* setHead throws, and changes nothing, for a block that is not attached. *)
SetHead(b) ==
    /\ HasBlock(b)
    /\ headHash' = b
    /\ UNCHANGED <<storeVars, cacheVars, callVars, emitted, histVars>>

-----------------------------------------------------------------------------
Init ==
    /\ item = [b \in Block |-> "absent"]
    /\ batch = NoWrites
    /\ disk = [b \in Block |-> "absent"]
    /\ isEmpty = TRUE
    /\ pruneHeight = 0
    /\ maxHeight = 0
    /\ headHash = NoBlock
    /\ stage = "idle"
    /\ level = 0
    /\ todo = {}
    /\ emitting = NoBlock
    /\ prevMinHeight = NotYet
    /\ addResult = "None"
    /\ emitted = [b \in Block |-> 0]
    /\ loaded = {}
    /\ misplaced = FALSE
    /\ rejections = 0
    /\ restarts = 0

AddBlock(b) == AddBlockRefused(b) \/ AddBlockAttached(b) \/ AddBlockDetached(b)

(* What addBlock does on its own once it is called. *)
Continue ==
    \/ EmitNewBlock
    \/ \E b \in Block : MarkDetached(b)
    \/ UpdateMaxHeightAndPrune
    \/ ScanLevel
    \/ SettleAtMinHeight
    \/ WriteBatch

Next ==
    \/ \E b \in Block : AddBlock(b)
    \/ Continue
    \/ RejectBatch
    \/ Restart
    \/ \E b \in Block : SetHead(b)

Spec == Init /\ [][Next]_vars

(* A call that was made keeps running: nothing in it waits for the outside. *)
FairSpec == Spec /\ WF_vars(Continue)
-----------------------------------------------------------------------------
(* Properties *)

(* Every field has the values the code gives it. *)
TypeOK ==
    /\ item \in [Block -> Status]
    /\ batch \in [Block -> Status \cup {"unchanged"}]
    /\ disk \in [Block -> Status]
    /\ isEmpty \in BOOLEAN
    /\ pruneHeight \in Nat
    /\ maxHeight \in Nat
    /\ headHash \in Block \cup {NoBlock}
    /\ stage \in Stage
    /\ level \in Nat
    /\ todo \subseteq Block
    /\ emitting \in Block \cup {NoBlock}
    /\ stage = "emit" => emitting \in Block
    /\ prevMinHeight \in Nat \cup {NotYet}
    /\ addResult \in Results
    /\ emitted \in [Block -> Nat]
    /\ loaded \subseteq Block
    /\ misplaced \in BOOLEAN
    /\ rejections \in Nat
    /\ restarts \in Nat

(* The process runs on an empty database and no batch was rejected: the    *)
(* premise under which the cache promises most.                            *)
Undisturbed == loaded = {} /\ rejections = 0

(* blockCache.ts:43-44: between calls no stored block, attached or not, is  *)
(* more than maxDepth below an attached one, in any order of additions.     *)
NoBlockTooDeep ==
    stage = "idle" /\ Undisturbed =>
        \A s \in Stored, a \in Attached : Number[a] - Number[s] <= MaxDepth

(* One newBlock event per block that became attached, none for the others:  *)
(* never a second one in the same run of the process, even after a pruned   *)
(* block is offered again or a batch was rejected.                          *)
EmittedOncePerSession ==
    \A b \in Block :
        /\ emitted[b] <= 1
        /\ item[b] = "detached" => emitted[b] = 0
        /\ b \in Attached \ loaded => emitted[b] = IF b = emitting THEN 0 ELSE 1

(* The cascade of processDetached never jumps over a height: under every    *)
(* attached block, down to minHeight, there is an attached block.           *)
AttachedHeightsContiguous ==
    loaded = {} =>
        \A b \in Attached : Number[b] > MinHeight =>
            \E a \in Attached : Number[a] = Number[b] - 1

(* When addBlock has returned no stored block that could be attached is     *)
(* still detached: the cascade and the loop at minHeight found them all.    *)
NothingAttachableLeft ==
    stage = "idle" /\ Undisturbed => \A b \in Detached : ~CanAttachBlock(b)

(* The head stays readable as an attached block until it is pruned.         *)
HeadAttachedUnlessPruned ==
    headHash # NoBlock =>
        \/ headHash \in Attached
        \/ item[headHash] = "absent" /\ Number[headHash] < pruneHeight

(* What is on disk is, at every instant, something a restart can go on     *)
(* from (block.ts:217-222): no height is missing below an attached block.   *)
Recoverable ==
    \A b \in Block : disk[b] = "attached" =>
        \/ \E a \in Block : disk[a] = "attached" /\ Number[a] = Number[b] - 1
        \/ \A a \in Block : disk[a] # "absent" => Number[a] >= Number[b]

RecoverableIfNothingRejected == Undisturbed => Recoverable

(* blockCache.ts:46: within a run of the process a stored block disappears  *)
(* only once some attached block is more than maxDepth above it.            *)
KeptWhileShallow ==
    [][\A b \in Stored : item'[b] = "absent" /\ restarts' = restarts =>
            \E a \in Attached' : Number[a] - Number[b] > MaxDepth]_vars

(* Every call of addBlock returns, by its own steps: the recursion of       *)
(* processDetached and the loop at minHeight end.                           *)
AddBlockReturns == stage # "idle" ~> stage = "idle"

=============================================================================

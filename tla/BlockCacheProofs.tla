-------------------------- MODULE BlockCacheProofs --------------------------
(***************************************************************************)
(* What the block cache keeps for every block tree, every maxDepth and any *)
(* number of rejected batches and restarts.                                *)
(*                                                                         *)
(* The properties are not inductive by themselves: a pruned block could    *)
(* come back, or a head be pruned above pruneHeight, if the call in        *)
(* progress could hold other values than it does.  IndInv adds what is     *)
(* true of the call in progress at each of its stages; DeepInv what the    *)
(* cascade has done and has still to do, level by level; BatchInv and      *)
(* EverClosed what a caller of the cache needs to know of the open batch   *)
(* and of the ancestors of a block.                                        *)
(***************************************************************************)
EXTENDS BlockCache, TLAPS, WellFoundedInduction

(* The block being announced is attached, at the level worked on, and has  *)
(* not been announced yet.                                                  *)
CallEmitting ==
    IF stage = "emit"
    THEN item[emitting] = "attached" /\ Number[emitting] = level /\ emitted[emitting] = 0
    ELSE emitting = NoBlock

(* What is left of a level is detached, and of that level. *)
CallTodo ==
    /\ \A b \in todo : item[b] = "detached" /\ Number[b] = level
    /\ stage \notin {"emit", "mark"} => todo = {}

(* A level that is being processed has, or will have, an attached block. *)
CallLevel ==
    stage = "mark" =>
        todo # {} \/ \E a \in Block : item[a] = "attached" /\ Number[a] = level

CallNotEmpty == stage # "idle" => ~isEmpty

(* An announced block is attached, or gone for good. *)
AnnouncedStays ==
    \A b \in Block : emitted[b] # 0 =>
        /\ emitted[b] = 1
        /\ b # emitting
        /\ \/ item[b] = "attached"
           \/ item[b] = "absent" /\ ~isEmpty /\ Number[b] < pruneHeight

(* A block attached in this run of the process was announced. *)
AttachedAnnounced ==
    \A b \in Block : item[b] = "attached" /\ b \notin loaded =>
        b = emitting \/ emitted[b] = 1

(* The head is attached, or gone for good. *)
HeadStays ==
    headHash # NoBlock =>
        \/ item[headHash] = "attached"
        \/ item[headHash] = "absent" /\ ~isEmpty /\ Number[headHash] < pruneHeight

(* No block of this run of the process is below the first one that was      *)
(* added, or below what has been pruned since.                              *)
NothingBelowPruneHeight ==
    \A b \in Stored \ loaded : ~isEmpty /\ Number[b] >= pruneHeight

IndInv ==
    /\ TypeOK
    /\ CallEmitting
    /\ CallTodo
    /\ CallLevel
    /\ CallNotEmpty
    /\ AnnouncedStays
    /\ AttachedAnnounced
    /\ HeadStays
    /\ NothingBelowPruneHeight

-----------------------------------------------------------------------------
(* minHeight is a height, and never below pruneHeight. *)
LEMMA MinHeightAbovePrune ==
    ASSUME NEW lowest \in Nat, NEW highest \in Nat
    PROVE  /\ MinHeightOf(lowest, highest) \in Nat
           /\ MinHeightOf(lowest, highest) >= lowest
           /\ MinHeightOf(lowest, highest) >= highest - MaxDepth
           /\ \/ MinHeightOf(lowest, highest) = lowest
              \/ MinHeightOf(lowest, highest) = highest - MaxDepth
BY BoundAssumption DEF MinHeightOf

(* A block that addBlock accepts was never announced in this run. *)
LEMMA NewIsUnannounced ==
    ASSUME IndInv, NEW b \in Block, NewToCache(b)
    PROVE  /\ emitted[b] = 0
           /\ ~isEmpty => Number[b] >= pruneHeight
           /\ item[b] = "absent"
           /\ emitting = NoBlock
           /\ b # headHash
<1>1. ~isEmpty => Number[b] >= pruneHeight
  BY MinHeightAbovePrune, ChainAssumption, BoundAssumption
     DEF IndInv, TypeOK, NewToCache, TooLow, MinHeight
<1>2. emitted[b] = 0
  BY <1>1, ChainAssumption DEF IndInv, TypeOK, AnnouncedStays, NewToCache
<1>3. b # headHash
  BY <1>1, ChainAssumption DEF IndInv, TypeOK, HeadStays, NewToCache
<1> QED
  BY <1>1, <1>2, <1>3 DEF IndInv, NewToCache, CallEmitting

(* An empty cache satisfies the invariant. *)
LEMMA InitInv == Init => IndInv
<1>1. Init => TypeOK
  <2>1. Init => misplaced \in BOOLEAN /\ isEmpty \in BOOLEAN
    BY Zenon DEF Init
  <2> QED
    BY <2>1 DEF Init, TypeOK, Status, Stage, Results, NoWrites, NotYet
<1>2. Init => /\ CallEmitting /\ CallTodo /\ CallLevel /\ CallNotEmpty /\ AnnouncedStays
              /\ AttachedAnnounced /\ HeadStays /\ NothingBelowPruneHeight
  BY ChainAssumption
     DEF Init, CallEmitting, CallTodo, CallLevel, CallNotEmpty, AnnouncedStays,
         AttachedAnnounced, HeadStays, NothingBelowPruneHeight, Stored
<1> QED
  BY <1>1, <1>2 DEF IndInv

(* The type invariant is inductive on its own, up to the emitting block. *)
LEMMA TypeStep == IndInv /\ [Next]_vars => TypeOK'
<1> SUFFICES ASSUME IndInv, [Next]_vars PROVE TypeOK'
  OBVIOUS
<1> USE ChainAssumption, BoundAssumption
<1>1. TypeOK
  BY DEF IndInv
<1> USE <1>1 DEF TypeOK, Status, Stage, Results, NotYet
<1>2. ASSUME NEW b \in Block, AddBlockRefused(b) PROVE TypeOK'
  BY <1>2 DEF AddBlockRefused, storeVars, cacheVars, histVars
<1>3. ASSUME NEW b \in Block, AddBlockAttached(b) PROVE TypeOK'
  BY <1>3 DEF AddBlockAttached, PutAttached, histVars
<1>4. ASSUME NEW b \in Block, AddBlockDetached(b) PROVE TypeOK'
  BY <1>4 DEF AddBlockDetached, PutAttached, cacheVars, histVars
<1>5. CASE EmitNewBlock
  BY <1>5 DEF EmitNewBlock, storeVars, cacheVars, histVars
<1>6. ASSUME NEW b \in Block, MarkDetached(b) PROVE TypeOK'
  BY <1>6 DEF MarkDetached, PutAttached, cacheVars, histVars
<1>7. CASE UpdateMaxHeightAndPrune
  <2>1. pruneHeight' \in Nat /\ maxHeight' \in Nat /\ level' \in Nat
    <3>1. level \in Nat /\ pruneHeight \in Nat /\ maxHeight \in Nat
      OBVIOUS
    <3>2. MinHeightOf(pruneHeight, level) \in Nat
      BY <3>1, MinHeightAbovePrune
    <3> QED
      BY <1>7, <3>1, <3>2 DEF UpdateMaxHeightAndPrune
  <2>2. item' \in [Block -> Status] /\ batch' \in [Block -> Status \cup {"unchanged"}]
    BY <1>7 DEF UpdateMaxHeightAndPrune, DeleteItems
  <2> QED
    BY <1>7, <2>1, <2>2 DEF UpdateMaxHeightAndPrune, histVars
<1>8. CASE ScanLevel
  BY <1>8 DEF ScanLevel, DetachedAt, Detached, storeVars, cacheVars, histVars
<1>9. CASE SettleAtMinHeight
  <2>1. MinHeight \in Nat
    BY MinHeightAbovePrune DEF MinHeight
  <2> QED
    BY <1>9, <2>1 DEF SettleAtMinHeight, storeVars, cacheVars, histVars
<1>10. CASE WriteBatch
  BY <1>10 DEF WriteBatch, CommitBatch, NoWrites, cacheVars, histVars
<1>11. CASE RejectBatch
  BY <1>11 DEF RejectBatch, NoWrites, cacheVars
<1>12. CASE Restart
  <2>1. misplaced' \in BOOLEAN /\ isEmpty' \in BOOLEAN
    BY <1>12, Zenon DEF Restart
  <2> QED
    BY <1>12, <2>1 DEF Restart, NoWrites
<1>13. ASSUME NEW b \in Block, SetHead(b) PROVE TypeOK'
  BY <1>13 DEF SetHead, storeVars, cacheVars, callVars, histVars
<1>14. CASE UNCHANGED vars
  BY <1>14 DEF vars, storeVars, cacheVars, callVars, histVars
<1> QED
  BY <1>2, <1>3, <1>4, <1>5, <1>6, <1>7, <1>8, <1>9, <1>10, <1>11, <1>12, <1>13, <1>14
     DEF Next, AddBlock, Continue

(* IndInv without the types, which TypeStep has dealt with. *)
InvParts ==
    /\ CallEmitting
    /\ CallTodo
    /\ CallLevel
    /\ CallNotEmpty
    /\ AnnouncedStays
    /\ AttachedAnnounced
    /\ HeadStays
    /\ NothingBelowPruneHeight

(* A new block, attached at once. *)
LEMMA StepAddAttached ==
    ASSUME IndInv, TypeOK', NEW b \in Block, AddBlockAttached(b)
    PROVE  InvParts'
<1> USE ChainAssumption, BoundAssumption
<1>1. /\ TypeOK
      /\ emitted[b] = 0
      /\ ~isEmpty => Number[b] >= pruneHeight
      /\ item[b] = "absent"
      /\ emitting = NoBlock
      /\ b # headHash
  BY NewIsUnannounced DEF AddBlockAttached, IndInv
<1>2. /\ item' = [item EXCEPT ![b] = "attached"]
      /\ stage' = "emit" /\ emitting' = b /\ level' = Number[b] /\ todo' = {}
      /\ ~isEmpty'
      /\ pruneHeight' = IF isEmpty THEN Number[b] ELSE pruneHeight
      /\ UNCHANGED <<headHash, emitted, loaded>>
  BY DEF AddBlockAttached, PutAttached, histVars
<1>3. /\ item'[b] = "attached"
      /\ \A c \in Block : c # b => item'[c] = item[c]
  BY <1>1, <1>2 DEF TypeOK
<1>4. CallEmitting'
  BY <1>1, <1>2, <1>3 DEF CallEmitting
<1>5. CallTodo' /\ CallLevel' /\ CallNotEmpty'
  BY <1>2 DEF CallTodo, CallLevel, CallNotEmpty
<1>6. AnnouncedStays'
  <2> SUFFICES ASSUME NEW c \in Block, emitted[c] # 0
               PROVE  /\ emitted[c] = 1
                      /\ c # b
                      /\ \/ item'[c] = "attached"
                         \/ item'[c] = "absent" /\ ~isEmpty' /\ Number[c] < pruneHeight'
    BY <1>2 DEF AnnouncedStays
  <2>1. c # b
    BY <1>1
  <2> QED
    BY <1>2, <1>3, <2>1 DEF IndInv, AnnouncedStays
<1>7. AttachedAnnounced'
  BY <1>1, <1>2, <1>3 DEF IndInv, AttachedAnnounced, TypeOK
<1>8. HeadStays'
  BY <1>1, <1>2, <1>3 DEF IndInv, HeadStays, TypeOK
<1>9. NothingBelowPruneHeight'
  BY <1>1, <1>2, <1>3 DEF IndInv, NothingBelowPruneHeight, Stored, TypeOK
<1> QED
  BY <1>4, <1>5, <1>6, <1>7, <1>8, <1>9 DEF InvParts

(* A new block, stored as detached. *)
LEMMA StepAddDetached ==
    ASSUME IndInv, TypeOK', NEW b \in Block, AddBlockDetached(b)
    PROVE  InvParts'
<1> USE ChainAssumption, BoundAssumption
<1>1. /\ TypeOK
      /\ emitted[b] = 0
      /\ ~isEmpty => Number[b] >= pruneHeight
      /\ item[b] = "absent"
      /\ emitting = NoBlock
      /\ b # headHash
  BY NewIsUnannounced DEF AddBlockDetached, IndInv
<1>2. /\ item' = [item EXCEPT ![b] = "detached"]
      /\ stage = "idle" /\ stage' = "commit"
      /\ ~isEmpty
      /\ UNCHANGED <<isEmpty, pruneHeight, headHash, level, todo, emitting, emitted, loaded>>
  BY DEF AddBlockDetached, CanAttachBlock, NewToCache, PutAttached, cacheVars, histVars
<1>3. /\ item'[b] = "detached"
      /\ \A c \in Block : c # b => item'[c] = item[c]
  BY <1>1, <1>2 DEF TypeOK
<1>4. CallEmitting' /\ CallTodo' /\ CallLevel' /\ CallNotEmpty'
  BY <1>1, <1>2, <1>3 DEF IndInv, CallEmitting, CallTodo, CallLevel, CallNotEmpty
<1>5. AnnouncedStays'
  BY <1>1, <1>2, <1>3 DEF IndInv, AnnouncedStays
<1>6. AttachedAnnounced'
  BY <1>1, <1>2, <1>3 DEF IndInv, AttachedAnnounced
<1>7. HeadStays'
  BY <1>1, <1>2, <1>3 DEF IndInv, HeadStays, TypeOK
<1>8. NothingBelowPruneHeight'
  BY <1>1, <1>2, <1>3 DEF IndInv, NothingBelowPruneHeight, Stored, TypeOK
<1> QED
  BY <1>4, <1>5, <1>6, <1>7, <1>8 DEF InvParts

(* The announcement of a block is delivered, by a listener that returns or *)
(* by one that throws; or the write of the batch fails.                     *)
LEMMA StepEmit ==
    ASSUME IndInv, TypeOK', EmitNewBlock \/ RejectBatch
    PROVE  InvParts'
<1> USE ChainAssumption, BoundAssumption
<1>1. TypeOK
  BY DEF IndInv
<1>2. UNCHANGED <<item, isEmpty, pruneHeight, headHash, level, loaded>>
  BY DEF EmitNewBlock, RejectBatch, storeVars, cacheVars, histVars
<1>3. /\ emitting' = NoBlock /\ stage' \in {"mark", "idle"}
      /\ stage' = "mark" => stage = "emit" /\ todo' = todo
      /\ stage' = "idle" => todo' = {}
      /\ stage = "emit" => emitted' = [emitted EXCEPT ![emitting] = @ + 1]
      /\ stage # "emit" => emitted' = emitted
  BY DEF EmitNewBlock, RejectBatch
<1>4. CallEmitting' /\ CallTodo' /\ CallLevel' /\ CallNotEmpty'
  BY <1>1, <1>2, <1>3
     DEF IndInv, CallEmitting, CallTodo, CallLevel, CallNotEmpty, TypeOK
<1>5. CASE stage = "emit"
  <2>1. /\ emitting \in Block /\ item[emitting] = "attached" /\ emitted[emitting] = 0
        /\ emitted'[emitting] = 1
        /\ \A c \in Block : c # emitting => emitted'[c] = emitted[c]
    BY <1>1, <1>3, <1>5 DEF IndInv, CallEmitting, TypeOK
  <2>2. AnnouncedStays'
    BY <1>2, <1>3, <2>1 DEF IndInv, AnnouncedStays
  <2>3. AttachedAnnounced'
    BY <1>2, <1>3, <2>1 DEF IndInv, AttachedAnnounced
  <2> QED
    BY <1>2, <1>4, <2>2, <2>3
       DEF IndInv, InvParts, HeadStays, NothingBelowPruneHeight, Stored
<1>6. CASE stage # "emit"
  BY <1>2, <1>3, <1>4, <1>6
     DEF IndInv, InvParts, CallEmitting, AnnouncedStays, AttachedAnnounced, HeadStays,
         NothingBelowPruneHeight, Stored
<1> QED
  BY <1>5, <1>6

(* One more detached block of the level becomes attached. *)
LEMMA StepMark ==
    ASSUME IndInv, TypeOK', NEW b \in Block, MarkDetached(b)
    PROVE  InvParts'
<1> USE ChainAssumption, BoundAssumption
<1>1. TypeOK /\ item[b] = "detached" /\ Number[b] = level /\ emitting = NoBlock
  BY DEF IndInv, MarkDetached, CallTodo, CallEmitting
<1>2. /\ item' = [item EXCEPT ![b] = "attached"]
      /\ stage = "mark" /\ stage' = "emit" /\ emitting' = b /\ todo' = todo \ {b}
      /\ UNCHANGED <<isEmpty, pruneHeight, headHash, level, emitted, loaded>>
  BY DEF MarkDetached, PutAttached, cacheVars, histVars
<1>3. /\ item'[b] = "attached"
      /\ \A c \in Block : c # b => item'[c] = item[c]
  BY <1>1, <1>2 DEF TypeOK
<1>4. emitted[b] = 0
  BY <1>1 DEF IndInv, AnnouncedStays, TypeOK
<1>5. CallEmitting'
  BY <1>1, <1>2, <1>3, <1>4 DEF CallEmitting
<1>6. CallTodo'
  BY <1>1, <1>2, <1>3 DEF IndInv, CallTodo, TypeOK
<1>7. CallLevel' /\ CallNotEmpty'
  BY <1>2 DEF IndInv, CallLevel, CallNotEmpty
<1>8. AnnouncedStays'
  BY <1>1, <1>2, <1>3, <1>4 DEF IndInv, AnnouncedStays
<1>9. AttachedAnnounced'
  BY <1>1, <1>2, <1>3 DEF IndInv, AttachedAnnounced, TypeOK
<1>10. HeadStays'
  BY <1>1, <1>2, <1>3 DEF IndInv, HeadStays, TypeOK
<1>11. NothingBelowPruneHeight'
  BY <1>1, <1>2, <1>3 DEF IndInv, NothingBelowPruneHeight, Stored, TypeOK
<1> QED
  BY <1>5, <1>6, <1>7, <1>8, <1>9, <1>10, <1>11 DEF InvParts

(* What pruning does to one block. *)
LEMMA PruneEffect ==
    ASSUME IndInv, UpdateMaxHeightAndPrune
    PROVE  /\ pruneHeight' \in Nat /\ pruneHeight' >= pruneHeight
           /\ \A b \in Block :
                 \/ item'[b] = item[b]
                    /\ (item[b] # "absent" /\ Number[b] >= pruneHeight
                           => Number[b] >= pruneHeight')
                 \/ /\ item[b] # "absent" /\ item'[b] = "absent"
                    /\ pruneHeight <= Number[b] /\ Number[b] < pruneHeight'
                    /\ pruneHeight' = level - MaxDepth
<1> USE ChainAssumption, BoundAssumption
<1>1. TypeOK
  BY DEF IndInv
<1>2. pruneHeight \in Nat /\ level \in Nat /\ item \in [Block -> Status]
  BY <1>1 DEF TypeOK
<1>3. CASE maxHeight < level
  <2>1. /\ pruneHeight' = MinHeightOf(pruneHeight, level)
        /\ item' = [b \in Block |->
              IF b \in Stored /\ pruneHeight <= Number[b] /\ Number[b] < pruneHeight'
              THEN "absent" ELSE item[b]]
    BY <1>3 DEF UpdateMaxHeightAndPrune, DeleteItems
  <2>2. /\ pruneHeight' \in Nat /\ pruneHeight' >= pruneHeight
        /\ pruneHeight' = pruneHeight \/ pruneHeight' = level - MaxDepth
    BY <1>2, <2>1, MinHeightAbovePrune
  <2> QED
    BY <1>2, <2>1, <2>2 DEF Stored
<1>4. CASE ~(maxHeight < level)
  BY <1>2, <1>4 DEF UpdateMaxHeightAndPrune
<1> QED
  BY <1>3, <1>4

(* The end of a level: the highest block may now be higher, and pruning follows. *)
LEMMA StepUpdate ==
    ASSUME IndInv, TypeOK', UpdateMaxHeightAndPrune
    PROVE  InvParts'
<1> USE ChainAssumption, BoundAssumption
<1>1. TypeOK /\ TypeOK'
  BY DEF IndInv
<1>2. /\ stage = "mark" /\ stage' = "scan" /\ todo = {} /\ todo' = {}
      /\ emitting = NoBlock /\ emitting' = NoBlock
      /\ ~isEmpty
      /\ UNCHANGED <<isEmpty, headHash, emitted, loaded>>
  BY DEF IndInv, UpdateMaxHeightAndPrune, histVars, CallEmitting, CallNotEmpty
<1>3. CallEmitting' /\ CallTodo' /\ CallLevel' /\ CallNotEmpty'
  BY <1>2 DEF CallEmitting, CallTodo, CallLevel, CallNotEmpty
<1>4. AnnouncedStays'
  <2> SUFFICES ASSUME NEW c \in Block, emitted[c] # 0
               PROVE  /\ emitted[c] = 1
                      /\ c # emitting'
                      /\ \/ item'[c] = "attached"
                         \/ item'[c] = "absent" /\ ~isEmpty' /\ Number[c] < pruneHeight'
    BY <1>2 DEF AnnouncedStays
  <2>1. Number[c] \in Nat /\ pruneHeight \in Nat /\ pruneHeight' \in Nat
    BY <1>1 DEF TypeOK
  <2> QED
    BY <1>2, <2>1, PruneEffect DEF IndInv, AnnouncedStays
<1>5. AttachedAnnounced'
  BY <1>2, PruneEffect DEF IndInv, AttachedAnnounced
<1>6. HeadStays'
  <2> SUFFICES ASSUME headHash # NoBlock
               PROVE  \/ item'[headHash] = "attached"
                      \/ /\ item'[headHash] = "absent" /\ ~isEmpty'
                         /\ Number[headHash] < pruneHeight'
    BY <1>2 DEF HeadStays
  <2>1. headHash \in Block /\ Number[headHash] \in Nat
        /\ pruneHeight \in Nat /\ pruneHeight' \in Nat
    BY <1>1 DEF TypeOK
  <2> QED
    BY <1>2, <2>1, PruneEffect DEF IndInv, HeadStays
<1>7. NothingBelowPruneHeight'
  BY <1>1, <1>2, PruneEffect DEF IndInv, NothingBelowPruneHeight, Stored
<1> QED
  BY <1>3, <1>4, <1>5, <1>6, <1>7 DEF InvParts

(* Steps that only move the call on. *)
LEMMA StepMoveOn ==
    ASSUME IndInv, TypeOK',
           \/ \E b \in Block : AddBlockRefused(b)
           \/ ScanLevel
           \/ SettleAtMinHeight
           \/ WriteBatch
           \/ UNCHANGED vars
    PROVE  InvParts'
<1> USE ChainAssumption, BoundAssumption
<1>1. UNCHANGED <<item, isEmpty, pruneHeight, headHash, emitting, emitted, loaded>>
  BY DEF AddBlockRefused, ScanLevel, SettleAtMinHeight, WriteBatch, vars, storeVars,
         cacheVars, callVars, histVars
<1>2. AnnouncedStays' /\ AttachedAnnounced' /\ HeadStays' /\ NothingBelowPruneHeight'
  BY <1>1 DEF IndInv, AnnouncedStays, AttachedAnnounced, HeadStays,
              NothingBelowPruneHeight, Stored
<1>3. CASE ScanLevel
  <2>1. /\ stage = "scan" /\ stage' \in {"settle", "mark"}
        /\ stage' = "settle" <=> todo' = {}
        /\ \A b \in todo' : item[b] = "detached" /\ Number[b] = level
        /\ level' = level
    BY <1>3 DEF ScanLevel, DetachedAt, Detached
  <2> QED
    BY <1>1, <1>2, <2>1
       DEF IndInv, InvParts, CallEmitting, CallTodo, CallLevel, CallNotEmpty
<1>4. CASE SettleAtMinHeight \/ WriteBatch
  <2>1. /\ stage \in {"settle", "commit"} /\ stage' \in {"scan", "commit", "idle"}
        /\ todo' = todo
    BY <1>4 DEF SettleAtMinHeight, WriteBatch
  <2> QED
    BY <1>1, <1>2, <2>1
       DEF IndInv, InvParts, CallEmitting, CallTodo, CallLevel, CallNotEmpty
<1>5. CASE (\E b \in Block : AddBlockRefused(b)) \/ UNCHANGED vars
  <2>1. UNCHANGED <<stage, todo, level>>
    BY <1>5 DEF AddBlockRefused, vars, callVars
  <2> QED
    BY <1>1, <1>2, <2>1
       DEF IndInv, InvParts, CallEmitting, CallTodo, CallLevel, CallNotEmpty
<1> QED
  BY <1>3, <1>4, <1>5

(* A new process starts from what is on disk, having announced nothing. *)
LEMMA StepRestart ==
    ASSUME IndInv, TypeOK', Restart
    PROVE  InvParts'
BY DEF IndInv, TypeOK, Restart, InvParts, CallEmitting, CallTodo, CallLevel,
       CallNotEmpty, AnnouncedStays, AttachedAnnounced, HeadStays,
       NothingBelowPruneHeight, Stored, Status

(* setHead takes an attached block only. *)
LEMMA StepSetHead ==
    ASSUME IndInv, TypeOK', NEW b \in Block, SetHead(b)
    PROVE  InvParts'
BY DEF IndInv, TypeOK, SetHead, HasBlock, Attached, InvParts, CallEmitting, CallTodo,
       CallLevel, CallNotEmpty, AnnouncedStays, AttachedAnnounced, HeadStays,
       NothingBelowPruneHeight, Stored, storeVars, cacheVars, callVars, histVars

(* Every step of the cache preserves the invariant. *)
LEMMA StepInv == IndInv /\ [Next]_vars => IndInv'
<1> SUFFICES ASSUME IndInv, [Next]_vars PROVE IndInv'
  OBVIOUS
<1>1. TypeOK'
  BY TypeStep
<1>2. InvParts'
  BY <1>1, StepAddAttached, StepAddDetached, StepEmit, StepMark, StepUpdate,
     StepMoveOn, StepRestart, StepSetHead DEF Next, AddBlock, Continue
<1> QED
  BY <1>1, <1>2 DEF InvParts, IndInv

-----------------------------------------------------------------------------
(* The theorems *)

(* IndInv holds in every state of the cache. *)
THEOREM CacheInvariant == Spec => []IndInv
BY InitInv, StepInv, PTL DEF Spec

(* Every field keeps the values the code gives it. *)
THEOREM CacheTypeOK == Spec => []TypeOK
<1>1. IndInv => TypeOK
  BY DEF IndInv
<1> QED
  BY <1>1, CacheInvariant, PTL

(* addBlock announces every block it attaches exactly once in a run of the  *)
(* process, whatever is added, in whatever order, and whatever fails.       *)
THEOREM CacheEmitsOnce == Spec => []EmittedOncePerSession
<1>1. IndInv => EmittedOncePerSession
  <2> SUFFICES ASSUME IndInv, NEW b \in Block
               PROVE  /\ emitted[b] <= 1
                      /\ item[b] = "detached" => emitted[b] = 0
                      /\ b \in Attached \ loaded =>
                            emitted[b] = IF b = emitting THEN 0 ELSE 1
    BY DEF EmittedOncePerSession
  <2>1. emitted[b] = 0 \/ emitted[b] = 1
    BY DEF IndInv, AnnouncedStays
  <2>2. item[b] = "detached" => emitted[b] = 0
    BY DEF IndInv, AnnouncedStays
  <2>3. b = emitting => emitted[b] = 0
    BY DEF IndInv, AnnouncedStays
  <2> QED
    BY <2>1, <2>2, <2>3 DEF IndInv, AttachedAnnounced, Attached
<1> QED
  BY <1>1, CacheInvariant, PTL

(* setHead's block stays attached until prune removes it. *)
THEOREM CacheHead == Spec => []HeadAttachedUnlessPruned
<1>1. IndInv => HeadAttachedUnlessPruned
  BY DEF IndInv, TypeOK, HeadStays, HeadAttachedUnlessPruned, Attached
<1> QED
  BY <1>1, CacheInvariant, PTL

(* prune removes nothing that may still be needed: a block goes only when a  *)
(* block more than maxDepth above it is attached, and stays.                *)
LEMMA PrunedIsDeep ==
    ASSUME IndInv, UpdateMaxHeightAndPrune, NEW b \in Stored, item'[b] = "absent"
    PROVE  \E a \in Attached' : Number[a] - Number[b] > MaxDepth
<1> USE ChainAssumption, BoundAssumption
<1>1. TypeOK /\ b \in Block /\ item[b] # "absent" /\ stage = "mark" /\ todo = {}
  BY DEF IndInv, Stored, UpdateMaxHeightAndPrune
<1>2. Number[b] < level - MaxDepth /\ pruneHeight' = level - MaxDepth
  BY <1>1, PruneEffect
<1>3. PICK a \in Block : item[a] = "attached" /\ Number[a] = level
  BY <1>1 DEF IndInv, CallLevel
<1>4. level \in Nat /\ Number[a] \in Nat /\ Number[b] \in Nat
  BY <1>1 DEF TypeOK
<1>5. item'[a] = "attached"
  BY <1>2, <1>3, <1>4, PruneEffect
<1>6. a \in Attached' /\ Number[a] - Number[b] > MaxDepth
  BY <1>2, <1>3, <1>4, <1>5 DEF Attached
<1> QED
  BY <1>6

(* Only prune, and a restart, take blocks out of the cache. *)
LEMMA OthersKeep ==
    ASSUME IndInv, [Next]_vars, ~UpdateMaxHeightAndPrune, ~Restart,
           NEW b \in Block, item[b] # "absent"
    PROVE  item'[b] # "absent"
<1>1. TypeOK
  BY DEF IndInv
<1>2. ASSUME NEW c \in Block, AddBlock(c) PROVE item'[b] # "absent"
  BY <1>1, <1>2 DEF AddBlock, AddBlockRefused, AddBlockAttached, AddBlockDetached,
     PutAttached, storeVars, TypeOK
<1>3. ASSUME NEW c \in Block, MarkDetached(c) PROVE item'[b] # "absent"
  BY <1>1, <1>3 DEF MarkDetached, PutAttached, TypeOK
<1>4. CASE EmitNewBlock \/ ScanLevel \/ SettleAtMinHeight \/ WriteBatch \/ RejectBatch
  BY <1>4 DEF EmitNewBlock, ScanLevel, SettleAtMinHeight, WriteBatch, RejectBatch,
     storeVars
<1>5. ASSUME NEW c \in Block, SetHead(c) PROVE item'[b] # "absent"
  BY <1>5 DEF SetHead, storeVars
<1>6. CASE UNCHANGED vars
  BY <1>6 DEF vars, storeVars
<1> QED
  BY <1>2, <1>3, <1>4, <1>5, <1>6 DEF Next, Continue

(* No order of additions, failures and prunes takes away a block that is at *)
(* most maxDepth below every attached one.                                  *)
THEOREM CacheKeepsShallow == Spec => KeptWhileShallow
<1>1. IndInv /\ [Next]_vars =>
        [\A b \in Stored : item'[b] = "absent" /\ restarts' = restarts =>
            \E a \in Attached' : Number[a] - Number[b] > MaxDepth]_vars
  <2> SUFFICES ASSUME IndInv, [Next]_vars, NEW b \in Stored,
                      item'[b] = "absent", restarts' = restarts
               PROVE  \E a \in Attached' : Number[a] - Number[b] > MaxDepth
    OBVIOUS
  <2>1. ~Restart
    BY DEF Restart, IndInv, TypeOK
  <2>2. UpdateMaxHeightAndPrune
    BY <2>1, OthersKeep DEF Stored
  <2> QED
    BY <2>2, PrunedIsDeep
<1> QED
  BY <1>1, CacheInvariant, PTL DEF Spec, KeptWhileShallow

-----------------------------------------------------------------------------
(* Heights *)

(* Until the first block comes nothing is known. *)
EmptyIsFresh == isEmpty => pruneHeight = 0 /\ maxHeight = 0

(* Whatever should be pruned was pruned when the highest block came: so     *)
(* minHeight is pruneHeight.                                                *)
PruneTight == pruneHeight >= maxHeight - MaxDepth

(* The level worked on rests on an attached one, or is at the bottom. *)
LevelBased ==
    loaded = {} /\ stage \in {"emit", "mark", "scan"} =>
        level <= pruneHeight \/ \E a \in Attached : Number[a] = level - 1

HeightInv == EmptyIsFresh /\ PruneTight /\ LevelBased /\ AttachedHeightsContiguous

(* The highest attached block is known, except on the level worked on. *)
HeightsKnown ==
    \A a \in Attached :
        Number[a] <= maxHeight \/ (stage \in {"emit", "mark"} /\ Number[a] = level)

(* A detached block whose parent is attached is on a level still to come. *)
OpenPending ==
    \A d \in Detached : HasBlock(Parent[d]) =>
        \/ stage \in {"emit", "mark"} /\ (d \in todo \/ Number[d] = level + 1)
        \/ stage = "scan" /\ Number[d] = level

(* So is one at minHeight, unless the loop at minHeight goes round again. *)
LowPending ==
    \A d \in Detached : Number[d] = pruneHeight =>
        \/ stage \in {"emit", "mark", "scan", "settle"} /\ pruneHeight > prevMinHeight
        \/ stage \in {"emit", "mark"} /\ d \in todo
        \/ stage = "scan" /\ Number[d] = level

(* The open batch is what the memory has beyond the disk. *)
Mirrors == \A b \in Block : item[b] = IF batch[b] = "unchanged" THEN disk[b] ELSE batch[b]

CallInv == HeightsKnown /\ OpenPending /\ LowPending /\ Mirrors /\ Recoverable

RoundsRise == stage \in {"emit", "mark", "scan", "settle"} => pruneHeight >= prevMinHeight

DeepInv == HeightInv /\ RoundsRise /\ (Undisturbed => CallInv)

LEMMA MinIsPrune ==
    ASSUME TypeOK, PruneTight
    PROVE  MinHeight = pruneHeight
BY BoundAssumption DEF TypeOK, PruneTight, MinHeight, MinHeightOf

(* A cache without blocks of an earlier process is empty until it knows one. *)
LEMMA EmptyHasNothing ==
    ASSUME IndInv, loaded = {}, isEmpty, NEW b \in Block
    PROVE  item[b] = "absent"
BY DEF IndInv, NothingBelowPruneHeight, Stored

(* The first block is at the bottom, and any other that is attached is at   *)
(* the bottom or has its parent attached.                                   *)
LEMMA HeightAddAttached ==
    ASSUME IndInv, IndInv', HeightInv, NEW b \in Block, AddBlockAttached(b)
    PROVE  HeightInv' /\ RoundsRise'
<1> USE ChainAssumption, BoundAssumption
<1>1. TypeOK /\ TypeOK' /\ MinHeight = pruneHeight
  BY MinIsPrune DEF IndInv, HeightInv
<1>2. /\ item' = [item EXCEPT ![b] = "attached"]
      /\ stage' = "emit" /\ level' = Number[b] /\ prevMinHeight' = NotYet
      /\ ~isEmpty'
      /\ pruneHeight' = IF isEmpty THEN Number[b] ELSE pruneHeight
      /\ UNCHANGED <<maxHeight, loaded>>
      /\ CanAttachBlock(b)
  BY DEF AddBlockAttached, PutAttached, histVars
<1>3. Attached' = Attached \cup {b}
  BY <1>1, <1>2 DEF Attached, TypeOK
<1>4. EmptyIsFresh' /\ RoundsRise'
  BY <1>1, <1>2 DEF EmptyIsFresh, RoundsRise, NotYet, TypeOK
<1>5. PruneTight'
  BY <1>1, <1>2 DEF HeightInv, EmptyIsFresh, PruneTight, TypeOK
<1>6. MinHeight' = pruneHeight'
  BY <1>1, <1>5 DEF TypeOK, PruneTight, MinHeight, MinHeightOf
<1>7. ASSUME loaded = {}
      PROVE  Number[b] <= pruneHeight' \/ \E a \in Attached : Number[a] = Number[b] - 1
  <2>1. CASE isEmpty \/ Number[b] = MinHeight
    BY <1>1, <1>2, <2>1
  <2>2. CASE ~isEmpty /\ HasBlock(Parent[b])
    <3>1. Parent[b] \in Attached /\ Parent[b] \in Block  BY <2>2 DEF HasBlock, Attached
    <3>2. Number[Parent[b]] = Number[b] - 1  BY <3>1
    <3> QED  BY <3>1, <3>2
  <2> QED  BY <1>2, <2>1, <2>2 DEF CanAttachBlock
<1>8. LevelBased'
  BY <1>2, <1>3, <1>7 DEF LevelBased
<1>9. AttachedHeightsContiguous'
  <2> SUFFICES ASSUME loaded = {}, NEW c \in Attached', Number[c] > pruneHeight'
               PROVE  \E a \in Attached' : Number[a] = Number[c] - 1
    BY <1>2, <1>6 DEF AttachedHeightsContiguous
  <2>1. CASE c = b
    <3>1. ~(Number[b] <= pruneHeight')  BY <1>1, <2>1 DEF TypeOK
    <3> QED  BY <1>3, <1>7, <2>1, <3>1
  <2>2. CASE c # b
    <3>1. c \in Attached /\ item[c] = "attached" /\ c \in Block  BY <1>3, <2>2 DEF Attached
    <3>2. ~isEmpty  BY <3>1, EmptyHasNothing
    <3>3. Number[c] > MinHeight  BY <1>1, <1>2, <3>2
    <3>4. \E a \in Attached : Number[a] = Number[c] - 1
      BY <3>1, <3>3 DEF HeightInv, AttachedHeightsContiguous
    <3> QED  BY <1>3, <3>4
  <2> QED  BY <2>1, <2>2
<1> QED  BY <1>4, <1>5, <1>8, <1>9 DEF HeightInv

LEMMA HeightMark ==
    ASSUME IndInv, IndInv', HeightInv, RoundsRise, NEW b \in Block, MarkDetached(b)
    PROVE  HeightInv' /\ RoundsRise'
<1> USE ChainAssumption, BoundAssumption
<1>1. TypeOK /\ TypeOK' /\ MinHeight = pruneHeight
  BY MinIsPrune DEF IndInv, HeightInv
<1>2. /\ item' = [item EXCEPT ![b] = "attached"] /\ b \in todo
      /\ stage = "mark" /\ stage' = "emit"
      /\ UNCHANGED <<isEmpty, pruneHeight, maxHeight, level, prevMinHeight, loaded>>
  BY DEF MarkDetached, PutAttached, cacheVars, histVars
<1>3. Number[b] = level  BY <1>2 DEF IndInv, CallTodo
<1>4. Attached' = Attached \cup {b}
  BY <1>1, <1>2 DEF Attached, TypeOK
<1>5. EmptyIsFresh' /\ RoundsRise' /\ PruneTight'
  BY <1>2 DEF HeightInv, EmptyIsFresh, RoundsRise, PruneTight
<1>6. MinHeight' = pruneHeight'
  BY <1>1, <1>5 DEF TypeOK, PruneTight, MinHeight, MinHeightOf
<1>7. LevelBased'
  BY <1>2, <1>4 DEF HeightInv, LevelBased
<1>8. AttachedHeightsContiguous'
  <2> SUFFICES ASSUME loaded = {}, NEW c \in Attached', Number[c] > pruneHeight
               PROVE  \E a \in Attached' : Number[a] = Number[c] - 1
    BY <1>2, <1>6 DEF AttachedHeightsContiguous
  <2>1. CASE c = b
    <3>1. ~(level <= pruneHeight)  BY <1>1, <1>3, <2>1 DEF TypeOK
    <3>2. \E a \in Attached : Number[a] = level - 1
      BY <1>2, <3>1 DEF HeightInv, LevelBased
    <3> QED  BY <1>3, <1>4, <2>1, <3>2
  <2>2. CASE c # b
    BY <1>1, <1>4, <2>2 DEF HeightInv, AttachedHeightsContiguous
  <2> QED  BY <2>1, <2>2
<1> QED  BY <1>5, <1>7, <1>8 DEF HeightInv

(* Pruning takes whole heights from below, so no gap opens above. *)
LEMMA HeightUpdate ==
    ASSUME IndInv, IndInv', HeightInv, RoundsRise, UpdateMaxHeightAndPrune
    PROVE  HeightInv' /\ RoundsRise'
<1> USE ChainAssumption, BoundAssumption
<1>1. TypeOK /\ TypeOK' /\ MinHeight = pruneHeight /\ ~isEmpty
  BY MinIsPrune DEF IndInv, HeightInv, CallNotEmpty, UpdateMaxHeightAndPrune
<1>2. /\ stage = "mark" /\ todo = {} /\ stage' = "scan" /\ level' = level + 1
      /\ UNCHANGED <<isEmpty, prevMinHeight, loaded>>
  BY DEF UpdateMaxHeightAndPrune, histVars
<1>3. pruneHeight' >= pruneHeight  BY PruneEffect
<1>4. /\ level \in Nat /\ pruneHeight \in Nat /\ maxHeight \in Nat
      /\ pruneHeight' \in Nat /\ maxHeight' \in Nat /\ prevMinHeight \in Int
  BY <1>1 DEF TypeOK, NotYet
<1>5. PruneTight'
  <2>1. CASE maxHeight < level
    <3>1. maxHeight' = level /\ pruneHeight' = MinHeightOf(pruneHeight, level)
      BY <2>1 DEF UpdateMaxHeightAndPrune
    <3> QED  BY <1>4, <3>1, MinHeightAbovePrune DEF PruneTight
  <2>2. CASE ~(maxHeight < level)
    BY <2>2 DEF UpdateMaxHeightAndPrune, HeightInv, PruneTight
  <2> QED  BY <2>1, <2>2
<1>6. EmptyIsFresh'  BY <1>1, <1>2 DEF EmptyIsFresh
<1>7. RoundsRise'  BY <1>2, <1>3, <1>4 DEF RoundsRise
<1>8. MinHeight' = pruneHeight'
  BY <1>1, <1>5 DEF TypeOK, PruneTight, MinHeight, MinHeightOf
<1>9. ASSUME NEW a \in Attached, Number[a] >= pruneHeight' PROVE a \in Attached'
  <2>1. a \in Block /\ item[a] = "attached" /\ Number[a] \in Nat
    BY DEF Attached
  <2>2. item'[a] = item[a]  BY <1>4, <1>9, <2>1, PruneEffect
  <2> QED  BY <2>1, <2>2 DEF Attached
<1>10. Attached' \subseteq Attached
  BY <1>1, PruneEffect DEF Attached
<1>11. LevelBased'
  <2> SUFFICES ASSUME loaded = {}, ~(level + 1 <= pruneHeight')
               PROVE  \E a \in Attached' : Number[a] = (level + 1) - 1
    BY <1>2 DEF LevelBased
  <2>1. PICK a \in Block : item[a] = "attached" /\ Number[a] = level
    BY <1>2 DEF IndInv, CallLevel
  <2>2. a \in Attached /\ Number[a] >= pruneHeight'  BY <1>4, <2>1 DEF Attached
  <2> QED  BY <1>4, <1>9, <2>1, <2>2
<1>12. AttachedHeightsContiguous'
  <2> SUFFICES ASSUME loaded = {}, NEW c \in Attached', Number[c] > pruneHeight'
               PROVE  \E a \in Attached' : Number[a] = Number[c] - 1
    BY <1>2, <1>8 DEF AttachedHeightsContiguous
  <2>1. c \in Attached /\ c \in Block /\ Number[c] \in Nat  BY <1>10 DEF Attached
  <2>2. Number[c] > pruneHeight  BY <1>3, <1>4, <2>1
  <2>3. PICK a \in Attached : Number[a] = Number[c] - 1
    BY <1>1, <2>1, <2>2 DEF HeightInv, AttachedHeightsContiguous
  <2>4. Number[a] >= pruneHeight'  BY <1>4, <2>1, <2>3
  <2> QED  BY <1>9, <2>3, <2>4
<1> QED  BY <1>5, <1>6, <1>7, <1>11, <1>12 DEF HeightInv

LEMMA HeightStep ==
    ASSUME IndInv, IndInv', HeightInv, RoundsRise, [Next]_vars
    PROVE  HeightInv' /\ RoundsRise'
<1> USE ChainAssumption, BoundAssumption
<1>1. TypeOK /\ TypeOK'  BY DEF IndInv
<1>2. MinHeight = pruneHeight  BY <1>1, MinIsPrune DEF HeightInv
<1>3. ASSUME UNCHANGED <<cacheVars, loaded>>, Attached' = Attached,
             stage' \in {"emit", "mark", "scan"} =>
                 stage \in {"emit", "mark", "scan"} /\ level' = level,
             stage' \in {"emit", "mark", "scan", "settle"} =>
                 stage \in {"emit", "mark", "scan", "settle"} /\ prevMinHeight' = prevMinHeight
      PROVE  HeightInv' /\ RoundsRise'
  BY <1>3 DEF HeightInv, RoundsRise, EmptyIsFresh, PruneTight, LevelBased,
              AttachedHeightsContiguous, MinHeight, cacheVars
<1>4. ASSUME NEW b \in Block, AddBlockRefused(b) PROVE HeightInv' /\ RoundsRise'
  BY <1>3, <1>4 DEF AddBlockRefused, storeVars, histVars, Attached
<1>5. ASSUME NEW b \in Block, AddBlockDetached(b) PROVE HeightInv' /\ RoundsRise'
  <2>1. /\ item' = [item EXCEPT ![b] = "detached"] /\ item[b] = "absent"
        /\ stage' = "commit" /\ UNCHANGED <<cacheVars, loaded>>
    BY <1>5 DEF AddBlockDetached, NewToCache, PutAttached, histVars
  <2>2. Attached' = Attached  BY <1>1, <2>1 DEF Attached, TypeOK
  <2> QED  BY <1>3, <2>1, <2>2
<1>6. CASE EmitNewBlock \/ RejectBatch \/ WriteBatch
  BY <1>3, <1>6 DEF EmitNewBlock, RejectBatch, WriteBatch, storeVars, histVars, Attached
<1>7. CASE ScanLevel
  BY <1>3, <1>7 DEF ScanLevel, storeVars, histVars, Attached
<1>8. CASE SettleAtMinHeight
  <2>1. /\ UNCHANGED <<item, cacheVars, loaded>> /\ Attached' = Attached
        /\ \/ stage' = "commit"
           \/ stage' = "scan" /\ level' = MinHeight /\ prevMinHeight' = MinHeight
    BY <1>8 DEF SettleAtMinHeight, storeVars, histVars, Attached
  <2>2. CASE stage' = "commit"  BY <1>3, <2>1, <2>2
  <2>3. CASE stage' = "scan"
    <3>1. level' <= pruneHeight' /\ pruneHeight' >= prevMinHeight'
      BY <1>1, <1>2, <2>1, <2>3 DEF cacheVars, TypeOK
    <3> QED
      BY <2>1, <2>3, <3>1 DEF HeightInv, RoundsRise, EmptyIsFresh, PruneTight, LevelBased,
                              AttachedHeightsContiguous, MinHeight, cacheVars
  <2> QED  BY <2>1, <2>2, <2>3
<1>9. CASE Restart
  <2>1. /\ pruneHeight' = 0 /\ maxHeight' = 0 /\ stage' = "idle"
        /\ item' = disk /\ loaded' = {b \in Block : disk[b] # "absent"}
    BY <1>9 DEF Restart
  <2>2. loaded' = {} => Attached' = {}  BY <2>1 DEF Attached
  <2> QED  BY <2>1, <2>2 DEF HeightInv, RoundsRise, EmptyIsFresh, PruneTight, LevelBased,
                             AttachedHeightsContiguous
<1>10. ASSUME NEW b \in Block, SetHead(b) PROVE HeightInv' /\ RoundsRise'
  BY <1>3, <1>10 DEF SetHead, storeVars, callVars, histVars, Attached
<1>11. CASE UNCHANGED vars
  BY <1>3, <1>11 DEF vars, storeVars, callVars, histVars, Attached
<1> QED
  BY <1>4, <1>5, <1>6, <1>7, <1>8, <1>9, <1>10, <1>11, HeightAddAttached, HeightMark,
     HeightUpdate DEF Next, AddBlock, Continue
-----------------------------------------------------------------------------
(* The cascade *)

LEMMA CascadeAddAttached ==
    ASSUME IndInv, IndInv', HeightInv, HeightInv', Undisturbed, CallInv,
           NEW b \in Block, AddBlockAttached(b)
    PROVE  CallInv'
<1> USE ChainAssumption, BoundAssumption
<1>1. TypeOK /\ TypeOK' /\ loaded = {}  BY DEF IndInv, Undisturbed
<1>2. /\ item' = [item EXCEPT ![b] = "attached"] /\ batch' = [batch EXCEPT ![b] = "attached"]
      /\ stage = "idle" /\ stage' = "emit" /\ level' = Number[b] /\ prevMinHeight' = NotYet
      /\ UNCHANGED <<disk, maxHeight>>
  BY DEF AddBlockAttached, NewToCache, PutAttached, histVars
<1>3. Attached' = Attached \cup {b} /\ Detached' \subseteq Detached
  BY <1>1, <1>2 DEF Attached, Detached, TypeOK
<1>4. HeightsKnown'
  BY <1>2, <1>3 DEF CallInv, HeightsKnown
<1>5. OpenPending'
  <2> SUFFICES ASSUME NEW d \in Detached', Parent[d] \in Attached'
               PROVE  Number[d] = Number[b] + 1
    BY <1>2 DEF OpenPending, HasBlock
  <2>1. Parent[d] \notin Attached
    BY <1>2, <1>3 DEF CallInv, OpenPending, HasBlock
  <2>2. Parent[d] = b /\ d \in Block  BY <1>3, <2>1 DEF Detached
  <2> QED  BY <2>2
<1>6. LowPending'
  <2>1. pruneHeight' > prevMinHeight'  BY <1>1, <1>2 DEF TypeOK, NotYet
  <2> QED  BY <1>2, <2>1 DEF LowPending
<1>7. Mirrors'
  BY <1>1, <1>2 DEF CallInv, Mirrors, TypeOK
<1>8. Recoverable'  BY <1>2 DEF CallInv, Recoverable
<1> QED  BY <1>4, <1>5, <1>6, <1>7, <1>8 DEF CallInv

LEMMA CascadeAddDetached ==
    ASSUME IndInv, IndInv', HeightInv, Undisturbed, CallInv,
           NEW b \in Block, AddBlockDetached(b)
    PROVE  CallInv'
<1> USE ChainAssumption, BoundAssumption
<1>1. TypeOK /\ MinHeight = pruneHeight  BY MinIsPrune DEF IndInv, HeightInv
<1>2. /\ item' = [item EXCEPT ![b] = "detached"] /\ batch' = [batch EXCEPT ![b] = "detached"]
      /\ item[b] = "absent" /\ stage = "idle" /\ stage' = "commit"
      /\ UNCHANGED <<disk, pruneHeight, maxHeight>>
      /\ ~HasBlock(Parent[b]) /\ Number[b] # MinHeight
  BY DEF AddBlockDetached, NewToCache, CanAttachBlock, PutAttached, cacheVars
<1>3. Attached' = Attached /\ Detached' = Detached \cup {b}
  BY <1>1, <1>2 DEF Attached, Detached, TypeOK
<1>4. HeightsKnown'
  BY <1>2, <1>3 DEF CallInv, HeightsKnown
<1>5. OpenPending'
  BY <1>2, <1>3 DEF CallInv, OpenPending, HasBlock
<1>6. LowPending'
  BY <1>1, <1>2, <1>3 DEF CallInv, LowPending
<1>7. Mirrors'
  BY <1>1, <1>2 DEF CallInv, Mirrors, TypeOK
<1>8. Recoverable'  BY <1>2 DEF CallInv, Recoverable
<1> QED  BY <1>4, <1>5, <1>6, <1>7, <1>8 DEF CallInv

LEMMA CascadeMark ==
    ASSUME IndInv, IndInv', Undisturbed, CallInv, NEW b \in Block, MarkDetached(b)
    PROVE  CallInv'
<1> USE ChainAssumption, BoundAssumption
<1>1. TypeOK  BY DEF IndInv
<1>2. /\ item' = [item EXCEPT ![b] = "attached"] /\ batch' = [batch EXCEPT ![b] = "attached"]
      /\ b \in todo /\ todo' = todo \ {b} /\ stage = "mark" /\ stage' = "emit"
      /\ UNCHANGED <<disk, pruneHeight, maxHeight, level, prevMinHeight>>
  BY DEF MarkDetached, PutAttached, cacheVars
<1>3. Number[b] = level /\ item[b] = "detached"  BY <1>2 DEF IndInv, CallTodo
<1>4. Attached' = Attached \cup {b} /\ Detached' = Detached \ {b}
  BY <1>1, <1>2, <1>3 DEF Attached, Detached, TypeOK
<1>5. HeightsKnown'
  BY <1>2, <1>3, <1>4 DEF CallInv, HeightsKnown
<1>6. OpenPending'
  <2> SUFFICES ASSUME NEW d \in Detached', Parent[d] \in Attached'
               PROVE  d \in todo' \/ Number[d] = level + 1
    BY <1>2 DEF OpenPending, HasBlock
  <2>1. d \in Detached /\ d # b /\ d \in Block  BY <1>4 DEF Detached
  <2>2. CASE Parent[d] \in Attached
    BY <1>2, <2>1, <2>2 DEF CallInv, OpenPending, HasBlock
  <2>3. CASE Parent[d] = b
    BY <1>3, <2>1, <2>3
  <2> QED  BY <1>4, <2>2, <2>3
<1>7. LowPending'
  BY <1>2, <1>4 DEF CallInv, LowPending
<1>8. Mirrors'
  BY <1>1, <1>2 DEF CallInv, Mirrors, TypeOK
<1>9. Recoverable'  BY <1>2 DEF CallInv, Recoverable
<1> QED  BY <1>5, <1>6, <1>7, <1>8, <1>9 DEF CallInv

LEMMA CascadeUpdate ==
    ASSUME IndInv, IndInv', HeightInv, RoundsRise, Undisturbed, CallInv,
           UpdateMaxHeightAndPrune
    PROVE  CallInv'
<1> USE ChainAssumption, BoundAssumption
<1>1. TypeOK /\ TypeOK'  BY DEF IndInv
<1>2. /\ stage = "mark" /\ todo = {} /\ stage' = "scan" /\ level' = level + 1
      /\ UNCHANGED <<disk, prevMinHeight>>
  BY DEF UpdateMaxHeightAndPrune
<1>3. /\ level \in Nat /\ pruneHeight \in Nat /\ maxHeight \in Nat
      /\ pruneHeight' \in Nat /\ maxHeight' \in Nat /\ prevMinHeight \in Int
  BY <1>1 DEF TypeOK, NotYet
<1>4. /\ Attached' \subseteq Attached /\ Detached' \subseteq Detached
      /\ pruneHeight' >= pruneHeight
  BY <1>1, PruneEffect DEF Attached, Detached
<1>5. HeightsKnown'
  <2>1. maxHeight' >= maxHeight /\ maxHeight' >= level
    BY <1>3 DEF UpdateMaxHeightAndPrune
  <2> SUFFICES ASSUME NEW a \in Attached' PROVE Number[a] <= maxHeight'
    BY DEF HeightsKnown
  <2>2. Number[a] <= maxHeight \/ Number[a] = level
    BY <1>4 DEF CallInv, HeightsKnown
  <2>3. Number[a] \in Nat  BY <1>4 DEF Attached
  <2> QED  BY <1>3, <2>1, <2>2, <2>3
<1>6. OpenPending'
  BY <1>2, <1>4 DEF CallInv, OpenPending, HasBlock
<1>7. LowPending'
  <2> SUFFICES ASSUME NEW d \in Detached', Number[d] = pruneHeight'
               PROVE  pruneHeight' > prevMinHeight
    BY <1>2 DEF LowPending
  <2>1. CASE pruneHeight' = pruneHeight
    BY <1>2, <1>4, <2>1 DEF CallInv, LowPending
  <2>2. CASE pruneHeight' # pruneHeight
    <3>1. pruneHeight >= prevMinHeight  BY <1>2 DEF RoundsRise
    <3> QED  BY <1>3, <1>4, <2>2, <3>1
  <2> QED  BY <2>1, <2>2
<1>8. Mirrors'
  <2>1. CASE maxHeight < level
    BY <1>1, <1>2, <2>1 DEF CallInv, Mirrors, UpdateMaxHeightAndPrune, DeleteItems, TypeOK
  <2>2. CASE ~(maxHeight < level)
    BY <1>2, <2>2 DEF CallInv, Mirrors, UpdateMaxHeightAndPrune
  <2> QED  BY <2>1, <2>2
<1>9. Recoverable'  BY <1>2 DEF CallInv, Recoverable
<1> QED  BY <1>5, <1>6, <1>7, <1>8, <1>9 DEF CallInv

(* What is written has no gap: the memory has none above pruneHeight, and   *)
(* nothing below it.                                                        *)
LEMMA CascadeWrite ==
    ASSUME IndInv, HeightInv, Undisturbed, CallInv, WriteBatch
    PROVE  CallInv'
<1> USE ChainAssumption, BoundAssumption
<1>1. TypeOK /\ MinHeight = pruneHeight /\ loaded = {}
  BY MinIsPrune DEF IndInv, HeightInv, Undisturbed
<1>2. /\ stage = "commit" /\ stage' = "idle" /\ batch' = NoWrites
      /\ disk' = [b \in Block |-> IF batch[b] = "unchanged" THEN disk[b] ELSE batch[b]]
      /\ UNCHANGED <<item, pruneHeight, maxHeight>>
  BY DEF WriteBatch, CommitBatch, cacheVars
<1>3. \A b \in Block : disk'[b] = item[b]
  BY <1>2 DEF CallInv, Mirrors
<1>4. Attached' = Attached /\ Detached' = Detached
  BY <1>2 DEF Attached, Detached
<1>5. HeightsKnown' /\ OpenPending' /\ LowPending'
  BY <1>2, <1>4 DEF CallInv, HeightsKnown, OpenPending, LowPending, HasBlock
<1>6. Mirrors'
  BY <1>2, <1>3 DEF Mirrors, NoWrites
<1>7. Recoverable'
  <2> SUFFICES ASSUME NEW b \in Block, item[b] = "attached"
               PROVE  \/ \E a \in Block : item[a] = "attached" /\ Number[a] = Number[b] - 1
                      \/ \A a \in Block : item[a] # "absent" => Number[a] >= Number[b]
    BY <1>3 DEF Recoverable
  <2>1. CASE Number[b] > pruneHeight
    BY <1>1, <2>1 DEF HeightInv, AttachedHeightsContiguous, Attached
  <2>2. CASE ~(Number[b] > pruneHeight)
    <3>1. ASSUME NEW a \in Block, item[a] # "absent" PROVE Number[a] >= Number[b]
      <4>1. Number[a] >= pruneHeight
        BY <1>1, <3>1 DEF IndInv, NothingBelowPruneHeight, Stored
      <4> QED  BY <1>1, <2>2, <4>1 DEF TypeOK
    <3> QED  BY <3>1
  <2> QED  BY <2>1, <2>2
<1> QED  BY <1>5, <1>6, <1>7 DEF CallInv

LEMMA CascadeMoveOn ==
    ASSUME IndInv, HeightInv, RoundsRise, Undisturbed, CallInv,
           EmitNewBlock \/ ScanLevel \/ SettleAtMinHeight
    PROVE  CallInv'
<1> USE ChainAssumption, BoundAssumption
<1>1. TypeOK /\ MinHeight = pruneHeight  BY MinIsPrune DEF IndInv, HeightInv
<1>2. UNCHANGED <<item, batch, disk, pruneHeight, maxHeight>>
  BY DEF EmitNewBlock, ScanLevel, SettleAtMinHeight, storeVars, cacheVars
<1>3. Attached' = Attached /\ Detached' = Detached
  BY <1>2 DEF Attached, Detached
<1>4. Mirrors' /\ Recoverable'
  BY <1>2 DEF CallInv, Mirrors, Recoverable
<1>5. CASE EmitNewBlock
  <2>1. stage = "emit" /\ stage' = "mark" /\ UNCHANGED <<level, todo, prevMinHeight>>
    BY <1>5 DEF EmitNewBlock
  <2> QED
    BY <1>2, <1>3, <1>4, <2>1 DEF CallInv, HeightsKnown, OpenPending, LowPending, HasBlock
<1>6. CASE ScanLevel
  <2>1. /\ stage = "scan" /\ todo' = DetachedAt(level)
        /\ stage' = IF todo' = {} THEN "settle" ELSE "mark"
        /\ UNCHANGED <<level, prevMinHeight>>
    BY <1>6 DEF ScanLevel
  <2>2. \A d \in Detached : Number[d] = level => d \in todo' /\ stage' = "mark"
    BY <2>1 DEF DetachedAt
  <2>3. HeightsKnown'
    BY <1>2, <1>3, <2>1 DEF CallInv, HeightsKnown
  <2>4. OpenPending'
    BY <1>2, <1>3, <2>1, <2>2 DEF CallInv, OpenPending, HasBlock
  <2>5. LowPending'
    BY <1>2, <1>3, <2>1, <2>2 DEF CallInv, LowPending
  <2> QED  BY <1>4, <2>3, <2>4, <2>5 DEF CallInv
<1>7. CASE SettleAtMinHeight
  <2>1. /\ stage = "settle"
        /\ \/ MinHeight > prevMinHeight /\ stage' = "scan" /\ level' = MinHeight
           \/ ~(MinHeight > prevMinHeight) /\ stage' = "commit"
    BY <1>7 DEF SettleAtMinHeight
  <2>2. HeightsKnown'
    BY <1>2, <1>3, <2>1 DEF CallInv, HeightsKnown
  <2>3. OpenPending'
    BY <1>2, <1>3, <2>1 DEF CallInv, OpenPending, HasBlock
  <2>4. LowPending'
    BY <1>1, <1>2, <1>3, <2>1 DEF CallInv, LowPending
  <2> QED  BY <1>4, <2>2, <2>3, <2>4 DEF CallInv
<1> QED  BY <1>5, <1>6, <1>7

LEMMA CascadeStep ==
    ASSUME IndInv, IndInv', HeightInv, HeightInv', RoundsRise, Undisturbed => CallInv,
           [Next]_vars, Undisturbed'
    PROVE  CallInv'
<1>1. CASE Restart
  <2>1. /\ item' = disk /\ batch' = NoWrites /\ disk' = disk
        /\ loaded' = {b \in Block : disk[b] # "absent"}
    BY <1>1 DEF Restart
  <2>2. \A b \in Block : item'[b] = "absent" /\ disk'[b] = "absent"
    BY <2>1 DEF Undisturbed
  <2>3. Attached' = {} /\ Detached' = {}  BY <2>2 DEF Attached, Detached
  <2>4. Mirrors'  BY <2>1 DEF Mirrors, NoWrites
  <2>5. Recoverable'  BY <2>2 DEF Recoverable
  <2> QED  BY <2>3, <2>4, <2>5 DEF CallInv, HeightsKnown, OpenPending, LowPending
<1>2. CASE RejectBatch
  <2>1. rejections' = rejections + 1 /\ rejections \in Nat
    BY <1>2 DEF RejectBatch, IndInv, TypeOK
  <2> QED  BY <2>1 DEF Undisturbed
<1>3. ASSUME ~Restart, ~RejectBatch PROVE Undisturbed /\ CallInv
  <2>1. UNCHANGED <<loaded, rejections>>
    BY <1>3 DEF Next, AddBlock, AddBlockRefused, AddBlockAttached, AddBlockDetached, Continue,
                EmitNewBlock, MarkDetached, UpdateMaxHeightAndPrune, ScanLevel,
                SettleAtMinHeight, WriteBatch, SetHead, vars, histVars
  <2> QED  BY <2>1 DEF Undisturbed
<1>4. ASSUME Undisturbed, CallInv,
             UNCHANGED <<storeVars, cacheVars, stage, level, todo, prevMinHeight>>
      PROVE  CallInv'
  BY <1>4 DEF CallInv, HeightsKnown, OpenPending, LowPending, Mirrors, Recoverable, Attached,
              Detached, HasBlock, storeVars, cacheVars
<1>5. CASE (\E b \in Block : AddBlockRefused(b) \/ SetHead(b)) \/ UNCHANGED vars
  <2>1. UNCHANGED <<storeVars, cacheVars, stage, level, todo, prevMinHeight>>
    BY <1>5 DEF AddBlockRefused, SetHead, vars, callVars
  <2>2. UNCHANGED <<loaded, rejections>>
    BY <1>5 DEF AddBlockRefused, SetHead, vars, histVars
  <2> QED  BY <1>4, <2>1, <2>2 DEF Undisturbed
<1> QED
  BY <1>1, <1>2, <1>3, <1>5, CascadeAddAttached, CascadeAddDetached, CascadeMark,
     CascadeUpdate, CascadeWrite, CascadeMoveOn DEF Next, AddBlock, Continue

LEMMA DeepInit == Init => DeepInv
<1> SUFFICES ASSUME Init PROVE DeepInv  OBVIOUS
<1>1. \A b \in Block : item[b] = "absent" /\ disk[b] = "absent" /\ batch[b] = "unchanged"
  BY DEF Init, NoWrites
<1>2. Attached = {} /\ Detached = {}  BY <1>1 DEF Attached, Detached
<1>3. HeightInv /\ RoundsRise
  BY <1>2, BoundAssumption DEF Init, HeightInv, EmptyIsFresh, PruneTight, LevelBased,
                               AttachedHeightsContiguous, RoundsRise
<1>4. CallInv
  BY <1>1, <1>2 DEF CallInv, HeightsKnown, OpenPending, LowPending, Mirrors, Recoverable
<1> QED  BY <1>3, <1>4 DEF DeepInv

LEMMA DeepInvariant == Spec => [](IndInv /\ DeepInv)
<1>1. IndInv /\ DeepInv /\ [Next]_vars => (IndInv /\ DeepInv)'
  <2> SUFFICES ASSUME IndInv, DeepInv, [Next]_vars PROVE IndInv' /\ DeepInv'  OBVIOUS
  <2>1. IndInv'  BY StepInv
  <2>2. HeightInv' /\ RoundsRise'  BY <2>1, HeightStep DEF DeepInv
  <2>3. Undisturbed' => CallInv'  BY <2>1, <2>2, CascadeStep DEF DeepInv
  <2> QED  BY <2>1, <2>2, <2>3 DEF DeepInv
<1> QED  BY <1>1, InitInv, DeepInit, PTL DEF Spec

(* Between calls no stored block is more than maxDepth below an attached    *)
(* one: every prune reaches all that the new highest block makes too deep,  *)
(* in any order of additions.                                               *)
THEOREM CacheNothingTooDeep == Spec => []NoBlockTooDeep
<1>1. IndInv /\ DeepInv => NoBlockTooDeep
  <2> SUFFICES ASSUME IndInv, DeepInv, stage = "idle", Undisturbed,
                      NEW s \in Stored, NEW a \in Attached
               PROVE  Number[a] - Number[s] <= MaxDepth
    BY DEF NoBlockTooDeep
  <2>1. Number[a] <= maxHeight  BY DEF DeepInv, CallInv, HeightsKnown
  <2>2. Number[s] >= pruneHeight  BY DEF IndInv, NothingBelowPruneHeight, Undisturbed
  <2>3. pruneHeight >= maxHeight - MaxDepth  BY DEF DeepInv, HeightInv, PruneTight
  <2>4. /\ Number[a] \in Nat /\ Number[s] \in Nat /\ pruneHeight \in Nat
        /\ maxHeight \in Nat /\ MaxDepth \in Nat
    BY ChainAssumption, BoundAssumption DEF IndInv, TypeOK, Attached, Stored
  <2> QED  BY <2>1, <2>2, <2>3, <2>4
<1> QED  BY <1>1, DeepInvariant, PTL

(* At every instant of a call, and whatever was rejected before, no height  *)
(* is missing between minHeight and an attached block.                      *)
THEOREM CacheHasNoGap == Spec => []AttachedHeightsContiguous
<1>1. DeepInv => AttachedHeightsContiguous  BY DEF DeepInv, HeightInv
<1> QED  BY <1>1, DeepInvariant, PTL

(* The cascade and the loop at minHeight leave no block detached that could *)
(* be attached.                                                             *)
THEOREM CacheAttachesAll == Spec => []NothingAttachableLeft
<1>1. IndInv /\ DeepInv => NothingAttachableLeft
  <2> SUFFICES ASSUME IndInv, DeepInv, stage = "idle", Undisturbed, NEW d \in Detached
               PROVE  ~CanAttachBlock(d)
    BY DEF NothingAttachableLeft
  <2>1. d \in Block /\ item[d] # "absent"  BY DEF Detached
  <2>2. ~isEmpty  BY <2>1, EmptyHasNothing DEF Undisturbed
  <2>3. MinHeight = pruneHeight  BY MinIsPrune DEF IndInv, DeepInv, HeightInv
  <2> QED  BY <2>2, <2>3 DEF DeepInv, CallInv, OpenPending, LowPending, CanAttachBlock
<1> QED  BY <1>1, DeepInvariant, PTL

(* Until a batch is rejected, what is on disk at any instant has no height  *)
(* missing below an attached block: a crash anywhere in a call leaves       *)
(* something to go on from.                                                 *)
THEOREM CacheRecovers == Spec => []RecoverableIfNothingRejected
<1>1. DeepInv => RecoverableIfNothingRejected
  BY DEF DeepInv, CallInv, RecoverableIfNothingRejected
<1> QED  BY <1>1, DeepInvariant, PTL

-----------------------------------------------------------------------------
(* What the block processor relies on: the batch, and the ancestors *)

(* Between calls nothing is left to write, and as long as no batch was      *)
(* rejected the memory is what the disk will be.                            *)
BatchInv ==
    /\ stage = "idle" => batch = NoWrites
    /\ rejections = 0 => Mirrors

(* The blocks that are or were attached in this run of the process. *)
Ever == {b \in Block : emitted[b] # 0 \/ b = emitting}

(* So was the parent of each, down to minHeight. *)
EverClosed ==
    loaded = {} /\ ~misplaced =>
        \A b \in Ever : Parent[b] \in Ever \/ Number[b] <= MinHeight

CacheInv == IndInv /\ DeepInv /\ BatchInv /\ EverClosed

LEMMA BatchStep ==
    ASSUME IndInv, BatchInv, [Next]_vars
    PROVE  BatchInv'
<1>1. TypeOK  BY DEF IndInv
<1>2. ASSUME NEW b \in Block, AddBlockRefused(b) \/ SetHead(b) PROVE BatchInv'
  BY <1>2 DEF AddBlockRefused, SetHead, storeVars, callVars, histVars, BatchInv, Mirrors
<1>3. ASSUME NEW b \in Block, AddBlockAttached(b) \/ AddBlockDetached(b) PROVE BatchInv'
  <2>1. PICK s \in Status : /\ item' = [item EXCEPT ![b] = s] /\ s # "absent"
                            /\ batch' = [batch EXCEPT ![b] = s]
    BY <1>3 DEF AddBlockAttached, AddBlockDetached, PutAttached, Status
  <2>2. stage' # "idle" /\ UNCHANGED <<disk, rejections>>
    BY <1>3 DEF AddBlockAttached, AddBlockDetached, histVars
  <2> QED  BY <1>1, <2>1, <2>2 DEF BatchInv, Mirrors, TypeOK, Status
<1>4. CASE EmitNewBlock \/ ScanLevel \/ SettleAtMinHeight
  BY <1>4 DEF EmitNewBlock, ScanLevel, SettleAtMinHeight, storeVars, histVars, BatchInv, Mirrors
<1>5. ASSUME NEW b \in Block, MarkDetached(b) PROVE BatchInv'
  <2>1. /\ item' = [item EXCEPT ![b] = "attached"] /\ batch' = [batch EXCEPT ![b] = "attached"]
        /\ stage' # "idle" /\ UNCHANGED <<disk, rejections>>
    BY <1>5 DEF MarkDetached, PutAttached
  <2> QED  BY <1>1, <2>1 DEF BatchInv, Mirrors, TypeOK
<1>6. CASE UpdateMaxHeightAndPrune
  <2>1. stage' # "idle" /\ UNCHANGED <<disk, rejections>>
    BY <1>6 DEF UpdateMaxHeightAndPrune, histVars
  <2>2. CASE UNCHANGED <<item, batch>>
    BY <2>1, <2>2 DEF BatchInv, Mirrors
  <2>3. CASE DeleteItems(pruneHeight, pruneHeight')
    BY <2>1, <2>3 DEF DeleteItems, BatchInv, Mirrors
  <2> QED  BY <1>6, <2>2, <2>3 DEF UpdateMaxHeightAndPrune
<1>7. CASE WriteBatch
  BY <1>7 DEF WriteBatch, CommitBatch, NoWrites, histVars, BatchInv, Mirrors
<1>8. CASE RejectBatch
  <2>1. rejections' # 0  BY <1>1, <1>8 DEF RejectBatch, TypeOK
  <2> QED  BY <1>8, <2>1 DEF RejectBatch, BatchInv
<1>9. CASE Restart
  BY <1>9 DEF Restart, NoWrites, BatchInv, Mirrors
<1>10. CASE UNCHANGED vars
  BY <1>10 DEF vars, storeVars, callVars, histVars, BatchInv, Mirrors
<1> QED
  BY <1>2, <1>3, <1>4, <1>5, <1>6, <1>7, <1>8, <1>9, <1>10 DEF Next, AddBlock, Continue

(* A block is added to those that were attached with its parent among them, *)
(* or at minHeight, which never decreases.                                  *)
LEMMA EverGrows ==
    ASSUME IndInv, IndInv', EverClosed, NEW b \in Block, CanAttachBlock(b), ~isEmpty,
           Ever' = Ever \cup {b}, UNCHANGED <<cacheVars, loaded>>, ~misplaced' => ~misplaced
    PROVE  EverClosed'
<1> SUFFICES ASSUME loaded = {}, ~misplaced', NEW c \in Ever'
             PROVE  Parent[c] \in Ever' \/ Number[c] <= MinHeight'
  BY DEF EverClosed
<1>1. MinHeight' = MinHeight  BY DEF MinHeight, cacheVars
<1>2. ~misplaced  OBVIOUS
<1>3. CASE c \in Ever
  BY <1>1, <1>2, <1>3 DEF EverClosed
<1>4. CASE c = b
  <2>1. CASE HasBlock(Parent[b])
    <3>1. Parent[b] \in Block /\ item[Parent[b]] = "attached"
      BY <2>1 DEF HasBlock, Attached
    <3>2. Parent[b] \in Ever  BY <3>1 DEF IndInv, AttachedAnnounced, Ever
    <3> QED  BY <1>4, <3>2
  <2>2. CASE Number[b] = MinHeight
    <3>1. MinHeight \in Nat
      BY MinHeightAbovePrune, ChainAssumption, BoundAssumption DEF MinHeight, IndInv, TypeOK
    <3> QED  BY <1>1, <1>4, <2>2, <3>1
  <2> QED  BY <2>1, <2>2 DEF CanAttachBlock
<1> QED  BY <1>3, <1>4

LEMMA EverStep ==
    ASSUME IndInv, IndInv', DeepInv, EverClosed, [Next]_vars
    PROVE  EverClosed'
<1> USE ChainAssumption, BoundAssumption
<1>1. TypeOK /\ TypeOK'  BY DEF IndInv
<1>2. ASSUME Ever' = Ever, UNCHANGED <<cacheVars, loaded, misplaced>> PROVE EverClosed'
  BY <1>2 DEF EverClosed, MinHeight, cacheVars
<1>3. ASSUME NEW b \in Block, AddBlockRefused(b) \/ AddBlockDetached(b) \/ SetHead(b)
      PROVE  EverClosed'
  <2>1. UNCHANGED <<emitted, emitting, cacheVars, loaded, misplaced>>
    BY <1>3 DEF AddBlockRefused, AddBlockDetached, SetHead, callVars, histVars
  <2> QED  BY <1>2, <2>1 DEF Ever
<1>4. ASSUME NEW b \in Block, AddBlockAttached(b) PROVE EverClosed'
  <2>1. /\ stage = "idle" /\ emitting' = b /\ isEmpty' = FALSE /\ CanAttachBlock(b)
        /\ pruneHeight' = IF isEmpty THEN Number[b] ELSE pruneHeight
        /\ UNCHANGED <<emitted, maxHeight, loaded, misplaced>>
    BY <1>4 DEF AddBlockAttached, NewToCache, histVars
  <2>2. emitting = NoBlock  BY <2>1 DEF IndInv, CallEmitting
  <2>3. Ever' = Ever \cup {b}  BY <2>1, <2>2 DEF Ever
  <2>4. CASE ~isEmpty
    <3>1. UNCHANGED <<pruneHeight, maxHeight, isEmpty>>  BY <1>1, <2>1, <2>4 DEF TypeOK
    <3> QED  BY <2>1, <2>3, <2>4, <3>1, EverGrows DEF cacheVars
  <2>5. CASE isEmpty
    <3> SUFFICES ASSUME loaded = {}, NEW c \in Ever' PROVE Number[c] <= MinHeight'
      BY <2>1 DEF EverClosed
    <3>1. \A x \in Block : emitted[x] = 0
      BY <2>5, EmptyHasNothing DEF IndInv, AnnouncedStays
    <3>2. c = b  BY <2>2, <2>3, <3>1 DEF Ever
    <3>3. pruneHeight' = Number[b]  BY <2>1, <2>5
    <3> QED  BY <1>1, <3>2, <3>3, MinHeightAbovePrune DEF MinHeight, TypeOK
  <2> QED  BY <2>4, <2>5
<1>5. CASE EmitNewBlock
  <2>1. /\ emitting \in Block /\ emitting' = NoBlock
        /\ emitted' = [emitted EXCEPT ![emitting] = @ + 1]
        /\ UNCHANGED <<cacheVars, loaded, misplaced>>
    BY <1>1, <1>5 DEF EmitNewBlock, histVars, TypeOK
  <2>2. Ever' = Ever  BY <1>1, <2>1 DEF Ever, TypeOK
  <2> QED  BY <1>2, <2>1, <2>2
<1>6. ASSUME NEW b \in Block, MarkDetached(b) PROVE EverClosed'
  <2>1. /\ stage = "mark" /\ emitting' = b /\ misplaced' = (misplaced \/ ~CanAttachBlock(b))
        /\ UNCHANGED <<emitted, cacheVars, loaded>>
    BY <1>6 DEF MarkDetached
  <2>2. emitting = NoBlock /\ ~isEmpty  BY <2>1 DEF IndInv, CallEmitting, CallNotEmpty
  <2>3. Ever' = Ever \cup {b}  BY <2>1, <2>2 DEF Ever
  <2>4. CASE misplaced'  BY <2>4 DEF EverClosed
  <2>5. CASE ~misplaced'
    <3>1. ~misplaced /\ CanAttachBlock(b)  BY <2>1, <2>5, Zenon
    <3> QED  BY <2>1, <2>2, <2>3, <2>5, <3>1, EverGrows
  <2> QED  BY <2>4, <2>5
<1>7. CASE UpdateMaxHeightAndPrune
  <2>1. UNCHANGED <<emitted, emitting, loaded, misplaced>>
    BY <1>7 DEF UpdateMaxHeightAndPrune, histVars
  <2>2. Ever' = Ever  BY <2>1 DEF Ever
  <2>3. \/ UNCHANGED <<pruneHeight, maxHeight>>
        \/ /\ maxHeight < level /\ maxHeight' = level
           /\ pruneHeight' = MinHeightOf(pruneHeight, level)
    BY <1>7 DEF UpdateMaxHeightAndPrune
  <2>a. /\ pruneHeight \in Nat /\ maxHeight \in Nat /\ level \in Nat
        /\ pruneHeight' \in Nat /\ maxHeight' \in Nat
    BY <1>1 DEF TypeOK
  <2>b. MinHeight' \in Nat /\ MinHeight' >= pruneHeight'
    BY <2>a, MinHeightAbovePrune DEF MinHeight
  <2>c. MinHeight = pruneHeight  BY <1>1, MinIsPrune DEF DeepInv, HeightInv
  <2>d. pruneHeight' >= pruneHeight
    BY <2>a, <2>3, MinHeightAbovePrune
  <2>4. /\ MinHeight' \in Nat /\ MinHeight' >= pruneHeight' /\ pruneHeight' >= pruneHeight
        /\ MinHeight = pruneHeight /\ pruneHeight \in Nat /\ pruneHeight' \in Nat
    BY <2>a, <2>b, <2>c, <2>d
  <2>5. MinHeight' >= MinHeight /\ MinHeight \in Nat
    BY <2>4
  <2>6. \A b \in Ever : Number[b] \in Nat  BY DEF Ever
  <2> QED  BY <2>1, <2>2, <2>4, <2>5, <2>6 DEF EverClosed
<1>8. CASE ScanLevel \/ SettleAtMinHeight \/ WriteBatch
  <2>1. UNCHANGED <<emitted, emitting, cacheVars, loaded, misplaced>>
    BY <1>8 DEF ScanLevel, SettleAtMinHeight, WriteBatch, histVars
  <2> QED  BY <1>2, <2>1 DEF Ever
<1>9. CASE RejectBatch
  <2>1. /\ emitting' = NoBlock /\ UNCHANGED <<cacheVars, loaded, misplaced>>
        /\ stage \in {"emit", "commit"}
        /\ emitted' = IF stage = "emit" THEN [emitted EXCEPT ![emitting] = @ + 1] ELSE emitted
    BY <1>9 DEF RejectBatch
  <2>2. CASE stage = "emit"
    <3>1. emitting \in Block  BY <1>1, <2>2 DEF TypeOK
    <3>2. Ever' = Ever  BY <1>1, <2>1, <2>2, <3>1 DEF Ever, TypeOK
    <3> QED  BY <1>2, <2>1, <3>2
  <2>3. CASE stage # "emit"
    <3>1. emitting = NoBlock  BY <2>3 DEF IndInv, CallEmitting
    <3>2. Ever' = Ever  BY <2>1, <2>3, <3>1 DEF Ever
    <3> QED  BY <1>2, <2>1, <3>2
  <2> QED  BY <2>2, <2>3
<1>10. CASE Restart
  <2>1. emitting' = NoBlock /\ emitted' = [b \in Block |-> 0]  BY <1>10 DEF Restart
  <2>2. Ever' = {}  BY <2>1 DEF Ever
  <2> QED  BY <2>2 DEF EverClosed
<1>11. CASE UNCHANGED vars
  <2>1. UNCHANGED <<emitted, emitting, cacheVars, loaded, misplaced>>
    BY <1>11 DEF vars, callVars, histVars
  <2> QED  BY <1>2, <2>1 DEF Ever
<1> QED
  BY <1>3, <1>4, <1>5, <1>6, <1>7, <1>8, <1>9, <1>10, <1>11 DEF Next, AddBlock, Continue

LEMMA CacheInvInit == Init => CacheInv
<1> SUFFICES ASSUME Init PROVE CacheInv  OBVIOUS
<1>1. IndInv /\ DeepInv  BY InitInv, DeepInit
<1>2. BatchInv  BY DEF Init, BatchInv, Mirrors, NoWrites
<1>3. Ever = {}  BY ChainAssumption DEF Init, Ever
<1> QED  BY <1>1, <1>2, <1>3 DEF CacheInv, EverClosed

LEMMA CacheInvStep == CacheInv /\ [Next]_vars => CacheInv'
<1> SUFFICES ASSUME CacheInv, [Next]_vars PROVE CacheInv'  OBVIOUS
<1>1. IndInv'  BY StepInv DEF CacheInv
<1>2. HeightInv' /\ RoundsRise'  BY <1>1, HeightStep DEF CacheInv, DeepInv
<1>3. Undisturbed' => CallInv'  BY <1>1, <1>2, CascadeStep DEF CacheInv, DeepInv
<1>4. BatchInv'  BY BatchStep DEF CacheInv
<1>5. EverClosed'  BY <1>1, EverStep DEF CacheInv
<1> QED  BY <1>1, <1>2, <1>3, <1>4, <1>5 DEF CacheInv, DeepInv

(* What the cache is, to whoever calls it. *)
THEOREM CacheFullInvariant == Spec => []CacheInv
BY CacheInvInit, CacheInvStep, PTL DEF Spec
-----------------------------------------------------------------------------
(* Ancestries *)

LEMMA SmallestOf ==
    ASSUME NEW S \in SUBSET Nat, S # {}
    PROVE  \E m \in S : \A n \in S : m <= n
<1>1. IsWellFoundedOn(OpToRel(<, Nat), Nat)  BY NatLessThanWellFounded
<1>2. PICK m \in S : \A n \in S : ~ (<<n, m>> \in OpToRel(<, Nat))
  <2> HIDE DEF IsWellFoundedOn, OpToRel
  <2> QED  BY <1>1, WFMin
<1>3. \A n \in S : n < m => <<n, m>> \in OpToRel(<, Nat)  BY DEF OpToRel
<1>4. \A n \in S : ~ (n < m)  BY <1>2, <1>3, Zenon
<1>5. m \in Nat /\ \A n \in S : n \in Nat  OBVIOUS
<1>6. \A n \in S : m <= n  BY <1>4, <1>5
<1> QED  BY <1>6

(* A set of blocks has a lowest one. *)
LEMMA LowestBlock ==
    ASSUME NEW T \in SUBSET Block, T # {}
    PROVE  \E b \in T : Parent[b] \notin T
<1> DEFINE S == {Number[b] : b \in T}
<1>1. S \in SUBSET Nat /\ S # {}  BY ChainAssumption
<1>2. PICK m \in S : \A n \in S : m <= n  BY <1>1, SmallestOf
<1>3. PICK b \in T : m = Number[b]  OBVIOUS
<1>4. ASSUME Parent[b] \in T PROVE FALSE
  <2>1. Number[b] = Number[Parent[b]] + 1 /\ Number[Parent[b]] \in Nat
    BY <1>4, ChainAssumption
  <2>2. m <= Number[Parent[b]]  BY <1>2, <1>4
  <2> QED  BY <1>3, <2>1, <2>2
<1> QED  BY <1>4

(* Following the parents within S from a block: the recursive functions of  *)
(* the model that do so have a solution, so they are that solution.         *)
Closed(W, S) == \A y \in W : Parent[y] \in S => Parent[y] \in W
Reached(b, S) ==
    {x \in Block : \A W \in SUBSET Block : b \in W /\ Closed(W, S) => x \in W}

LEMMA ReachedDef ==
    ASSUME NEW S \in SUBSET Block, NEW b \in Block
    PROVE  Reached(b, S) = {b} \cup (IF Parent[b] \in S THEN Reached(Parent[b], S) ELSE {})
<1> DEFINE U == {b} \cup (IF Parent[b] \in S THEN Reached(Parent[b], S) ELSE {})
<1>1. U \subseteq Reached(b, S)  BY DEF Reached, Closed
<1>2. b \in U /\ U \in SUBSET Block  BY DEF Reached
<1>3. Closed(U, S)  BY DEF Reached, Closed
<1> QED  BY <1>1, <1>2, <1>3 DEF Reached

LEMMA AncestryDef ==
    ASSUME NEW b \in Block
    PROVE  Ancestry[b] = {b} \cup (IF HasBlock(Parent[b]) THEN Ancestry[Parent[b]] ELSE {})
<1> DEFINE G == [x \in Block |-> Reached(x, Attached)]
<1>1. Attached \subseteq Block  BY DEF Attached
<1>2. G = [x \in Block |-> {x} \cup (IF HasBlock(Parent[x]) THEN G[Parent[x]] ELSE {})]
  <2>1. \A x \in Block : G[x] = Reached(x, Attached)  OBVIOUS
  <2>2. \A x \in Block : HasBlock(Parent[x]) => G[Parent[x]] = Reached(Parent[x], Attached)
    BY <1>1, <2>1 DEF HasBlock
  <2> HIDE DEF G
  <2>3. \A x \in Block :
           G[x] = {x} \cup (IF HasBlock(Parent[x]) THEN G[Parent[x]] ELSE {})
    BY <1>1, <2>1, <2>2, ReachedDef DEF HasBlock
  <2>4. G = [x \in Block |-> G[x]]  BY DEF G
  <2> QED  BY <2>3, <2>4, Zenon
<1>3. \E g : g = [x \in Block |-> {x} \cup (IF HasBlock(Parent[x]) THEN g[Parent[x]] ELSE {})]
  BY <1>2
<1>4. Ancestry = [x \in Block |-> {x} \cup (IF HasBlock(Parent[x]) THEN Ancestry[Parent[x]]
                                                                   ELSE {})]
  BY <1>3, Zenon DEF Ancestry
<1> QED  BY <1>4

(* The ancestry of a block is made of attached blocks and stops only at one *)
(* whose parent is not attached.                                            *)
LEMMA AncestryClosed ==
    ASSUME NEW b \in Block
    PROVE  /\ b \in Ancestry[b]
           /\ Ancestry[b] \subseteq Attached \cup {b}
           /\ \A a \in Ancestry[b] : HasBlock(Parent[a]) => Parent[a] \in Ancestry[b]
<1> DEFINE Good(x) == /\ x \in Ancestry[x]
                      /\ Ancestry[x] \subseteq Attached \cup {x}
                      /\ \A a \in Ancestry[x] : HasBlock(Parent[a]) => Parent[a] \in Ancestry[x]
           T == {x \in Block : ~Good(x)}
<1>1. CASE T # {}
  <2> HIDE DEF T
  <2>1. PICK x \in T : Parent[x] \notin T  BY <1>1, LowestBlock DEF T
  <2>2. x \in Block  BY <2>1 DEF T
  <2>3. CASE HasBlock(Parent[x])
    <3>1. Parent[x] \in Attached /\ Parent[x] \in Block  BY <2>3 DEF HasBlock, Attached
    <3>2. Good(Parent[x])  BY <2>1, <3>1 DEF T
    <3>3. Ancestry[x] = {x} \cup Ancestry[Parent[x]]  BY <2>2, <2>3, AncestryDef
    <3>4. Good(x)  BY <3>1, <3>2, <3>3
    <3> QED  BY <2>1, <3>4 DEF T
  <2>4. CASE ~HasBlock(Parent[x])
    <3>1. Ancestry[x] = {x}  BY <2>2, <2>4, AncestryDef
    <3>2. Good(x)  BY <2>4, <3>1
    <3> QED  BY <2>1, <3>2 DEF T
  <2> QED  BY <2>3, <2>4
<1>2. CASE T = {}
  <2>1. Good(b)  BY <1>2
  <2> QED  BY <2>1
<1> QED  BY <1>1, <1>2

(* As long as no block was misplaced, walking back from an attached block   *)
(* arrives at minHeight.                                                    *)
LEMMA AncestryReaches ==
    ASSUME CacheInv, loaded = {}, ~misplaced, NEW b \in Attached
    PROVE  Number[OldestAncestorInCache(b)] <= MinHeight
<1> USE ChainAssumption, BoundAssumption
<1>1. b \in Block /\ Attached \subseteq Block  BY DEF Attached
<1>2. Ancestry[b] \subseteq Attached  BY <1>1, AncestryClosed
<1>3. PICK z \in Ancestry[b] : Parent[z] \notin Ancestry[b]
  <2>1. Ancestry[b] \in SUBSET Block /\ Ancestry[b] # {}  BY <1>1, <1>2, AncestryClosed
  <2> QED  BY <2>1, LowestBlock
<1>4. ~HasBlock(Parent[z])  BY <1>1, <1>3, AncestryClosed
<1> DEFINE a == OldestAncestorInCache(b)
<1>5. a \in Ancestry[b] /\ ~HasBlock(Parent[a])
  BY <1>3, <1>4 DEF OldestAncestorInCache
<1> HIDE DEF a
<1>6. a \in Attached /\ a \in Block /\ item[a] = "attached"  BY <1>2, <1>5 DEF Attached
<1>7. a \in Ever
  BY <1>6 DEF CacheInv, IndInv, AttachedAnnounced, Ever
<1>8. Parent[a] \in Ever \/ Number[a] <= MinHeight  BY <1>7 DEF CacheInv, EverClosed
<1>9. CASE Parent[a] \in Ever
  <2>1. Parent[a] \in Block /\ item[Parent[a]] # "attached"
    BY <1>5, <1>9 DEF Ever, HasBlock, Attached
  <2>2. Parent[a] # emitting
    BY <2>1 DEF CacheInv, IndInv, CallEmitting
  <2>3. Number[Parent[a]] < pruneHeight
    BY <1>9, <2>1, <2>2 DEF Ever, CacheInv, IndInv, AnnouncedStays
  <2>4. MinHeight = pruneHeight  BY MinIsPrune DEF CacheInv, DeepInv, HeightInv, IndInv
  <2>5. Number[a] = Number[Parent[a]] + 1 /\ Number[Parent[a]] \in Nat /\ pruneHeight \in Nat
    BY <1>6, <2>1 DEF CacheInv, IndInv, TypeOK
  <2> QED  BY <2>3, <2>4, <2>5 DEF a
<1> QED  BY <1>8, <1>9 DEF a

-----------------------------------------------------------------------------
(* What stays *)

(* Within a run of the process no block is forgotten that was attached. *)
LEMMA EverKept ==
    ASSUME IndInv, [Next]_vars, ~Restart
    PROVE  Ever \subseteq Ever'
<1>1. TypeOK  BY DEF IndInv
<1>2. ASSUME UNCHANGED emitted, emitting = NoBlock \/ emitting' = emitting
      PROVE  Ever \subseteq Ever'
  BY <1>2, ChainAssumption DEF Ever
<1>3. ASSUME stage # "emit" PROVE emitting = NoBlock
  BY <1>3 DEF IndInv, CallEmitting
<1>4. ASSUME NEW b \in Block, AddBlock(b) \/ SetHead(b) PROVE Ever \subseteq Ever'
  BY <1>2, <1>3, <1>4 DEF AddBlock, AddBlockRefused, AddBlockAttached, AddBlockDetached,
                          NewToCache, SetHead, callVars
<1>5. ASSUME emitting \in Block, emitted' = [emitted EXCEPT ![emitting] = @ + 1]
      PROVE  Ever \subseteq Ever'
  BY <1>1, <1>5 DEF Ever, TypeOK
<1>6. CASE EmitNewBlock
  BY <1>1, <1>5, <1>6 DEF EmitNewBlock, TypeOK
<1>7. CASE RejectBatch
  BY <1>1, <1>2, <1>3, <1>5, <1>7 DEF RejectBatch, TypeOK
<1>8. CASE (\E b \in Block : MarkDetached(b)) \/ UpdateMaxHeightAndPrune \/ ScanLevel
           \/ SettleAtMinHeight \/ WriteBatch
  BY <1>2, <1>3, <1>8 DEF MarkDetached, UpdateMaxHeightAndPrune, ScanLevel,
                          SettleAtMinHeight, WriteBatch
<1>9. CASE UNCHANGED vars
  BY <1>2, <1>9 DEF vars, callVars
<1> QED  BY <1>4, <1>6, <1>7, <1>8, <1>9 DEF Next, Continue

(* A block is attached at this height, or too far above it to matter. *)
Covers(status, n) ==
    \E b \in Block : /\ status[b] = "attached"
                     /\ Number[b] = n \/ Number[b] > n + MaxDepth

Covered(n) == Covers(item, n) /\ Covers(disk, n)

(* In memory a height stays covered: what is pruned is more than maxDepth   *)
(* below an attached block.                                                 *)
LEMMA CoversStep ==
    ASSUME IndInv, [Next]_vars, ~Restart, NEW n \in Nat, Covers(item, n)
    PROVE  Covers(item', n)
<1> USE ChainAssumption, BoundAssumption
<1>1. TypeOK  BY DEF IndInv
<1>2. PICK b \in Block : item[b] = "attached" /\ (Number[b] = n \/ Number[b] > n + MaxDepth)
  BY DEF Covers
<1>3. CASE UpdateMaxHeightAndPrune
  <2>1. CASE item'[b] = "absent"
    <3>1. b \in Stored  BY <1>2 DEF Stored
    <3>2. PICK a \in Attached' : Number[a] - Number[b] > MaxDepth
      BY <1>3, <2>1, <3>1, PrunedIsDeep
    <3>3. a \in Block /\ item'[a] = "attached"  BY <3>2 DEF Attached
    <3>4. Number[a] > n + MaxDepth  BY <1>2, <3>2, <3>3
    <3> QED  BY <3>3, <3>4 DEF Covers
  <2>2. CASE item'[b] # "absent"
    <3>1. item'[b] = item[b]
      BY <1>3, <2>2 DEF UpdateMaxHeightAndPrune, DeleteItems
    <3> QED  BY <1>2, <3>1 DEF Covers
  <2> QED  BY <2>1, <2>2
<1>4. CASE ~UpdateMaxHeightAndPrune
  <2>1. item'[b] # "absent"  BY <1>2, <1>4, OthersKeep
  <2>2. ASSUME NEW c \in Block, AddBlock(c) \/ MarkDetached(c) \/ SetHead(c)
        PROVE  item'[b] = "attached"
    <3>1. CASE AddBlockRefused(c) \/ SetHead(c)
      BY <1>2, <3>1 DEF AddBlockRefused, SetHead, storeVars
    <3>2. CASE AddBlockAttached(c) \/ MarkDetached(c)
      <4>1. item' = [item EXCEPT ![c] = "attached"]
        BY <3>2 DEF AddBlockAttached, MarkDetached, PutAttached
      <4>2. item \in [Block -> Status]  BY <1>1 DEF TypeOK
      <4> QED  BY <1>2, <4>1, <4>2
    <3>3. CASE AddBlockDetached(c)
      BY <1>1, <1>2, <3>3 DEF AddBlockDetached, NewToCache, PutAttached, TypeOK
    <3> QED  BY <2>2, <3>1, <3>2, <3>3 DEF AddBlock
  <2>3. ASSUME EmitNewBlock \/ ScanLevel \/ SettleAtMinHeight \/ WriteBatch \/ RejectBatch
               \/ UNCHANGED vars
        PROVE  item'[b] = "attached"
    BY <1>2, <2>3 DEF EmitNewBlock, ScanLevel, SettleAtMinHeight, WriteBatch, RejectBatch,
       vars, storeVars
  <2>4. item'[b] = "attached"  BY <1>4, <2>2, <2>3 DEF Next, Continue
  <2> QED  BY <1>2, <2>4 DEF Covers
<1> QED  BY <1>3, <1>4

(* As long as no batch is rejected, the disk follows. *)
LEMMA CoveredStep ==
    ASSUME IndInv, BatchInv, [Next]_vars, rejections = 0, ~RejectBatch,
           NEW n \in Nat, Covered(n)
    PROVE  Covered(n)'
<1>1. CASE Restart
  <2>1. item' = disk /\ disk' = disk  BY <1>1 DEF Restart
  <2> QED  BY <2>1 DEF Covered
<1>2. CASE ~Restart
  <2>1. Covers(item', n)  BY <1>2, CoversStep DEF Covered
  <2>2. CASE WriteBatch
    <3>1. \A b \in Block : disk'[b] = item[b]
      BY <2>2 DEF WriteBatch, CommitBatch, BatchInv, Mirrors
    <3>2. Covers(disk', n)  BY <3>1 DEF Covered, Covers
    <3> QED  BY <2>1, <3>2 DEF Covered
  <2>3. CASE ~WriteBatch
    <3>1. disk' = disk
      BY <1>2, <2>3 DEF Next, AddBlock, AddBlockRefused, AddBlockAttached, AddBlockDetached,
         Continue, EmitNewBlock, MarkDetached, UpdateMaxHeightAndPrune, ScanLevel,
         SettleAtMinHeight, SetHead, vars, storeVars
    <3> QED  BY <2>1, <3>1 DEF Covered
  <2> QED  BY <2>2, <2>3
<1> QED  BY <1>1, <1>2

(* Between calls an attached block covers its height. *)
LEMMA AttachedIsCovered ==
    ASSUME BatchInv, stage = "idle", rejections = 0, NEW b \in Block, HasBlock(b)
    PROVE  Covered(Number[b])
<1>1. item[b] = "attached" /\ disk[b] = item[b]
  BY DEF HasBlock, Attached, BatchInv, Mirrors, NoWrites
<1> QED  BY <1>1 DEF Covered, Covers
=============================================================================

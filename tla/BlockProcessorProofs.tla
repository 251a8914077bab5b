------------------------ MODULE BlockProcessorProofs ------------------------
(***************************************************************************)
(* What holds of the block processor with any number of calls of           *)
(* processBlockNumber in flight.  Each step of one is a step of BlockCache *)
(* or leaves the cache alone, so all that BlockCacheProofs proves holds of *)
(* the cache inside the running tower.                                     *)
(*                                                                         *)
(* The inductive invariant of the composition is FullInv: the cache's own  *)
(* (CP!CacheInv), the calls (ProcInv: a call only ever adds, or makes the  *)
(* head, a block it was given), the lock (LockInv: an addBlock in progress *)
(* belongs to the lock's owner; QueueInv: who is in its queue), what has   *)
(* been announced (DeliveredInv, HeadsWereAttached) and what the stored    *)
(* head number stands for (StoredInv).  CP is BlockCacheProofs over the    *)
(* variables of the processor, so its lemmas are lemmas about the          *)
(* processor's cache.  WalkInv is about a lone call, whose detached blocks *)
(* form one path.                                                          *)
(***************************************************************************)
EXTENDS BlockProcessor, TLAPS

CP == INSTANCE BlockCacheProofs

Heights == Numbers \cup {NotYet}

Calls == [pc : Steps, target : Heights, processing : Nat \cup {NotYet},
          observed : Block \cup {NoBlock}, cur : Block \cup {NoBlock}]

(* From the provider's first answer on a call has a block to process. *)
CallHasBlocks(c) ==
    c.pc \notin {"free", "fetch"} => c.cur \in Block /\ c.observed \in Block

(* Numbers are announced one by one, up to the tip. *)
AnnouncedIsShown ==
    announced # NotYet =>
        announced \in Nat /\ Number[FirstTip] <= announced /\ announced <= Number[tip]

ProcInv ==
    /\ tip \in Block /\ Number[FirstTip] <= Number[tip]
    /\ AnnouncedIsShown
    /\ storedHead \in Heights
    /\ headHash \in Block \cup {NoBlock}
    /\ call \in [Handler -> Calls]
    /\ \A h \in Handler : CallHasBlocks(call[h])

CacheCall ==
    \/ \E b \in Block : Cache!AddBlock(b) \/ Cache!SetHead(b)
    \/ Cache!Continue
    \/ UNCHANGED cacheState

CacheStep == CacheCall \/ Cache!RejectBatch \/ Cache!Restart

-----------------------------------------------------------------------------
(* What is proved of the cache holds of the processor's. *)
LEMMA CPAssumption == CP!ChainAssumption /\ CP!BoundAssumption
BY CacheAssumption
   DEF CP!ChainAssumption, CP!BoundAssumption, Cache!ChainAssumption, Cache!BoundAssumption

(* CP is the cache once more, with the theorems about it. *)
LEMMA SameNext == [Cache!Next]_(Cache!vars) => [CP!Next]_(CP!vars)
BY DEF Cache!Next, Cache!vars, Cache!AddBlock, Cache!AddBlockRefused,
       Cache!AddBlockAttached, Cache!AddBlockDetached, Cache!NewToCache,
       Cache!TooLow, Cache!CanAttachBlock, Cache!MinHeight, Cache!MinHeightOf,
       Cache!HasBlock, Cache!Attached, Cache!Stored, Cache!Detached,
       Cache!DetachedAt, Cache!PutAttached, Cache!DeleteItems, Cache!CommitBatch,
       Cache!Continue, Cache!EmitNewBlock, Cache!MarkDetached,
       Cache!UpdateMaxHeightAndPrune, Cache!ScanLevel, Cache!SettleAtMinHeight,
       Cache!WriteBatch, Cache!RejectBatch, Cache!Restart, Cache!SetHead,
       Cache!storeVars, Cache!cacheVars, Cache!callVars, Cache!histVars,
       Cache!NoWrites, Cache!NotYet, CP!Next, CP!vars, CP!AddBlock,
       CP!AddBlockRefused, CP!AddBlockAttached, CP!AddBlockDetached,
       CP!NewToCache, CP!TooLow, CP!CanAttachBlock, CP!MinHeight, CP!MinHeightOf,
       CP!HasBlock, CP!Attached, CP!Stored, CP!Detached, CP!DetachedAt,
       CP!PutAttached, CP!DeleteItems, CP!CommitBatch, CP!Continue,
       CP!EmitNewBlock, CP!MarkDetached, CP!UpdateMaxHeightAndPrune,
       CP!ScanLevel, CP!SettleAtMinHeight, CP!WriteBatch, CP!RejectBatch,
       CP!Restart, CP!SetHead, CP!storeVars, CP!cacheVars, CP!callVars,
       CP!histVars, CP!NoWrites, CP!NotYet

-----------------------------------------------------------------------------
(* A step of the processor is one step of the cache's interface, or leaves  *)
(* the cache alone.                                                         *)
LEMMA StepOfCache ==
    ASSUME ProcInv, [Next]_vars
    PROVE  CacheCall \/ RejectAdd \/ Restart
<1>1. ASSUME NEW b \in Block, NewTip(b) PROVE CacheCall
  BY <1>1 DEF NewTip, CacheCall
<1>2. ASSUME NEW h \in Handler,
             Boot(h) \/ NewBlockEvent(h) \/ Answer(h) \/ Receive(h) \/ FetchParent(h)
      PROVE  CacheCall
  BY <1>2 DEF Boot, NewBlockEvent, Answer, Receive, FetchParent, CacheCall
<1>3. ASSUME NEW h \in Handler,
             AddFailed(h) \/ WalkToParent(h) \/ NextBatch(h) \/ NotTheHead(h)
      PROVE  CacheCall
  BY <1>3 DEF AddFailed, WalkToParent, NextBatch, NotTheHead, CacheCall
<1>4. ASSUME NEW h \in Handler,
             EmitNewHead(h) \/ StoreHead(h) \/ FetchFails(h) \/ NewHeadFails(h)
      PROVE  CacheCall
  BY <1>4 DEF EmitNewHead, StoreHead, FetchFails, NewHeadFails, CacheCall
<1>5. ASSUME NEW h \in Handler, StartAdd(h) PROVE CacheCall
  <2>1. call[h].cur \in Block
    BY <1>5 DEF StartAdd, ProcInv, CallHasBlocks
  <2> QED
    BY <1>5, <2>1 DEF StartAdd, CacheCall
<1>6. ASSUME NEW h \in Handler, BecomeHead(h) PROVE CacheCall
  <2>1. call[h].observed \in Block
    BY <1>6 DEF BecomeHead, Attached, Added, ProcInv, CallHasBlocks
  <2> QED
    BY <1>6, <2>1 DEF BecomeHead, CacheCall
<1>7. ASSUME RunAdd \/ Stop \/ UNCHANGED vars PROVE CacheCall
  BY <1>7 DEF RunAdd, Stop, vars, CacheCall
<1> QED
  BY <1>1, <1>2, <1>3, <1>4, <1>5, <1>6, <1>7 DEF Next, Proceed

LEMMA StepIsCacheStep == ProcInv /\ [Next]_vars => CacheStep
BY StepOfCache DEF CacheStep, RejectAdd, Restart

(* What only a restart changes, and what only a failing addBlock does. *)
LEMMA CallLeaves == CacheCall => UNCHANGED <<loaded, restarts, rejections>>
BY DEF CacheCall, Cache!AddBlock, Cache!AddBlockRefused, Cache!AddBlockAttached,
       Cache!AddBlockDetached, Cache!SetHead, Cache!Continue, Cache!EmitNewBlock,
       Cache!MarkDetached, Cache!UpdateMaxHeightAndPrune, Cache!ScanLevel,
       Cache!SettleAtMinHeight, Cache!WriteBatch, Cache!histVars, cacheState

(* The steps of the cache's interface are the steps of BlockCache. *)
LEMMA CacheStepIsNext == CacheStep => [Cache!Next]_(Cache!vars)
<1>1. UNCHANGED cacheState => UNCHANGED Cache!vars
  BY DEF cacheState, Cache!vars, Cache!storeVars, Cache!cacheVars, Cache!callVars,
         Cache!histVars
<1> QED
  BY <1>1 DEF CacheStep, CacheCall, Cache!Next

(* The head is only ever a block that setHead was given. *)
LEMMA HeadStep == ProcInv /\ CacheStep => headHash' \in Block \cup {NoBlock}
<1> SUFFICES ASSUME ProcInv, CacheStep PROVE headHash' \in Block \cup {NoBlock}
  OBVIOUS
<1>1. ASSUME NEW b \in Block, Cache!AddBlock(b) PROVE headHash' = headHash
  BY <1>1 DEF Cache!AddBlock, Cache!AddBlockRefused, Cache!AddBlockAttached,
              Cache!AddBlockDetached
<1>2. ASSUME Cache!Continue PROVE headHash' = headHash
  BY <1>2 DEF Cache!Continue, Cache!EmitNewBlock, Cache!MarkDetached,
              Cache!UpdateMaxHeightAndPrune, Cache!ScanLevel,
              Cache!SettleAtMinHeight, Cache!WriteBatch
<1>3. CASE Cache!RejectBatch
  BY <1>3 DEF Cache!RejectBatch, ProcInv
<1>4. CASE Cache!Restart
  BY <1>4 DEF Cache!Restart
<1>5. ASSUME NEW b \in Block, Cache!SetHead(b) PROVE headHash' \in Block
  BY <1>5 DEF Cache!SetHead
<1>6. CASE UNCHANGED cacheState
  BY <1>6 DEF cacheState, ProcInv
<1> QED
  BY <1>1, <1>2, <1>3, <1>4, <1>5, <1>6 DEF CacheStep, CacheCall, ProcInv

(* There is a block at every height from the first tip's to the tip's. *)
LEMMA HeightsShown ==
    ASSUME NEW t \in Block, NEW n \in Nat, Number[FirstTip] <= n, n <= Number[t]
    PROVE  n \in Numbers
<1> USE CacheAssumption, ProcessorAssumption DEF Cache!ChainAssumption
<1> DEFINE S == {Number[b] : b \in {x \in Block : n <= Number[x]}}
<1>1. S \in SUBSET Nat /\ S # {}
  <2>1. Number[t] \in S  OBVIOUS
  <2> QED  BY <2>1
<1>2. PICK m \in S : \A k \in S : m <= k
  <2> HIDE DEF S
  <2> QED  BY <1>1, CP!SmallestOf, CPAssumption
<1>3. PICK b \in Block : m = Number[b] /\ n <= Number[b]  BY <1>2
<1>4. CASE m = n
  BY <1>3, <1>4 DEF Numbers
<1>5. CASE m # n
  <2>1. Number[b] > n /\ Number[FirstTip] \in Nat  BY <1>3, <1>5
  <2>2. Parent[b] \in Block  BY <2>1
  <2>3. Number[b] = Number[Parent[b]] + 1 /\ Number[Parent[b]] \in Nat  BY <2>2
  <2>4. n <= Number[Parent[b]]  BY <2>1, <2>3
  <2>5. Number[Parent[b]] \in S  BY <2>2, <2>4
  <2> HIDE DEF S
  <2>6. m <= Number[Parent[b]]  BY <1>2, <2>5
  <2> QED  BY <1>3, <2>3, <2>6
<1> QED  BY <1>4, <1>5

(* No call is in flight when the tower starts. *)
LEMMA ProcInit == Init => ProcInv
BY ProcessorAssumption, CacheAssumption
   DEF Init, ProcInv, AnnouncedIsShown, Heights, Calls, CallHasBlocks, Cache!Init, Free,
       Steps, NotYet, Cache!ChainAssumption

(* A batch aims at a height, whichever way it begins. *)
LEMMA BeginBatchKeeps ==
    ASSUME ProcInv, NEW h \in Handler, NEW n \in Heights, BeginBatch(h, n)
    PROVE  /\ call' \in [Handler -> Calls]
           /\ \A g \in Handler : CallHasBlocks(call'[g])
<1> USE CacheAssumption DEF Cache!ChainAssumption, Cache!BoundAssumption
<1>0. Numbers \subseteq Nat  BY DEF Numbers
<1>1. PICK c \in Calls : call' = [call EXCEPT ![h] = c] /\ c.pc \in {"free", "fetch"}
  <2>1. Free \in Calls /\ Free.pc = "free"
    BY DEF Free, Calls, Heights, Steps, NotYet
  <2>2. ASSUME NEW m \in Nat \cup {NotYet}
        PROVE  LET c == [Free EXCEPT !.pc = "fetch", !.target = n, !.processing = m]
               IN  c \in Calls /\ c.pc \in {"free", "fetch"}
    BY DEF Free, Calls, Steps, NotYet
  <2>3. CASE isEmpty
    BY <1>0, <2>2, <2>3 DEF BeginBatch, Heights
  <2>4. CASE ~isEmpty /\ (headHash = NoBlock \/ item[headHash] = "absent")
    BY <2>1, <2>4 DEF BeginBatch, Return
  <2>5. CASE ~isEmpty /\ ~(headHash = NoBlock \/ item[headHash] = "absent")
    <3>1. Number[headHash] + MaxDepth \in Nat
      BY <2>5 DEF ProcInv
    <3> DEFINE reach == Number[headHash] + MaxDepth
               m == IF n <= reach THEN n ELSE reach
    <3>2. m \in Nat \cup {NotYet}
      BY <1>0, <3>1 DEF Heights
    <3>3. call' = [call EXCEPT ![h] = [Free EXCEPT !.pc = "fetch", !.target = n,
                                                  !.processing = m]]
      BY <2>5 DEF BeginBatch
    <3> QED
      BY <2>2, <3>2, <3>3
  <2> QED
    BY <2>3, <2>4, <2>5
<1> QED
  BY <1>1 DEF ProcInv, CallHasBlocks

(* The other steps of a call move it on, with the blocks it has. *)
LEMMA CallKeeps ==
    ASSUME ProcInv, NEW h \in Handler, NEW c \in Calls,
           call' = [call EXCEPT ![h] = c], CallHasBlocks(c)
    PROVE  /\ call' \in [Handler -> Calls]
           /\ \A g \in Handler : CallHasBlocks(call'[g])
BY DEF ProcInv

(* The number the provider emits next is that of a block. *)
LEMMA NextIsShown ==
    ASSUME ProcInv, NEW h \in Handler, NewBlockEvent(h)
    PROVE  AnnouncedIsShown' /\ announced' \in Heights
<1> USE CacheAssumption, ProcessorAssumption DEF Cache!ChainAssumption
<1>1. tip' = tip /\ tip \in Block /\ Number[tip] \in Nat /\ Number[FirstTip] \in Nat
  BY DEF ProcInv, NewBlockEvent
<1>2. announced' \in Nat /\ Number[FirstTip] <= announced' /\ announced' <= Number[tip]
  BY <1>1 DEF ProcInv, AnnouncedIsShown, NewBlockEvent, NotYet
<1> QED
  BY <1>1, <1>2, HeightsShown DEF AnnouncedIsShown, Heights

(* Every step keeps the calls on blocks. *)
LEMMA CallStep ==
    ASSUME ProcInv, [Next]_vars
    PROVE  /\ call' \in [Handler -> Calls]
           /\ \A h \in Handler : CallHasBlocks(call'[h])
<1> DEFINE Keeps == /\ call' \in [Handler -> Calls]
                    /\ \A h \in Handler : CallHasBlocks(call'[h])
<1> USE CacheAssumption DEF Cache!ChainAssumption, Cache!BoundAssumption
<1>1. ASSUME UNCHANGED call PROVE Keeps
  BY <1>1 DEF ProcInv
<1>2. ASSUME NEW b \in Block, NewTip(b) PROVE Keeps
  BY <1>1, <1>2 DEF NewTip
<1>3. ASSUME NEW h \in Handler, Boot(h) PROVE Keeps
  <2>1. Number[tip] \in Heights /\ storedHead \in Heights
    BY DEF ProcInv, Heights, Numbers
  <2> QED
    BY <1>3, <2>1, BeginBatchKeeps DEF Boot
<1>4. ASSUME NEW h \in Handler, NewBlockEvent(h) PROVE Keeps
  <2>1. announced' \in Heights
    BY <1>4, NextIsShown
  <2> QED
    BY <1>4, <2>1, BeginBatchKeeps DEF NewBlockEvent
<1>5. ASSUME NEW h \in Handler, Return(h) PROVE Keeps
  <2>1. Free \in Calls /\ CallHasBlocks(Free)
    BY DEF Free, Calls, Heights, Steps, NotYet, CallHasBlocks
  <2> QED
    BY <1>5, <2>1, CallKeeps DEF Return
<1>6. ASSUME NEW h \in Handler, Answer(h) PROVE Keeps
  <2>1. PICK b \in Block :
           call' = [call EXCEPT ![h].pc = "answered", ![h].observed = b, ![h].cur = b]
    BY <1>6 DEF Answer, Canonical
  <2> DEFINE c == [call[h] EXCEPT !.pc = "answered", !.observed = b, !.cur = b]
  <2>2. c \in Calls /\ CallHasBlocks(c)
    <3>1. call[h] \in Calls  BY DEF ProcInv
    <3> QED  BY <3>1 DEF Calls, Steps, CallHasBlocks
  <2>3. call' = [call EXCEPT ![h] = c]
    BY <2>1 DEF ProcInv, Calls
  <2> HIDE DEF c
  <2> QED
    BY <2>2, <2>3, CallKeeps
<1>7. ASSUME NEW h \in Handler, NEW p \in Steps, call[h].pc \notin {"free", "fetch"},
             call' = [call EXCEPT ![h].pc = p]
      PROVE  Keeps
  <2> DEFINE c == [call[h] EXCEPT !.pc = p]
  <2>1. c \in Calls /\ CallHasBlocks(c)
    BY <1>7 DEF ProcInv, Calls, CallHasBlocks
  <2>2. call' = [call EXCEPT ![h] = c]
    BY <1>7
  <2> HIDE DEF c
  <2> QED
    BY <2>1, <2>2, CallKeeps
<1>8. ASSUME NEW h \in Handler,
             Receive(h) \/ FetchParent(h) \/ StartAdd(h) \/ BecomeHead(h) \/ EmitNewHead(h)
      PROVE  Keeps
  <2>1. Receive(h) => Keeps  BY <1>7 DEF Receive, Steps
  <2>2. FetchParent(h) => Keeps  BY <1>7 DEF FetchParent, Steps
  <2>3. StartAdd(h) => Keeps  BY <1>7 DEF StartAdd, Steps
  <2>4. BecomeHead(h) => Keeps  BY <1>7 DEF BecomeHead, Attached, Added, Steps
  <2>5. EmitNewHead(h) => Keeps  BY <1>7 DEF EmitNewHead, Steps
  <2> QED  BY <1>8, <2>1, <2>2, <2>3, <2>4, <2>5
<1>9. ASSUME NEW h \in Handler,
             FetchFails(h) \/ AddFailed(h) \/ NotTheHead(h) \/ NewHeadFails(h) \/ StoreHead(h)
      PROVE  Keeps
  BY <1>5, <1>9 DEF FetchFails, AddFailed, NotTheHead, NewHeadFails, StoreHead
<1>10. ASSUME NEW h \in Handler, WalkToParent(h) PROVE Keeps
  <2>1. PICK p \in Block, q \in {"lock", "parent"} :
           call' = [call EXCEPT ![h].cur = p, ![h].pc = q]
    BY <1>10 DEF WalkToParent
  <2> DEFINE c == [call[h] EXCEPT !.cur = p, !.pc = q]
  <2>2. call[h].observed \in Block
    BY <1>10 DEF WalkToParent, Added, ProcInv, CallHasBlocks
  <2>3. c \in Calls /\ CallHasBlocks(c)
    <3>1. call[h] \in Calls
      BY DEF ProcInv
    <3>2. c \in Calls
      BY <3>1 DEF Calls, Steps
    <3>3. CallHasBlocks(c)
      BY <2>2, <3>1 DEF CallHasBlocks, Calls
    <3> QED
      BY <3>2, <3>3
  <2>4. call' = [call EXCEPT ![h] = c]
    BY <2>1 DEF ProcInv, Calls
  <2> HIDE DEF c
  <2> QED
    BY <2>3, <2>4, CallKeeps
<1>11. ASSUME NEW h \in Handler, NextBatch(h) PROVE Keeps
  <2>1. call[h].target \in Heights
    BY DEF ProcInv, Calls
  <2> QED
    BY <1>11, <2>1, BeginBatchKeeps DEF NextBatch
<1>12. CASE Restart
  <2>1. Free \in Calls /\ CallHasBlocks(Free)
    BY DEF Free, Calls, Heights, Steps, NotYet, CallHasBlocks
  <2>2. call' = [h \in Handler |-> Free]
    BY <1>12 DEF Restart
  <2> QED
    BY <2>1, <2>2
<1>13. CASE RunAdd \/ RejectAdd \/ Stop \/ UNCHANGED vars
  BY <1>1, <1>13 DEF RunAdd, RejectAdd, Stop, vars
<1> QED
  BY <1>2, <1>3, <1>4, <1>6, <1>8, <1>9, <1>10, <1>11, <1>12, <1>13 DEF Next, Proceed

(* Announced and stored head numbers are those of blocks. *)
LEMMA NetworkStep ==
    ASSUME ProcInv, [Next]_vars
    PROVE  /\ tip' \in Block /\ Number[FirstTip] <= Number[tip']
           /\ AnnouncedIsShown'
           /\ storedHead' \in Heights
<1> DEFINE Goal == /\ tip' \in Block /\ Number[FirstTip] <= Number[tip']
                   /\ AnnouncedIsShown'
                   /\ storedHead' \in Heights
<1> USE CacheAssumption, ProcessorAssumption DEF Cache!ChainAssumption
<1>1. ASSUME NEW b \in Block, NewTip(b) PROVE Goal
  <2>1. tip' = b /\ Number[b] > Number[tip] /\ UNCHANGED <<announced, storedHead>>
    BY <1>1 DEF NewTip
  <2> QED
    BY <2>1 DEF ProcInv, AnnouncedIsShown
<1>2. ASSUME NEW h \in Handler, NewBlockEvent(h) PROVE Goal
  BY <1>2, NextIsShown DEF NewBlockEvent, ProcInv
<1>3. ASSUME NEW h \in Handler, StoreHead(h) PROVE Goal
  <2>1. /\ call[h].observed \in Block /\ storedHead' = Number[call[h].observed]
        /\ UNCHANGED <<tip, announced>>
    BY <1>3 DEF StoreHead, network, ProcInv, CallHasBlocks
  <2> QED
    BY <2>1 DEF ProcInv, AnnouncedIsShown, Heights, Numbers
<1>4. CASE Restart
  BY <1>4 DEF Restart, ProcInv, AnnouncedIsShown
<1>5. CASE UNCHANGED <<tip, announced, storedHead>>
  BY <1>5 DEF ProcInv, AnnouncedIsShown
<1>6. ASSUME NEW h \in Handler,
             Boot(h) \/ Answer(h) \/ Receive(h) \/ FetchParent(h) \/ StartAdd(h)
      PROVE  UNCHANGED <<tip, announced, storedHead>>
  BY <1>6 DEF Boot, Answer, Receive, FetchParent, StartAdd, network
<1>7. ASSUME NEW h \in Handler,
             AddFailed(h) \/ WalkToParent(h) \/ NextBatch(h) \/ NotTheHead(h)
      PROVE  UNCHANGED <<tip, announced, storedHead>>
  BY <1>7 DEF AddFailed, WalkToParent, NextBatch, NotTheHead, network
<1>8. ASSUME NEW h \in Handler,
             BecomeHead(h) \/ EmitNewHead(h) \/ FetchFails(h) \/ NewHeadFails(h)
      PROVE  UNCHANGED <<tip, announced, storedHead>>
  BY <1>8 DEF BecomeHead, EmitNewHead, FetchFails, NewHeadFails, network
<1>9. ASSUME RunAdd \/ RejectAdd \/ Stop \/ UNCHANGED vars
      PROVE  UNCHANGED <<tip, announced, storedHead>>
  BY <1>9 DEF RunAdd, RejectAdd, Stop, vars, network
<1> QED
  BY <1>1, <1>2, <1>3, <1>4, <1>5, <1>6, <1>7, <1>8, <1>9 DEF Next, Proceed

(* Every step preserves the invariant. *)
LEMMA ProcStep == ProcInv /\ [Next]_vars => ProcInv'
BY CallStep, NetworkStep, StepIsCacheStep, HeadStep DEF ProcInv

-----------------------------------------------------------------------------
(* The refinement *)

(* A call of processBlockNumber that waits for the lock, for addBlock or    *)
(* for a listener holds the block it observed.                              *)
THEOREM ProcessorInvariant == Spec => []ProcInv
BY ProcInit, ProcStep, PTL DEF Spec

-----------------------------------------------------------------------------
(* The invariant of the cache, in the processor *)

(* So all that is known of a cache in the hands of one careful caller holds *)
(* of the one that the calls of processBlockNumber share.                   *)
THEOREM ProcessorCacheInvariant == Spec => []CP!CacheInv
<1>1. Init => CP!Init
  BY DEF Init, Cache!Init, CP!Init, Cache!NoWrites, CP!NoWrites, Cache!NotYet, CP!NotYet
<1>2. ProcInv /\ [Next]_vars => [CP!Next]_(CP!vars)
  BY StepIsCacheStep, CacheStepIsNext, SameNext
<1>3. CP!Init => CP!CacheInv
  BY CP!CacheInvInit, CPAssumption
<1>4. CP!CacheInv /\ [CP!Next]_(CP!vars) => CP!CacheInv'
  BY CP!CacheInvStep, CPAssumption
<1> QED
  BY <1>1, <1>2, <1>3, <1>4, ProcessorInvariant, PTL DEF Spec

-----------------------------------------------------------------------------
(* The lock *)

(* blockItemStoreLock is held from the call of addBlock to its return. *)
LockInv ==
    /\ lock \in Seq(Handler)
    /\ stage # "idle" => lock # <<>> /\ call[Head(lock)].pc = "adding"

(* What acquire and release do to the queue of the lock. *)
LEMMA HeadOfAppend ==
    ASSUME NEW S, NEW q \in Seq(S), NEW h \in S
    PROVE  /\ Append(q, h) \in Seq(S)
           /\ q # <<>> => Head(q) \in S /\ Head(Append(q, h)) = Head(q) /\ Tail(q) \in Seq(S)
OBVIOUS

(* A call moves on, and no other. *)
OnlyMoves(h) == \A g \in Handler : g # h => call'[g] = call[g]

LEMMA MovesOne ==
    ASSUME ProcInv, NEW h \in Handler, NEW n,
           \/ Return(h) \/ BeginBatch(h, n)
           \/ \E c : call' = [call EXCEPT ![h] = c]
    PROVE  OnlyMoves(h)
BY DEF Return, BeginBatch, OnlyMoves, ProcInv

(* Every step keeps the lock with the call whose addBlock is running. *)
LEMMA LockStep ==
    ASSUME ProcInv, LockInv, [Next]_vars
    PROVE  LockInv'
<1>1. ASSUME UNCHANGED <<stage, lock>>, 
             \A h \in Handler : call[h].pc = "adding" => call'[h] = call[h]
      PROVE  LockInv'
  BY <1>1, HeadOfAppend DEF LockInv
<1>2. ASSUME NEW h \in Handler, call[h].pc # "adding", OnlyMoves(h), UNCHANGED <<stage, lock>>
      PROVE  LockInv'
  BY <1>1, <1>2 DEF OnlyMoves
<1>3. ASSUME NEW h \in Handler, call[h].pc # "adding", OnlyMoves(h), stage' = stage,
             lock' = Append(lock, h)
      PROVE  LockInv'
  <2>1. lock' \in Seq(Handler)  BY <1>3, HeadOfAppend DEF LockInv
  <2>2. CASE stage = "idle"  BY <1>3, <2>1, <2>2 DEF LockInv
  <2>3. CASE stage # "idle"
    <3>1. lock # <<>> /\ call[Head(lock)].pc = "adding" /\ lock \in Seq(Handler)
      BY <2>3 DEF LockInv
    <3>2. Head(lock') = Head(lock) /\ Head(lock) \in Handler /\ lock' # <<>>
      BY <1>3, <3>1, HeadOfAppend
    <3>3. call'[Head(lock)] = call[Head(lock)]  BY <1>3, <3>1, <3>2 DEF OnlyMoves
    <3> QED  BY <2>1, <3>1, <3>2, <3>3 DEF LockInv
  <2> QED  BY <2>2, <2>3
<1>4. ASSUME NEW h \in Handler, Owns(h), stage' = "idle",
             lock' = Tail(lock) \/ lock' = Append(Tail(lock), h)
      PROVE  LockInv'
  <2>1. lock \in Seq(Handler) /\ lock # <<>>  BY <1>4 DEF Owns, LockInv
  <2>2. Tail(lock) \in Seq(Handler)  BY <2>1, HeadOfAppend
  <2>3. lock' \in Seq(Handler)  BY <1>4, <2>2, HeadOfAppend
  <2> QED  BY <1>4, <2>3 DEF LockInv
<1>5. (\E b \in Block : NewTip(b)) \/ Stop \/ UNCHANGED vars => LockInv'
  BY <1>1 DEF NewTip, Stop, vars, cacheState
<1>6. ASSUME NEW h \in Handler, Boot(h) \/ NewBlockEvent(h) PROVE LockInv'
  <2>1. call[h].pc = "free" /\ UNCHANGED <<stage, lock>>
    BY <1>6 DEF Boot, NewBlockEvent, cacheState
  <2>2. OnlyMoves(h)
    BY <1>6, MovesOne DEF Boot, NewBlockEvent
  <2> QED  BY <1>2, <2>1, <2>2
<1>7. ASSUME NEW h \in Handler, Answer(h) \/ FetchFails(h) \/ StoreHead(h) PROVE LockInv'
  <2>1. call[h].pc \in {"fetch", "parent", "store"} /\ UNCHANGED <<stage, lock>>
    BY <1>7 DEF Answer, FetchFails, StoreHead, cacheState
  <2>2. OnlyMoves(h)
    BY <1>7 DEF Answer, FetchFails, StoreHead, Return, OnlyMoves, ProcInv
  <2> QED  BY <1>2, <2>1, <2>2
<1>8. ASSUME NEW h \in Handler, Receive(h) \/ FetchParent(h) PROVE LockInv'
  <2>1. /\ call[h].pc \in {"answered", "parent"} /\ stage' = stage
        /\ lock' = Append(lock, h)
    BY <1>8 DEF Receive, FetchParent, cacheState
  <2>2. OnlyMoves(h)
    BY <1>8 DEF Receive, FetchParent, OnlyMoves, ProcInv
  <2> QED  BY <1>3, <2>1, <2>2
<1>9. ASSUME NEW h \in Handler, StartAdd(h) PROVE LockInv'
  <2>1. Owns(h) /\ lock' = lock /\ call' = [call EXCEPT ![h].pc = "adding"]
    BY <1>9 DEF StartAdd
  <2>2. call'[h].pc = "adding"  BY <2>1 DEF ProcInv, Calls
  <2> QED  BY <2>1, <2>2 DEF Owns, LockInv
<1>10. ASSUME NEW h \in Handler,
              AddFailed(h) \/ WalkToParent(h) \/ NextBatch(h) \/ NotTheHead(h)
       PROVE  LockInv'
  <2>1. Owns(h) /\ stage = "idle" /\ UNCHANGED stage
    BY <1>10 DEF AddFailed, WalkToParent, NextBatch, NotTheHead, Attached, Added, cacheState
  <2>2. lock' = Tail(lock) \/ lock' = Append(Tail(lock), h)
    BY <1>10 DEF AddFailed, WalkToParent, NextBatch, NotTheHead
  <2> QED  BY <1>4, <2>1, <2>2
<1>11. ASSUME NEW h \in Handler, BecomeHead(h) PROVE LockInv'
  <2>1. Owns(h) /\ stage = "idle" /\ UNCHANGED stage
    BY <1>11 DEF BecomeHead, Attached, Added, Cache!SetHead, Cache!callVars
  <2>2. lock' = Tail(lock) \/ lock' = Append(Tail(lock), h)
    BY <1>11 DEF BecomeHead
  <2> QED  BY <1>4, <2>1, <2>2
<1>12. ASSUME NEW h \in Handler, EmitNewHead(h) \/ NewHeadFails(h) PROVE LockInv'
  <2>1. /\ Owns(h) /\ call[h].pc = "head" /\ stage' = stage /\ lock' = Tail(lock)
    BY <1>12 DEF EmitNewHead, NewHeadFails, cacheState
  <2>2. stage = "idle"  BY <2>1 DEF Owns, LockInv
  <2> QED  BY <1>4, <2>1, <2>2
<1>13. CASE RunAdd
  <2>1. stage # "idle" /\ UNCHANGED <<call, lock>>
    BY <1>13 DEF RunAdd, Cache!Continue, Cache!EmitNewBlock, Cache!MarkDetached,
                 Cache!UpdateMaxHeightAndPrune, Cache!ScanLevel,
                 Cache!SettleAtMinHeight, Cache!WriteBatch
  <2> QED  BY <2>1 DEF LockInv
<1>14. CASE RejectAdd
  <2>1. stage' = "idle" /\ UNCHANGED lock
    BY <1>14 DEF RejectAdd, Cache!RejectBatch
  <2> QED  BY <2>1 DEF LockInv
<1>15. CASE Restart
  <2>1. stage' = "idle" /\ lock' = <<>>  BY <1>15 DEF Restart, Cache!Restart
  <2> QED  BY <2>1 DEF LockInv
<1> QED
  BY <1>5, <1>6, <1>7, <1>8, <1>9, <1>10, <1>11, <1>12, <1>13, <1>14, <1>15 DEF Next, Proceed

(* Whoever waits for its listeners with the lock has the cache to itself. *)
LEMMA OwnerAtHead ==
    ASSUME LockInv, NEW h \in Handler, Owns(h), call[h].pc = "head"
    PROVE  stage = "idle"
BY DEF LockInv, Owns

-----------------------------------------------------------------------------
(* Types *)

(* The fields that the other invariants do not speak of. *)
RestTyped ==
    /\ phase \in {"starting", "started", "stopped"}
    /\ lastBlockHashReceived \in Block \cup {NoBlock}
    /\ newHeads \subseteq Block
    /\ seen \subseteq Block
    /\ failures \in Nat
    /\ rejected \in BOOLEAN
    /\ overtaken \in BOOLEAN

(* They have their types when the tower starts, and keep them. *)
LEMMA RestInit == Init => RestTyped
<1>1. Init => rejected \in BOOLEAN /\ overtaken \in BOOLEAN  BY Zenon DEF Init
<1> QED  BY <1>1 DEF Init, RestTyped

LEMMA RestStep ==
    ASSUME CP!CacheInv, ProcInv, RestTyped, [Next]_vars
    PROVE  RestTyped'
<1>1. ASSUME phase' \in {phase, "starting", "started", "stopped"},
             lastBlockHashReceived' \in Block \cup {NoBlock},
             newHeads' \subseteq Block, seen' \subseteq Block, failures' \in Nat,
             UNCHANGED rejected, overtaken' \in BOOLEAN
      PROVE  RestTyped'
  BY <1>1 DEF RestTyped
<1>2. ASSUME NEW b \in Block, NewTip(b) PROVE RestTyped'
  BY <1>1, <1>2 DEF NewTip, history, RestTyped
<1>3. ASSUME NEW h \in Handler,
             \/ Answer(h) \/ FetchParent(h) \/ StartAdd(h) \/ WalkToParent(h) \/ BecomeHead(h)
      PROVE  RestTyped'
  BY <1>1, <1>3 DEF Answer, FetchParent, StartAdd, WalkToParent, BecomeHead, history, RestTyped
<1>4. ASSUME NEW h \in Handler, NEW n, BeginBatch(h, n) \/ Return(h)
      PROVE  phase' \in {phase, "started"}
  BY <1>4 DEF BeginBatch, Return
<1>5. ASSUME NEW h \in Handler,
             \/ Boot(h) \/ NewBlockEvent(h) \/ AddFailed(h) \/ NextBatch(h) \/ NotTheHead(h)
             \/ StoreHead(h)
      PROVE  RestTyped'
  <2>1. phase' \in {phase, "started"}
    BY <1>4, <1>5 DEF Boot, NewBlockEvent, AddFailed, NextBatch, NotTheHead, StoreHead
  <2>2. UNCHANGED <<lastBlockHashReceived, newHeads, seen, failures, rejected, overtaken>>
    BY <1>5 DEF Boot, NewBlockEvent, AddFailed, NextBatch, NotTheHead, StoreHead, history
  <2> QED  BY <1>1, <2>1, <2>2 DEF RestTyped
<1>6. ASSUME NEW h \in Handler, FetchFails(h) \/ NewHeadFails(h) PROVE RestTyped'
  <2>1. phase' \in {phase, "started"}
    BY <1>4, <1>6 DEF FetchFails, NewHeadFails
  <2>2. /\ failures' = failures + 1
        /\ UNCHANGED <<lastBlockHashReceived, newHeads, seen, rejected, overtaken>>
    BY <1>6 DEF FetchFails, NewHeadFails
  <2> QED  BY <1>1, <2>1, <2>2 DEF RestTyped
<1>7. ASSUME NEW h \in Handler, Receive(h) \/ EmitNewHead(h) PROVE RestTyped'
  <2>1. call[h].observed \in Block
    BY <1>7 DEF Receive, EmitNewHead, ProcInv, CallHasBlocks
  <2>2. /\ lastBlockHashReceived' \in {lastBlockHashReceived, call[h].observed}
        /\ newHeads' \subseteq newHeads \cup {call[h].observed}
        /\ UNCHANGED <<phase, seen, failures, rejected>>
    BY <1>7 DEF Receive, NoteOvertaking, EmitNewHead
  <2>3. overtaken' \in BOOLEAN
    BY <1>7, Zenon DEF Receive, NoteOvertaking, EmitNewHead, RestTyped
  <2> QED  BY <1>1, <2>1, <2>2, <2>3 DEF RestTyped
<1>8. CASE RunAdd
  <2>1. stage = "emit" => emitting \in Block
    BY DEF CP!CacheInv, CP!IndInv, CP!TypeOK
  <2>2. /\ seen' = IF stage = "emit" THEN seen \cup {emitting} ELSE seen
        /\ UNCHANGED <<phase, lastBlockHashReceived, newHeads, failures, rejected, overtaken>>
    BY <1>8 DEF RunAdd
  <2> QED  BY <1>1, <2>1, <2>2 DEF RestTyped
<1>9. CASE RejectAdd
  <2>1. /\ rejected' = TRUE
        /\ UNCHANGED <<phase, lastBlockHashReceived, newHeads, seen, failures, overtaken>>
    BY <1>9 DEF RejectAdd
  <2>2. rejected' \in BOOLEAN  BY <2>1, Zenon
  <2> QED  BY <2>1, <2>2 DEF RestTyped
<1>10. CASE Stop \/ Restart
  BY <1>1, <1>10 DEF Stop, Restart, history, RestTyped
<1>11. CASE UNCHANGED vars
  BY <1>1, <1>11 DEF vars, history, RestTyped
<1> QED
  BY <1>2, <1>3, <1>5, <1>6, <1>7, <1>8, <1>9, <1>10, <1>11 DEF Next, Proceed

-----------------------------------------------------------------------------
(* What was announced *)

(* Every "new block" event of this run of the process was delivered. *)
DeliveredInv == rejections = 0 => \A b \in Block : emitted[b] # 0 => b \in seen

(* The block a call is about to announce as the head was attached. *)
HeadsWereAttached ==
    loaded = {} =>
        \A h \in Handler : call[h].pc = "head" => call[h].observed \in CP!Ever

(* An event is delivered when it is emitted, or its batch is rejected. *)
LEMMA DeliveredStep ==
    ASSUME CP!CacheInv, ProcInv, DeliveredInv, [Next]_vars
    PROVE  DeliveredInv'
<1>1. CP!TypeOK  BY DEF CP!CacheInv, CP!IndInv
<1>2. ASSUME UNCHANGED <<emitted, rejections>>, seen \subseteq seen' PROVE DeliveredInv'
  BY <1>2 DEF DeliveredInv
<1>3. ASSUME NEW h \in Handler, Proceed(h) PROVE DeliveredInv'
  <2>1. UNCHANGED seen
    BY <1>3 DEF Proceed, Answer, Receive, FetchParent, StartAdd, AddFailed, WalkToParent,
       NextBatch, NotTheHead, BecomeHead, EmitNewHead, StoreHead, history, NoteOvertaking
  <2>2. UNCHANGED <<emitted, rejections>>
    BY <1>3 DEF Proceed, Answer, Receive, FetchParent, StartAdd, AddFailed, WalkToParent,
       NextBatch, NotTheHead, BecomeHead, EmitNewHead, StoreHead, cacheState, Cache!AddBlock,
       Cache!AddBlockRefused, Cache!AddBlockAttached, Cache!AddBlockDetached, Cache!SetHead,
       Cache!histVars
  <2> QED  BY <1>2, <2>1, <2>2
<1>4. ASSUME NEW h \in Handler, Boot(h) \/ NewBlockEvent(h) \/ FetchFails(h) \/ NewHeadFails(h)
      PROVE  DeliveredInv'
  BY <1>2, <1>4 DEF Boot, NewBlockEvent, FetchFails, NewHeadFails, history, cacheState
<1>5. CASE (\E b \in Block : NewTip(b)) \/ Stop \/ UNCHANGED vars
  BY <1>2, <1>5 DEF NewTip, Stop, vars, history, cacheState
<1>6. CASE RunAdd
  <2>1. CASE Cache!EmitNewBlock
    <3>1. /\ stage = "emit" /\ emitted' = [emitted EXCEPT ![emitting] = @ + 1]
          /\ UNCHANGED rejections /\ seen' = seen \cup {emitting}
      BY <1>6, <2>1 DEF RunAdd, Cache!EmitNewBlock, Cache!histVars
    <3>2. \A b \in Block : b # emitting => emitted'[b] = emitted[b]
      BY <1>1, <3>1 DEF CP!TypeOK
    <3> QED  BY <3>1, <3>2 DEF DeliveredInv
  <2>2. CASE ~Cache!EmitNewBlock
    <3>1. UNCHANGED <<emitted, rejections>>
      BY <1>6, <2>2 DEF RunAdd, Cache!Continue, Cache!MarkDetached,
         Cache!UpdateMaxHeightAndPrune, Cache!ScanLevel, Cache!SettleAtMinHeight,
         Cache!WriteBatch, Cache!histVars
    <3>2. seen \subseteq seen'  BY <1>6 DEF RunAdd
    <3> QED  BY <1>2, <3>1, <3>2
  <2> QED  BY <2>1, <2>2
<1>7. CASE RejectAdd
  <2>1. rejections' = rejections + 1 /\ rejections \in Nat
    BY <1>1, <1>7 DEF RejectAdd, Cache!RejectBatch, CP!TypeOK
  <2>2. rejections' # 0  BY <2>1
  <2> QED  BY <2>2 DEF DeliveredInv
<1>8. CASE Restart
  BY <1>8 DEF Restart, Cache!Restart, DeliveredInv
<1> QED
  BY <1>3, <1>4, <1>5, <1>6, <1>7, <1>8 DEF Next

-----------------------------------------------------------------------------
(* A batch begins, or a call ends: it announces nothing. *)
LEMMA BatchBegins ==
    ASSUME ProcInv, NEW h \in Handler, NEW n, BeginBatch(h, n) \/ Return(h)
    PROVE  call'[h].pc \in {"free", "fetch"}
<1>1. PICK c : call' = [call EXCEPT ![h] = c] /\ c.pc \in {"free", "fetch"}
  <2>1. \A m : LET c == [Free EXCEPT !.pc = "fetch", !.target = n, !.processing = m]
               IN  c.pc = "fetch"
    BY DEF Free
  <2>2. Free.pc = "free"  BY DEF Free
  <2>3. CASE isEmpty  BY <2>1, <2>2, <2>3 DEF BeginBatch, Return
  <2>4. CASE ~isEmpty /\ (headHash = NoBlock \/ item[headHash] = "absent")
    BY <2>2, <2>4 DEF BeginBatch, Return
  <2>5. CASE ~isEmpty /\ ~(headHash = NoBlock \/ item[headHash] = "absent")
    <3> DEFINE reach == Number[headHash] + MaxDepth
               m == IF n <= reach THEN n ELSE reach
    <3>1. call' = [call EXCEPT ![h] = [Free EXCEPT !.pc = "fetch", !.target = n,
                                                  !.processing = m]]
          \/ Return(h)
      BY <2>5 DEF BeginBatch
    <3> HIDE DEF m
    <3> QED  BY <2>1, <2>2, <3>1 DEF Return
  <2> QED  BY <2>3, <2>4, <2>5
<1> QED  BY <1>1 DEF ProcInv

(* The calls that announce a block, or store its number, made it the head. *)
LEMMA WhoAnnounces ==
    ASSUME ProcInv, [Next]_vars, NEW h \in Handler, call'[h].pc \in {"head", "store"}
    PROVE  \/ call[h].pc \in {"head", call'[h].pc} /\ call'[h].observed = call[h].observed
           \/ BecomeHead(h)
<1> DEFINE Goal == \/ /\ call[h].pc \in {"head", call'[h].pc}
                      /\ call'[h].observed = call[h].observed
                   \/ BecomeHead(h)
<1>1. ASSUME UNCHANGED call PROVE Goal  BY <1>1
<1>2. ASSUME NEW g \in Handler, OnlyMoves(g), call'[g].pc \notin {"head", "store"} PROVE Goal
  BY <1>2 DEF OnlyMoves
<1>3. ASSUME NEW g \in Handler,
             \/ Boot(g) \/ NewBlockEvent(g) \/ NextBatch(g) \/ AddFailed(g) \/ NotTheHead(g)
             \/ StoreHead(g) \/ FetchFails(g) \/ NewHeadFails(g)
      PROVE  Goal
  <2>1. PICK n : BeginBatch(g, n) \/ Return(g)
    BY <1>3 DEF Boot, NewBlockEvent, NextBatch, AddFailed, NotTheHead, StoreHead, FetchFails,
                NewHeadFails
  <2>2. OnlyMoves(g)  BY <2>1, MovesOne
  <2>3. call'[g].pc \notin {"head", "store"}  BY <2>1, BatchBegins
  <2> QED  BY <1>2, <2>2, <2>3
<1>4. ASSUME NEW g \in Handler,
             \/ Answer(g) \/ Receive(g) \/ FetchParent(g) \/ StartAdd(g) \/ WalkToParent(g)
      PROVE  Goal
  <2> DEFINE Quiet == call'[g].pc \notin {"head", "store"}
  <2>0. call[g] \in Calls /\ g \in DOMAIN call  BY DEF ProcInv
  <2>1. Quiet
    <3>1. Answer(g) => Quiet  BY <2>0 DEF Answer, Calls
    <3>2. Receive(g) => Quiet  BY <2>0 DEF Receive, Calls
    <3>3. FetchParent(g) => Quiet  BY <2>0 DEF FetchParent, Calls
    <3>4. StartAdd(g) => Quiet  BY <2>0 DEF StartAdd, Calls
    <3>5. WalkToParent(g) => Quiet
      <4> SUFFICES ASSUME WalkToParent(g) PROVE Quiet
        OBVIOUS
      <4> DEFINE p == Parent[call[g].cur]
      <4>1. PICK q \in {"lock", "parent"} :
               call' = [call EXCEPT ![g].cur = p, ![g].pc = q]
        BY DEF WalkToParent
      <4> DEFINE c == [call[g] EXCEPT !.cur = p, !.pc = q]
      <4>2. call' = [call EXCEPT ![g] = c]
        BY <2>0, <4>1 DEF Calls
      <4>3. c.pc = q
        BY <2>0 DEF Calls
      <4> HIDE DEF c
      <4> QED
        BY <2>0, <4>2, <4>3
    <3> QED  BY <1>4, <3>1, <3>2, <3>3, <3>4, <3>5
  <2>2. OnlyMoves(g)
    BY <1>4 DEF Answer, Receive, FetchParent, StartAdd, WalkToParent, OnlyMoves, ProcInv
  <2> QED  BY <1>2, <2>1, <2>2
<1>5. ASSUME NEW g \in Handler, BecomeHead(g) \/ EmitNewHead(g) PROVE Goal
  <2>1. OnlyMoves(g)  BY <1>5 DEF BecomeHead, EmitNewHead, OnlyMoves, ProcInv
  <2>2. CASE g # h
    <3>1. call'[h] = call[h]  BY <2>1, <2>2 DEF OnlyMoves
    <3> QED  BY <3>1
  <2>3. CASE EmitNewHead(h)
    BY <2>3 DEF EmitNewHead, ProcInv, Calls
  <2> QED  BY <1>5, <2>2, <2>3
<1>6. CASE Restart
  BY <1>6 DEF Restart, Free
<1>7. ASSUME (\E b \in Block : NewTip(b)) \/ RunAdd \/ RejectAdd \/ Stop \/ UNCHANGED vars
      PROVE  Goal
  BY <1>1, <1>7 DEF NewTip, RunAdd, RejectAdd, Stop, vars
<1> QED
  BY <1>3, <1>4, <1>5, <1>6, <1>7 DEF Next, Proceed

(* Unless the process ends the cache is not restarted. *)
LEMMA NoRestart ==
    ASSUME CP!CacheInv, ProcInv, [Next]_vars, ~Restart
    PROVE  loaded' = loaded /\ ~CP!Restart
<1>1. restarts \in Nat  BY DEF CP!CacheInv, CP!IndInv, CP!TypeOK
<1>2. CacheCall \/ Cache!RejectBatch  BY StepOfCache DEF RejectAdd
<1>3. UNCHANGED <<loaded, restarts>>  BY <1>2, CallLeaves DEF Cache!RejectBatch
<1> QED  BY <1>1, <1>3 DEF CP!Restart

(* A call becomes one that announces with an attached block in its hands,   *)
(* and what was attached once stays so known until the process ends.        *)
LEMMA HeadsWereAttachedStep ==
    ASSUME CP!CacheInv, CP!CacheInv', ProcInv, HeadsWereAttached, [Next]_vars
    PROVE  HeadsWereAttached'
<1>1. CASE Restart
  <2>1. \A h \in Handler : call'[h].pc = "free"  BY <1>1 DEF Restart, Free
  <2> QED  BY <2>1 DEF HeadsWereAttached
<1>2. CASE ~Restart
  <2> SUFFICES ASSUME loaded' = {}, NEW h \in Handler, call'[h].pc = "head"
               PROVE  call'[h].observed \in CP!Ever'
    BY DEF HeadsWereAttached
  <2>1. loaded = {} /\ ~CP!Restart  BY <1>2, NoRestart
  <2>2. [CP!Next]_(CP!vars)  BY StepIsCacheStep, CacheStepIsNext, SameNext
  <2>3. CP!Ever \subseteq CP!Ever'
    BY <2>1, <2>2, CP!EverKept, CPAssumption DEF CP!CacheInv
  <2>4. CASE call[h].pc = "head" /\ call'[h].observed = call[h].observed
    BY <2>1, <2>3, <2>4 DEF HeadsWereAttached
  <2>5. CASE BecomeHead(h)
    <3>1. call[h].observed \in Block /\ item[call[h].observed] = "attached"
      BY <2>5 DEF BecomeHead, Attached, Added, ProcInv, CallHasBlocks, Cache!SetHead,
                  Cache!HasBlock, Cache!Attached
    <3>2. call'[h].observed = call[h].observed
      BY <2>5 DEF BecomeHead, ProcInv, Calls
    <3>3. call[h].observed \in CP!Ever
      BY <2>1, <3>1 DEF CP!CacheInv, CP!IndInv, CP!AttachedAnnounced, CP!Attached, CP!Ever
    <3> QED  BY <2>3, <3>2, <3>3
  <2> QED  BY <2>4, <2>5, WhoAnnounces
<1> QED  BY <1>1, <1>2

-----------------------------------------------------------------------------
(* The stored head *)

(* Until a batch is rejected, the height of every new head is covered by an *)
(* attached block, in memory and on disk, from setHead on and for ever.     *)
StoredInv ==
    ~rejected =>
        /\ rejections = 0
        /\ storedHead # NotYet => CP!Covered(storedHead)
        /\ \A h \in Handler :
               call[h].pc \in {"head", "store"} => CP!Covered(Number[call[h].observed])

(* Every step keeps those heights covered. *)
LEMMA StoredStep ==
    ASSUME CP!CacheInv, ProcInv, StoredInv, RestTyped, [Next]_vars
    PROVE  StoredInv'
<1> SUFFICES ASSUME ~rejected'
             PROVE  /\ rejections' = 0
                    /\ storedHead' # NotYet => CP!Covered(storedHead)'
                    /\ \A h \in Handler :
                           call'[h].pc \in {"head", "store"} =>
                               CP!Covered(Number[call[h].observed])'
  BY DEF StoredInv
<1> USE CacheAssumption DEF Cache!ChainAssumption, Cache!BoundAssumption
<1>1. ~rejected
  BY DEF Next, Proceed, NewTip, Boot, NewBlockEvent, Answer, Receive, FetchParent, StartAdd,
     AddFailed, WalkToParent, NextBatch, NotTheHead, BecomeHead, EmitNewHead, StoreHead,
     FetchFails, NewHeadFails, RunAdd, RejectAdd, Stop, Restart, history, vars,
     NoteOvertaking
<1>2. CacheCall \/ Restart  BY StepOfCache DEF RejectAdd
<1>3. rejections = 0  BY <1>1 DEF StoredInv
<1>4. rejections' = 0  BY <1>2, <1>3, CallLeaves DEF Restart, Cache!Restart
<1>5. ~CP!RejectBatch  BY <1>3, <1>4 DEF CP!RejectBatch
<1>6. [CP!Next]_(CP!vars)  BY StepIsCacheStep, CacheStepIsNext, SameNext
<1>7. ASSUME NEW n \in Nat, CP!Covered(n) PROVE CP!Covered(n)'
  BY <1>3, <1>5, <1>6, <1>7, CP!CoveredStep, CPAssumption DEF CP!CacheInv
<1>8. ASSUME storedHead' # NotYet PROVE CP!Covered(storedHead)'
  <2>1. CASE storedHead' = storedHead
    <3>1. storedHead \in Nat
      BY <1>8, <2>1 DEF ProcInv, Heights, Numbers
    <3>2. CP!Covered(storedHead)  BY <1>1, <1>8, <2>1 DEF StoredInv
    <3> DEFINE n == storedHead
    <3> QED  BY <1>7, <2>1, <3>1, <3>2 DEF CP!Covered, CP!Covers
  <2>2. CASE storedHead' # storedHead
    <3>1. PICK h \in Handler : StoreHead(h)
      BY <2>2 DEF Next, Proceed, NewTip, Boot, NewBlockEvent, Answer, Receive, FetchParent,
         StartAdd, AddFailed, WalkToParent, NextBatch, NotTheHead, BecomeHead, EmitNewHead,
         FetchFails, NewHeadFails, RunAdd, RejectAdd, Stop, Restart, vars
    <3>2. storedHead' = Number[call[h].observed] /\ call[h].observed \in Block
          /\ call[h].pc = "store"
      BY <3>1 DEF StoreHead, ProcInv, CallHasBlocks
    <3>3. CP!Covered(Number[call[h].observed])  BY <1>1, <3>2 DEF StoredInv
    <3> QED  BY <1>7, <3>2, <3>3 DEF CP!Covered, CP!Covers
  <2> QED  BY <2>1, <2>2
<1>9. ASSUME NEW h \in Handler, call'[h].pc \in {"head", "store"}
      PROVE  CP!Covered(Number[call[h].observed])'
  <2>1. CP!Covered(Number[call[h].observed]) /\ call[h].observed \in Block
        /\ call'[h].observed = call[h].observed
    <3>1. CASE call[h].pc \in {"head", "store"} /\ call'[h].observed = call[h].observed
      BY <1>1, <3>1 DEF StoredInv, ProcInv, CallHasBlocks
    <3>2. CASE BecomeHead(h)
      <4>1. call[h].observed \in Block /\ CP!HasBlock(call[h].observed) /\ stage = "idle"
        BY <3>2 DEF BecomeHead, Attached, Added, ProcInv, CallHasBlocks, Cache!SetHead,
                    Cache!HasBlock, Cache!Attached, CP!HasBlock, CP!Attached
      <4>2. call'[h].observed = call[h].observed
        BY <3>2 DEF BecomeHead, ProcInv, Calls
      <4> QED
        BY <1>3, <4>1, <4>2, CP!AttachedIsCovered, CPAssumption DEF CP!CacheInv
    <3> QED  BY <1>9, <3>1, <3>2, WhoAnnounces
  <2>2. Number[call[h].observed] \in Nat  BY <2>1
  <2> QED  BY <1>7, <2>1, <2>2 DEF CP!Covered, CP!Covers
<1> QED  BY <1>4, <1>8, <1>9

-----------------------------------------------------------------------------
(* The ancestors of a block, on the chain *)

(* The recursive definition of Chain has a solution, so it is one. *)
LEMMA ChainDef ==
    ASSUME NEW b \in Block
    PROVE  Chain[b] = {b} \cup (IF Parent[b] \in Block THEN Chain[Parent[b]] ELSE {})
<1> DEFINE G == [x \in Block |-> CP!Reached(x, Block)]
<1>1. \A x \in Block :
         CP!Reached(x, Block) =
             {x} \cup (IF Parent[x] \in Block THEN CP!Reached(Parent[x], Block) ELSE {})
  BY CP!ReachedDef, CPAssumption
<1>2. G = [x \in Block |-> {x} \cup (IF Parent[x] \in Block THEN G[Parent[x]] ELSE {})]
  <2>1. \A x \in Block : G[x] = CP!Reached(x, Block)  OBVIOUS
  <2> HIDE DEF G
  <2>2. \A x \in Block : G[x] = {x} \cup (IF Parent[x] \in Block THEN G[Parent[x]] ELSE {})
    BY <1>1, <2>1
  <2>3. G = [x \in Block |-> G[x]]  BY DEF G
  <2> QED  BY <2>2, <2>3, Zenon
<1>3. \E g : g = [x \in Block |-> {x} \cup (IF Parent[x] \in Block THEN g[Parent[x]] ELSE {})]
  BY <1>2
<1>4. Chain = [x \in Block |-> {x} \cup (IF Parent[x] \in Block THEN Chain[Parent[x]] ELSE {})]
  BY <1>3, Zenon DEF Chain
<1> QED  BY <1>4

(* No block is below its own ancestors. *)
LEMMA ChainBelow ==
    ASSUME NEW b \in Block, NEW a \in Chain[b]
    PROVE  a \in Block /\ Number[a] <= Number[b]
<1> USE CacheAssumption DEF Cache!ChainAssumption
<1> DEFINE Good(x) == \A y \in Chain[x] : y \in Block /\ Number[y] <= Number[x]
           T == {x \in Block : ~Good(x)}
<1>1. CASE T # {}
  <2> HIDE DEF T
  <2>1. T \in SUBSET Block  BY DEF T
  <2>2. PICK x \in T : Parent[x] \notin T  BY <1>1, <2>1, CP!LowestBlock, CPAssumption
  <2>3. x \in Block /\ ~Good(x)  BY <2>2 DEF T
  <2>4. CASE Parent[x] \in Block
    <3>1. Good(Parent[x])  BY <2>2, <2>4 DEF T
    <3>2. Chain[x] = {x} \cup Chain[Parent[x]]  BY <2>3, <2>4, ChainDef
    <3>3. Number[x] = Number[Parent[x]] + 1 /\ Number[Parent[x]] \in Nat  BY <2>3, <2>4
    <3>4. ASSUME NEW y \in Chain[x] PROVE y \in Block /\ Number[y] <= Number[x]
      BY <2>3, <3>1, <3>2, <3>3, <3>4
    <3> QED  BY <2>3, <3>4
  <2>5. CASE Parent[x] \notin Block
    BY <2>3, <2>5, ChainDef
  <2> QED  BY <2>4, <2>5
<1>2. CASE T = {}
  <2>1. Good(b)  BY <1>2
  <2> QED  BY <2>1
<1> QED  BY <1>1, <1>2

(* A set of blocks that has the parents of its members, down to a height,   *)
(* has their ancestors, down to that height.                                *)
LEMMA ChainWithin ==
    ASSUME NEW S \in SUBSET Block, NEW m \in Int, NEW o \in S,
           \A b \in S : Parent[b] \in S \/ Number[b] <= m,
           NEW a \in Chain[o], Number[a] >= m
    PROVE  a \in S
<1> USE CacheAssumption DEF Cache!ChainAssumption
<1> DEFINE Good(x) == \A y \in Chain[x] : Number[y] >= m => y \in S
           T == {x \in S : ~Good(x)}
<1>1. CASE T # {}
  <2> HIDE DEF T
  <2>1. T \in SUBSET Block  BY DEF T
  <2>2. PICK x \in T : Parent[x] \notin T  BY <1>1, <2>1, CP!LowestBlock, CPAssumption
  <2>3. x \in S /\ x \in Block  BY <2>2 DEF T
  <2>4. PICK y \in Chain[x] : Number[y] >= m /\ y \notin S  BY <2>2 DEF T
  <2>5. Parent[x] \in Block /\ y \in Chain[Parent[x]]
    BY <2>3, <2>4, ChainDef
  <2>6. y \in Block /\ Number[y] <= Number[Parent[x]]  BY <2>5, ChainBelow
  <2>7. Number[x] = Number[Parent[x]] + 1  BY <2>3, <2>5
  <2>8. Number[y] \in Nat /\ Number[Parent[x]] \in Nat  BY <2>5, <2>6
  <2>9. ~ (Number[x] <= m)  BY <2>4, <2>6, <2>7, <2>8
  <2>10. Parent[x] \in S  BY <2>3, <2>9
  <2>11. Good(Parent[x])  BY <2>2, <2>10 DEF T
  <2> QED  BY <2>4, <2>5, <2>11
<1>2. CASE T = {}
  <2>1. Good(o)  BY <1>2
  <2> QED  BY <2>1
<1> QED  BY <1>1, <1>2

-----------------------------------------------------------------------------
(* The queue of the lock *)

Within(q, h) == \E i \in 1 .. Len(q) : q[i] = h
Distinct(q)  == \A i, j \in 1 .. Len(q) : q[i] = q[j] => i = j

(* Whoever uses the lock is in its queue, once, and only the owner adds. *)
QueueInv ==
    /\ Distinct(lock)
    /\ \A h \in Handler : UsesLock(h) <=> Within(lock, h)
    /\ \A h \in Handler : call[h].pc = "adding" => Owns(h)

(* A call that was not in the queue joins its end. *)
LEMMA Joins ==
    ASSUME NEW S, NEW q \in Seq(S), NEW h \in S, Distinct(q), ~Within(q, h)
    PROVE  /\ Distinct(Append(q, h))
           /\ \A g \in S : Within(Append(q, h), g) <=> Within(q, g) \/ g = h
<1> DEFINE r == Append(q, h)
<1>1. /\ Len(q) \in Nat /\ Len(r) = Len(q) + 1
      /\ \A i \in 1 .. Len(q) : r[i] = q[i]
      /\ r[Len(q) + 1] = h
  OBVIOUS
<1> HIDE DEF r
<1>2. Distinct(r)  BY <1>1 DEF Distinct, Within
<1>3. ASSUME NEW g \in S PROVE Within(r, g) <=> Within(q, g) \/ g = h
  BY <1>1 DEF Within
<1> QED  BY <1>2, <1>3 DEF r

(* Its owner leaves the queue to the others. *)
LEMMA Leaves ==
    ASSUME NEW S, NEW q \in Seq(S), q # <<>>, Distinct(q)
    PROVE  /\ Tail(q) \in Seq(S) /\ Distinct(Tail(q))
           /\ \A g \in S : Within(Tail(q), g) <=> Within(q, g) /\ g # Head(q)
<1> DEFINE r == Tail(q)
<1>1. /\ Len(q) \in Nat \ {0} /\ r \in Seq(S) /\ Len(r) = Len(q) - 1
      /\ \A i \in 1 .. Len(r) : r[i] = q[i + 1]
      /\ Head(q) = q[1]
  OBVIOUS
<1> HIDE DEF r
<1>2. Distinct(r)
  <2>1. ASSUME NEW i \in 1 .. Len(r), NEW j \in 1 .. Len(r), r[i] = r[j] PROVE i = j
    <3>1. i + 1 \in 1 .. Len(q) /\ j + 1 \in 1 .. Len(q)  BY <1>1
    <3>2. q[i + 1] = q[j + 1]  BY <1>1, <2>1
    <3>3. i + 1 = j + 1  BY <3>1, <3>2 DEF Distinct
    <3> QED  BY <3>3
  <2> QED  BY <2>1 DEF Distinct
<1>3. ASSUME NEW g \in S PROVE Within(r, g) <=> Within(q, g) /\ g # Head(q)
  <2>1. ASSUME NEW i \in 1 .. Len(r), r[i] = g PROVE Within(q, g) /\ g # Head(q)
    <3>1. i + 1 \in 1 .. Len(q) /\ i + 1 # 1 /\ 1 \in 1 .. Len(q)  BY <1>1
    <3>2. q[i + 1] = g  BY <1>1, <2>1
    <3> QED  BY <1>1, <3>1, <3>2 DEF Within, Distinct
  <2>2. ASSUME NEW i \in 1 .. Len(q), q[i] = g, g # Head(q) PROVE Within(r, g)
    <3>1. i - 1 \in 1 .. Len(r) /\ (i - 1) + 1 = i  BY <1>1, <2>2
    <3>2. r[i - 1] = g  BY <1>1, <2>2, <3>1
    <3> QED  BY <3>1, <3>2 DEF Within
  <2> QED  BY <2>1, <2>2 DEF Within
<1> QED  BY <1>1, <1>2, <1>3 DEF r

(* Every step keeps the queue, on each of the ways out of a batch too. *)
LEMMA QueueStep ==
    ASSUME ProcInv, LockInv, QueueInv, [Next]_vars
    PROVE  QueueInv'
<1>0. lock \in Seq(Handler)  BY DEF LockInv
<1>1. ASSUME NEW h \in Handler, OnlyMoves(h), lock' = lock,
             UsesLock(h)' <=> UsesLock(h), call'[h].pc = "adding" => Owns(h)
      PROVE  QueueInv'
  BY <1>1 DEF QueueInv, OnlyMoves, UsesLock, Owns
<1>2. ASSUME UNCHANGED <<call, lock>> PROVE QueueInv'
  BY <1>2 DEF QueueInv, UsesLock, Owns
<1>3. ASSUME NEW h \in Handler, OnlyMoves(h), ~UsesLock(h), call'[h].pc = "lock",
             lock' = Append(lock, h)
      PROVE  QueueInv'
  <2>1. ~Within(lock, h)  BY <1>3 DEF QueueInv
  <2>2. /\ Distinct(lock')
        /\ \A g \in Handler : Within(lock', g) <=> Within(lock, g) \/ g = h
    BY <1>0, <1>3, <2>1, Joins DEF QueueInv
  <2>3. \A g \in Handler : UsesLock(g)' <=> UsesLock(g) \/ g = h
    BY <1>3 DEF OnlyMoves, UsesLock
  <2>4. ASSUME NEW g \in Handler, call'[g].pc = "adding" PROVE Owns(g)'
    <3>1. g # h /\ call[g].pc = "adding"  BY <1>3, <2>4 DEF OnlyMoves
    <3>2. lock # <<>> /\ Head(lock) = g  BY <3>1 DEF QueueInv, Owns
    <3>3. lock' # <<>> /\ Head(lock') = Head(lock)  BY <1>0, <1>3, <3>2, HeadOfAppend
    <3> QED  BY <3>2, <3>3 DEF Owns
  <2>5. \A g \in Handler : UsesLock(g)' <=> Within(lock', g)  BY <2>2, <2>3 DEF QueueInv
  <2> QED  BY <2>2, <2>4, <2>5 DEF QueueInv
<1>4. ASSUME NEW h \in Handler, Owns(h), OnlyMoves(h), call'[h].pc # "adding",
             \/ lock' = Tail(lock) /\ ~UsesLock(h)'
             \/ lock' = Append(Tail(lock), h) /\ UsesLock(h)'
      PROVE  QueueInv'
  <2>1. lock # <<>> /\ Head(lock) = h  BY <1>4 DEF Owns
  <2> DEFINE rest == Tail(lock)
  <2>2. /\ rest \in Seq(Handler) /\ Distinct(rest)
        /\ \A g \in Handler : Within(rest, g) <=> Within(lock, g) /\ g # h
    BY <1>0, <2>1, Leaves DEF QueueInv
  <2> HIDE DEF rest
  <2>3. \A g \in Handler : g # h => (UsesLock(g)' <=> UsesLock(g))
    BY <1>4 DEF OnlyMoves, UsesLock
  <2>4. \A g \in Handler : call'[g].pc # "adding"
    BY <1>4, <2>1 DEF QueueInv, Owns, OnlyMoves
  <2>5. CASE lock' = rest /\ ~UsesLock(h)'
    <3>1. \A g \in Handler : UsesLock(g)' <=> Within(lock', g)
      BY <2>2, <2>3, <2>5 DEF QueueInv
    <3> QED  BY <2>2, <2>4, <2>5, <3>1 DEF QueueInv
  <2>6. CASE lock' = Append(rest, h) /\ UsesLock(h)'
    <3>1. /\ Distinct(lock')
          /\ \A g \in Handler : Within(lock', g) <=> Within(rest, g) \/ g = h
      BY <2>2, <2>6, Joins
    <3>2. \A g \in Handler : UsesLock(g)' <=> Within(lock', g)
      BY <2>2, <2>3, <2>6, <3>1 DEF QueueInv
    <3> QED  BY <2>4, <3>1, <3>2 DEF QueueInv
  <2> QED  BY <1>4, <2>5, <2>6 DEF rest
<1>5. ASSUME NEW h \in Handler, NEW n, Return(h) \/ BeginBatch(h, n)
      PROVE  OnlyMoves(h) /\ call'[h].pc # "adding" /\ ~UsesLock(h)'
  BY <1>5, MovesOne, BatchBegins DEF UsesLock
<1>6. ASSUME NEW h \in Handler,
             \/ Boot(h) \/ NewBlockEvent(h) \/ Answer(h) \/ FetchFails(h) \/ StoreHead(h)
      PROVE  QueueInv'
  <2>1. ~UsesLock(h) /\ lock' = lock
    BY <1>6 DEF Boot, NewBlockEvent, Answer, FetchFails, StoreHead, UsesLock, ProcInv, Calls
  <2>2. CASE Answer(h)
    <3>1. OnlyMoves(h) /\ call'[h].pc = "answered"
      BY <2>2 DEF Answer, OnlyMoves, ProcInv, Calls
    <3>2. ~UsesLock(h)'  BY <3>1 DEF UsesLock
    <3> QED  BY <1>1, <2>1, <3>1, <3>2
  <2>3. CASE ~Answer(h)
    <3>1. \E n : Return(h) \/ BeginBatch(h, n)
      BY <1>6, <2>3 DEF Boot, NewBlockEvent, FetchFails, StoreHead
    <3>2. OnlyMoves(h) /\ call'[h].pc # "adding" /\ ~UsesLock(h)'  BY <1>5, <3>1
    <3> QED  BY <1>1, <2>1, <3>2
  <2> QED  BY <2>2, <2>3
<1>7. ASSUME NEW h \in Handler, Receive(h) \/ FetchParent(h) PROVE QueueInv'
  <2>1. /\ call[h].pc \in {"answered", "parent"} /\ lock' = Append(lock, h)
        /\ OnlyMoves(h) /\ call'[h].pc = "lock"
    BY <1>7 DEF Receive, FetchParent, OnlyMoves, ProcInv, Calls
  <2>2. ~UsesLock(h)  BY <2>1 DEF UsesLock
  <2> QED  BY <1>3, <2>1, <2>2
<1>8. ASSUME NEW h \in Handler, StartAdd(h) PROVE QueueInv'
  <2>1. /\ Owns(h) /\ lock' = lock /\ call[h].pc = "lock" /\ call'[h].pc = "adding"
        /\ OnlyMoves(h)
    BY <1>8 DEF StartAdd, OnlyMoves, ProcInv, Calls
  <2>2. UsesLock(h)' <=> UsesLock(h)  BY <2>1 DEF UsesLock
  <2> QED  BY <1>1, <2>1, <2>2
<1>9. ASSUME NEW h \in Handler,
             \/ AddFailed(h) \/ NextBatch(h) \/ NotTheHead(h) \/ NewHeadFails(h)
      PROVE  QueueInv'
  <2>1. Owns(h) /\ lock' = Tail(lock) /\ \E n : Return(h) \/ BeginBatch(h, n)
    BY <1>9 DEF AddFailed, NextBatch, NotTheHead, NewHeadFails, Attached, Added
  <2> QED  BY <1>4, <1>5, <2>1
<1>10. ASSUME NEW h \in Handler, WalkToParent(h) \/ BecomeHead(h) \/ EmitNewHead(h)
       PROVE  QueueInv'
  <2>1. /\ Owns(h) /\ OnlyMoves(h)
        /\ \/ lock' = Append(Tail(lock), h) /\ call'[h].pc \in {"lock", "head"}
           \/ lock' = Tail(lock) /\ call'[h].pc \in {"parent", "store"}
    BY <1>10 DEF WalkToParent, BecomeHead, EmitNewHead, Attached, Added, OnlyMoves, ProcInv, Calls
  <2>2. call'[h].pc # "adding"  BY <2>1
  <2>3. \/ lock' = Tail(lock) /\ ~UsesLock(h)'
        \/ lock' = Append(Tail(lock), h) /\ UsesLock(h)'
    BY <2>1 DEF UsesLock
  <2> QED  BY <1>4, <2>1, <2>2, <2>3
<1>11. CASE (\E b \in Block : NewTip(b)) \/ RunAdd \/ RejectAdd \/ Stop \/ UNCHANGED vars
  BY <1>2, <1>11 DEF NewTip, RunAdd, RejectAdd, Stop, vars
<1>12. CASE Restart
  <2>1. lock' = <<>> /\ \A h \in Handler : call'[h].pc = "free"
    BY <1>12 DEF Restart, Free
  <2> QED  BY <2>1 DEF QueueInv, Distinct, Within, UsesLock
<1> QED
  BY <1>6, <1>7, <1>8, <1>9, <1>10, <1>11, <1>12 DEF Next, Proceed

-----------------------------------------------------------------------------
(* The theorems about the processor *)

FullInv ==
    /\ CP!CacheInv
    /\ ProcInv /\ LockInv /\ QueueInv /\ RestTyped
    /\ DeliveredInv /\ HeadsWereAttached /\ StoredInv

(* Init establishes it, and every step of every actor preserves it. *)
LEMMA FullInvariant == Spec => []FullInv
<1>1. Init => LockInv /\ QueueInv /\ RestTyped /\ DeliveredInv /\ HeadsWereAttached /\ StoredInv
  <2> SUFFICES ASSUME Init
               PROVE  LockInv /\ QueueInv /\ DeliveredInv /\ HeadsWereAttached /\ StoredInv
    BY RestInit
  <2>1. \A h \in Handler : call[h].pc = "free"  BY DEF Init, Free
  <2>2. /\ lock = <<>> /\ storedHead = NotYet
        /\ stage = "idle" /\ emitted = [b \in Block |-> 0] /\ rejections = 0
    BY DEF Init, Cache!Init
  <2>3. QueueInv  BY <2>1, <2>2 DEF QueueInv, Distinct, Within, UsesLock
  <2> QED
    BY <2>1, <2>2, <2>3 DEF LockInv, DeliveredInv, HeadsWereAttached, StoredInv
<1>2. FullInv /\ CP!CacheInv' /\ [Next]_vars => FullInv'
  BY ProcStep, LockStep, QueueStep, RestStep, DeliveredStep, HeadsWereAttachedStep, StoredStep
     DEF FullInv
<1>3. Init => ProcInv  BY ProcInit
<1> QED
  BY <1>1, <1>2, <1>3, ProcessorCacheInvariant, PTL DEF Spec, FullInv

(* Every field keeps to the values the code gives it; a number that the     *)
(* provider announces, in particular, is that of a block of its chain.      *)
THEOREM ProcessorTypeOK == Spec => []TypeOK
<1>1. FullInv => TypeOK
  <2> SUFFICES ASSUME FullInv PROVE TypeOK  OBVIOUS
  <2>1. ProcInv /\ RestTyped /\ LockInv  BY DEF FullInv
  <2>2. announced \in Heights
    BY <2>1, HeightsShown DEF ProcInv, AnnouncedIsShown, Heights
  <2>3. call \in [Handler -> [pc : Steps, target : Numbers \cup {NotYet},
                              processing : Nat \cup {NotYet},
                              observed : Block \cup {NoBlock}, cur : Block \cup {NoBlock}]]
    BY <2>1 DEF ProcInv, Calls, Heights
  <2>4. rejected \in BOOLEAN /\ overtaken \in BOOLEAN  BY <2>1, Zenon DEF RestTyped
  <2>5. /\ tip \in Block /\ storedHead \in Numbers \cup {NotYet}
        /\ announced \in Numbers \cup {NotYet} /\ lock \in Seq(Handler)
    BY <2>1, <2>2 DEF ProcInv, Heights, LockInv
  <2>6. /\ phase \in {"starting", "started", "stopped"}
        /\ lastBlockHashReceived \in Block \cup {NoBlock}
        /\ newHeads \subseteq Block /\ seen \subseteq Block /\ failures \in Nat
    BY <2>1 DEF RestTyped
  <2> QED  BY <2>3, <2>4, <2>5, <2>6, Zenon DEF TypeOK
<1> QED  BY <1>1, FullInvariant, PTL

(* With any number of calls in flight and at every way out of a batch, the  *)
(* queue of blockItemStoreLock is exactly the calls that use it, and only   *)
(* its owner has a batch open: withBatch never throws, and a listener's     *)
(* writes go into the batch of the call it was invoked for.                 *)
THEOREM LockKeepsBatches == Spec => []LockKeepsBatchesApart
<1>1. FullInv => LockKeepsBatchesApart
  <2> SUFFICES ASSUME FullInv PROVE LockKeepsBatchesApart  OBVIOUS
  <2>1. /\ \A h \in Handler : UsesLock(h) <=> \E i \in 1 .. Len(lock) : lock[i] = h
        /\ \A i, j \in 1 .. Len(lock) : lock[i] = lock[j] => i = j
        /\ \A h \in Handler : call[h].pc = "adding" => Owns(h)
    BY DEF FullInv, QueueInv, Within, Distinct
  <2>2. ASSUME stage # "idle" PROVE \E h \in Handler : Owns(h) /\ call[h].pc = "adding"
    <3>1. lock \in Seq(Handler) /\ lock # <<>> /\ call[Head(lock)].pc = "adding"
      BY <2>2 DEF FullInv, LockInv
    <3>2. Head(lock) \in Handler  BY <3>1, HeadOfAppend
    <3> QED  BY <3>1, <3>2 DEF Owns
  <2> QED  BY <2>1, <2>2 DEF LockKeepsBatchesApart
<1> QED  BY <1>1, FullInvariant, PTL

(* A restart begins with a head number (startInternal reads it) only if the *)
(* block of that height, or one more than maxDepth above it, is attached on *)
(* disk; crashes and restarts included, unless a batch was ever rejected.   *)
THEOREM StoredHeadIsOnDisk == Spec => []StoredHeadOnDisk
<1>1. FullInv => StoredHeadOnDisk
  BY DEF FullInv, StoredInv, StoredHeadOnDisk, CP!Covered, CP!Covers
<1> QED  BY <1>1, FullInvariant, PTL

(* The ancestry of the head, that confirmations are counted on, goes down   *)
(* to minHeight, for every tree of blocks, number of calls in flight and    *)
(* failure, as long as the cascade attached no block off its parent.        *)
THEOREM HeadAncestryIsWhole == Spec => []HeadAncestryReachesMinHeight
<1>1. FullInv => HeadAncestryReachesMinHeight
  <2> SUFFICES ASSUME FullInv, loaded = {}, ~misplaced, Cache!HasBlock(headHash)
               PROVE  Number[Cache!OldestAncestorInCache(headHash)] <= Cache!MinHeight
    BY DEF HeadAncestryReachesMinHeight
  <2>1. headHash \in CP!Attached
    BY DEF Cache!HasBlock, Cache!Attached, CP!Attached
  <2>2. Number[CP!OldestAncestorInCache(headHash)] <= CP!MinHeight
    BY <2>1, CP!AncestryReaches, CPAssumption DEF FullInv
  <2>3. CP!MinHeight = Cache!MinHeight
    BY DEF CP!MinHeight, CP!MinHeightOf, Cache!MinHeight, Cache!MinHeightOf
  <2>4. CP!OldestAncestorInCache(headHash) = Cache!OldestAncestorInCache(headHash)
    BY DEF CP!OldestAncestorInCache, CP!Ancestry, CP!HasBlock, CP!Attached,
           Cache!OldestAncestorInCache, Cache!Ancestry, Cache!HasBlock, Cache!Attached
  <2> QED  BY <2>2, <2>3, <2>4
<1> QED  BY <1>1, FullInvariant, PTL

(* When a call holds the lock to deliver "new head", each ancestor of its   *)
(* block that the cache keeps had its "new block" delivered before.         *)
THEOREM HeadsAfterAncestors == Spec => []NewHeadAfterKeptAncestors
<1>1. FullInv => NewHeadAfterKeptAncestors
  <2> SUFFICES ASSUME FullInv, Cache!Undisturbed, ~misplaced,
                      NEW h \in Handler, call[h].pc = "head", Owns(h),
                      NEW a \in Chain[call[h].observed], Number[a] >= Cache!MinHeight
               PROVE  a \in seen
    BY DEF NewHeadAfterKeptAncestors
  <2> DEFINE o == call[h].observed
  <2>1. loaded = {} /\ rejections = 0  BY DEF Cache!Undisturbed
  <2>2. o \in CP!Ever  BY <2>1 DEF FullInv, HeadsWereAttached
  <2>3. \A b \in CP!Ever : Parent[b] \in CP!Ever \/ Number[b] <= CP!MinHeight
    BY <2>1 DEF FullInv, CP!CacheInv, CP!EverClosed
  <2>4. CP!MinHeight = Cache!MinHeight /\ CP!MinHeight \in Int
    BY CacheAssumption
       DEF CP!MinHeight, CP!MinHeightOf, Cache!MinHeight, Cache!MinHeightOf,
           Cache!BoundAssumption, FullInv, CP!CacheInv, CP!IndInv, CP!TypeOK
  <2>5. CP!Ever \in SUBSET Block  BY DEF CP!Ever
  <2>6. a \in CP!Ever  BY <2>2, <2>3, <2>4, <2>5, ChainWithin
  <2>7. emitting = NoBlock
    BY OwnerAtHead DEF FullInv, CP!CacheInv, CP!IndInv, CP!CallEmitting
  <2>8. a \in Block /\ emitted[a] # 0
    BY <2>6, <2>7, CacheAssumption DEF CP!Ever, Cache!ChainAssumption
  <2> QED  BY <2>1, <2>8 DEF FullInv, DeliveredInv
<1> QED  BY <1>1, FullInvariant, PTL

-----------------------------------------------------------------------------
(* One walk at a time *)

(* A path of blocks that rests on p: one block at each height, each on the  *)
(* one below it, the lowest on p.                                           *)
RestsOn(D, p) ==
    /\ \A b \in D : Parent[b] \in D \cup {p}
    /\ \A b, c \in D : Number[b] = Number[c] => b = c
    /\ p \in Block => \A b \in D : Number[b] > Number[p]

(* The cascade stands on an attached block of height n. *)
CascadeOn(n) == \E t \in Cache!Attached : Number[t] = n /\ RestsOn(Cache!Detached, t)

(* What is detached waits for p, which is not attached and not too low. *)
WaitsFor(p) ==
    /\ RestsOn(Cache!Detached, p)
    /\ Cache!Detached # {} =>
        /\ ~isEmpty /\ p \notin Cache!Attached
        /\ p \in Block => Number[p] >= Cache!MinHeight

NothingDetached == Cache!Detached = {}

(* The addBlock of a lone walk, given the block it adds: outside of the     *)
(* cascade what is detached waits for the block's parent.                   *)
AddWalks(b) ==
    /\ stage \in {"idle", "commit"} => IF NeedsParent THEN WaitsFor(Parent[b])
                                                      ELSE NothingDetached
    /\ stage = "emit" => todo = {} /\ CascadeOn(level)
    /\ stage = "mark" => \/ todo = {} /\ CascadeOn(level)
                         \/ /\ todo # {} /\ todo = Cache!DetachedAt(level)
                            /\ CascadeOn(level - 1)
    /\ stage = "scan" => NothingDetached \/ CascadeOn(level - 1)
    /\ stage = "settle" => NothingDetached

Walks(c) ==
    /\ stage # "idle" => c.pc = "adding"
    /\ c.pc = "adding" => AddWalks(c.cur)
    /\ c.pc \in {"parent", "lock"} => WaitsFor(c.cur)
    /\ c.pc \in {"free", "fetch", "answered", "head", "store"} => NothingDetached

WalkInv ==
    failures = 0 /\ rejections = 0 /\ restarts = 0 =>
        ~misplaced /\ \A h \in Handler : Walks(call[h])

(* What is true of paths *)
LEMMA PathIsEmpty ==
    ASSUME NEW D \in SUBSET Block, NEW t \in Block, RestsOn(D, t),
           \A b \in D : Number[b] # Number[t] + 1
    PROVE  D = {}
<1> USE CacheAssumption DEF Cache!ChainAssumption
<1> SUFFICES ASSUME D # {} PROVE FALSE
  OBVIOUS
<1>1. PICK b \in D : Parent[b] \notin D
  BY CP!LowestBlock, CPAssumption
<1>2. Parent[b] = t
  BY <1>1 DEF RestsOn
<1> QED  BY <1>2

LEMMA PathGrows ==
    ASSUME NEW D \in SUBSET Block, NEW b \in Block, RestsOn(D, b)
    PROVE  RestsOn(D \cup {b}, Parent[b])
<1> USE CacheAssumption DEF Cache!ChainAssumption
<1>1. \A c \in D \cup {b} : Parent[c] \in D \cup {b} \cup {Parent[b]}
  BY DEF RestsOn
<1>2. \A c \in D : Number[c] > Number[b]
  BY DEF RestsOn
<1>3. \A c, d \in D \cup {b} : Number[c] = Number[d] => c = d
  BY <1>2 DEF RestsOn
<1>4. ASSUME Parent[b] \in Block, NEW c \in D \cup {b} PROVE Number[c] > Number[Parent[b]]
  <2>1. Number[b] = Number[Parent[b]] + 1 /\ Number[Parent[b]] \in Nat /\ Number[c] \in Nat
    BY <1>4
  <2>2. Number[c] >= Number[b]
    BY <1>2, <2>1
  <2> QED  BY <2>1, <2>2
<1> QED  BY <1>1, <1>3, <1>4 DEF RestsOn

LEMMA PathShrinks ==
    ASSUME NEW D \in SUBSET Block, NEW t \in Block, RestsOn(D, t),
           NEW b \in D, Number[b] = Number[t] + 1
    PROVE  /\ Parent[b] = t /\ RestsOn(D \ {b}, b)
           /\ \A c \in D : Number[c] = Number[b] => c = b
<1> USE CacheAssumption DEF Cache!ChainAssumption
<1>1. \A c \in D : Number[c] > Number[t] /\ Number[c] \in Nat /\ Number[t] \in Nat
  BY DEF RestsOn
<1>2. Parent[b] = t
  <2>1. Parent[b] \in D => Number[Parent[b]] = Number[t]
    BY <1>1
  <2> QED  BY <1>1, <2>1 DEF RestsOn
<1>3. \A c \in D : Number[c] = Number[b] => c = b
  BY DEF RestsOn
<1>4. ASSUME NEW c \in D \ {b} PROVE Parent[c] \in D /\ Number[c] > Number[b]
  <2>1. Number[c] # Number[b]
    BY <1>3, <1>4
  <2>2. Parent[c] = t => Number[c] = Number[t] + 1
    OBVIOUS
  <2> QED  BY <1>1, <2>1, <2>2 DEF RestsOn
<1> QED  BY <1>2, <1>3, <1>4 DEF RestsOn

(* The parts of a walk depend on the memory of the cache alone. *)
LEMMA CascadeKept ==
    ASSUME NEW n, CascadeOn(n), UNCHANGED item
    PROVE  CascadeOn(n)'
BY DEF CascadeOn, RestsOn, Cache!Attached, Cache!Detached

LEMMA WaitKept ==
    ASSUME NEW p, WaitsFor(p), UNCHANGED <<item, isEmpty, pruneHeight, maxHeight>>
    PROVE  WaitsFor(p)'
BY DEF WaitsFor, RestsOn, Cache!Attached, Cache!Detached, Cache!MinHeight, Cache!MinHeightOf

LEMMA NothingKept ==
    ASSUME NothingDetached, UNCHANGED item
    PROVE  NothingDetached'
BY DEF NothingDetached, Cache!Detached

(* addBlock is called with the block that all detached ones wait for. *)
LEMMA AddBegins ==
    ASSUME CP!TypeOK, NEW b \in Block, WaitsFor(b), Cache!AddBlock(b)
    PROVE  AddWalks(b)' /\ misplaced' = misplaced
<1> USE CacheAssumption DEF Cache!ChainAssumption, Cache!BoundAssumption
<1> DEFINE D == Cache!Detached
           A == Cache!Attached
<1>1. /\ D \in SUBSET Block /\ RestsOn(D, b) /\ b \notin D
      /\ D # {} => ~isEmpty /\ b \notin A /\ Number[b] >= Cache!MinHeight
  BY DEF WaitsFor, RestsOn, Cache!Detached
<1>2. /\ item \in [Block -> {"absent", "detached", "attached"}]
      /\ Cache!MinHeight \in Int
  BY DEF CP!TypeOK, CP!Status, Cache!MinHeight, Cache!MinHeightOf
<1>3. D' = Cache!Detached' /\ A' = Cache!Attached'
  OBVIOUS
<1>4. CASE Cache!AddBlockRefused(b)
  <2>1. /\ stage' = "idle" /\ item' = item /\ misplaced' = misplaced
        /\ \/ addResult' = "NotAddedAlreadyExisted" /\ b \in A
           \/ addResult' = "NotAddedBlockNumberTooLow" /\ Cache!TooLow(b)
           \/ addResult' = "NotAddedAlreadyExistedDetached" /\ b \in D
    BY <1>4 DEF Cache!AddBlockRefused, Cache!storeVars, Cache!histVars, Cache!Attached,
                Cache!Detached
  <2>2. Cache!TooLow(b) => ~(Number[b] >= Cache!MinHeight)
    BY <1>2 DEF Cache!TooLow
  <2>3. NothingDetached /\ ~NeedsParent'
    BY <1>1, <2>1, <2>2 DEF NothingDetached, NeedsParent
  <2>4. NothingDetached'
    BY <2>1, <2>3, NothingKept
  <2> QED  BY <2>1, <2>3, <2>4 DEF AddWalks
<1>5. CASE Cache!AddBlockAttached(b)
  <2>1. /\ item' = [item EXCEPT ![b] = "attached"] /\ item[b] = "absent"
        /\ stage' = "emit" /\ todo' = {} /\ level' = Number[b] /\ misplaced' = misplaced
    BY <1>5 DEF Cache!AddBlockAttached, Cache!NewToCache, Cache!PutAttached, Cache!histVars
  <2>2. Cache!Detached' = D /\ b \in Cache!Attached'
    BY <1>2, <2>1 DEF Cache!Detached, Cache!Attached
  <2>3. CascadeOn(level)'
    BY <1>1, <2>1, <2>2 DEF CascadeOn, RestsOn
  <2> QED  BY <2>1, <2>3 DEF AddWalks
<1>6. CASE Cache!AddBlockDetached(b)
  <2> DEFINE p == Parent[b]
  <2>1. /\ item' = [item EXCEPT ![b] = "detached"] /\ item[b] = "absent"
        /\ stage' = "commit" /\ addResult' = "AddedDetached" /\ misplaced' = misplaced
        /\ UNCHANGED <<isEmpty, pruneHeight, maxHeight>>
    BY <1>6 DEF Cache!AddBlockDetached, Cache!NewToCache, Cache!PutAttached, Cache!histVars,
                Cache!cacheVars
  <2>2. ~isEmpty /\ p \notin A /\ Number[b] # Cache!MinHeight /\ ~Cache!TooLow(b)
    BY <1>6 DEF Cache!AddBlockDetached, Cache!NewToCache, Cache!CanAttachBlock, Cache!HasBlock
  <2>3. Cache!Detached' = D \cup {b} /\ Cache!Attached' = A
    BY <1>2, <2>1 DEF Cache!Detached, Cache!Attached
  <2>4. RestsOn(D \cup {b}, p)
    BY <1>1, PathGrows
  <2>5. p \in Block => Number[p] >= Cache!MinHeight
    BY <1>2, <2>2 DEF Cache!TooLow
  <2>6. Cache!MinHeight' = Cache!MinHeight
    BY <2>1 DEF Cache!MinHeight, Cache!MinHeightOf
  <2>7. RestsOn(Cache!Detached, p)'
    BY <2>3, <2>4 DEF RestsOn
  <2> HIDE DEF D, A
  <2>8. WaitsFor(p)'
    BY <2>1, <2>2, <2>3, <2>5, <2>6, <2>7 DEF WaitsFor
  <2> QED  BY <2>1, <2>8 DEF AddWalks, NeedsParent
<1> QED  BY <1>4, <1>5, <1>6 DEF Cache!AddBlock

(* The cascade attaches the path block by block, each onto its parent.      *)
LEMMA CascadeGoesOn ==
    ASSUME CP!TypeOK, NEW b, AddWalks(b), Cache!Continue
    PROVE  AddWalks(b)' /\ (misplaced' => misplaced)
<1> USE CacheAssumption DEF Cache!ChainAssumption, Cache!BoundAssumption
<1> DEFINE D == Cache!Detached
           A == Cache!Attached
<1>1. /\ item \in [Block -> {"absent", "detached", "attached"}]
      /\ D \in SUBSET Block /\ A \in SUBSET Block
      /\ level \in Nat /\ pruneHeight \in Nat
  BY DEF CP!TypeOK, CP!Status, Cache!Detached, Cache!Attached
<1>2. CASE Cache!EmitNewBlock
  <2>1. /\ stage = "emit" /\ stage' = "mark"
        /\ UNCHANGED <<item, todo, level, misplaced>>
    BY <1>2 DEF Cache!EmitNewBlock, Cache!storeVars, Cache!histVars
  <2>2. todo = {} /\ CascadeOn(level)
    BY <2>1 DEF AddWalks
  <2>3. CascadeOn(level)'
    BY <2>1, <2>2 DEF CascadeOn, RestsOn, Cache!Attached, Cache!Detached
  <2> QED  BY <2>1, <2>2, <2>3 DEF AddWalks
<1>3. ASSUME NEW c \in Block, Cache!MarkDetached(c)
      PROVE  AddWalks(b)' /\ (misplaced' => misplaced)
  <2>1. /\ stage = "mark" /\ c \in todo /\ stage' = "emit" /\ todo' = todo \ {c}
        /\ item' = [item EXCEPT ![c] = "attached"] /\ level' = level
        /\ misplaced' = (misplaced \/ ~Cache!CanAttachBlock(c))
    BY <1>3 DEF Cache!MarkDetached, Cache!PutAttached
  <2>2. todo = Cache!DetachedAt(level) /\ CascadeOn(level - 1)
    BY <2>1 DEF AddWalks
  <2>3. PICK t \in A : Number[t] = level - 1 /\ RestsOn(D, t)
    BY <2>2 DEF CascadeOn
  <2>4. c \in D /\ Number[c] = level /\ t \in Block
    BY <1>1, <2>1, <2>2, <2>3 DEF Cache!DetachedAt
  <2>5. Number[c] = Number[t] + 1
    BY <1>1, <2>3, <2>4
  <2>6. Parent[c] = t /\ RestsOn(D \ {c}, c) /\ \A d \in D : Number[d] = Number[c] => d = c
    <3>1. D \in SUBSET Block
      BY <1>1
    <3> HIDE DEF D
    <3>2. ASSUME NEW u \in Block, RestsOn(D, u), NEW e \in D, Number[e] = Number[u] + 1
          PROVE  /\ Parent[e] = u /\ RestsOn(D \ {e}, e)
                 /\ \A d \in D : Number[d] = Number[e] => d = e
      BY <3>1, <3>2, PathShrinks
    <3> QED  BY <2>3, <2>4, <2>5, <3>2
  <2>7. Cache!CanAttachBlock(c)
    BY <2>3, <2>6 DEF Cache!CanAttachBlock, Cache!HasBlock
  <2>8. todo' = {}
    BY <2>1, <2>2, <2>4, <2>6 DEF Cache!DetachedAt
  <2>9. Cache!Detached' = D \ {c} /\ c \in Cache!Attached'
    BY <1>1, <2>1 DEF Cache!Detached, Cache!Attached
  <2>10. CascadeOn(level)'
    BY <2>1, <2>4, <2>6, <2>9 DEF CascadeOn, RestsOn
  <2> QED  BY <2>1, <2>7, <2>8, <2>10 DEF AddWalks
<1>4. CASE Cache!UpdateMaxHeightAndPrune
  <2>1. /\ stage = "mark" /\ todo = {} /\ stage' = "scan" /\ level' = level + 1
        /\ misplaced' = misplaced
    BY <1>4 DEF Cache!UpdateMaxHeightAndPrune, Cache!histVars
  <2>2. PICK t \in A : Number[t] = level /\ RestsOn(D, t)
    BY <2>1 DEF AddWalks, CascadeOn
  <2>3. \A x \in Block : Number[x] >= level => item'[x] = item[x]
    <3>1. CASE maxHeight < level
      <4>1. pruneHeight' \in Int /\ (pruneHeight' = pruneHeight \/ pruneHeight' <= level)
        BY <1>1, <1>4, <3>1 DEF Cache!UpdateMaxHeightAndPrune, Cache!MinHeightOf
      <4>2. \A x \in Block : ~(pruneHeight <= Number[x] /\ Number[x] < pruneHeight')
                             => item'[x] = item[x]
        BY <1>4, <3>1 DEF Cache!UpdateMaxHeightAndPrune, Cache!DeleteItems
      <4>3. ASSUME NEW x \in Block, Number[x] >= level
            PROVE  ~(pruneHeight <= Number[x] /\ Number[x] < pruneHeight')
        <5>1. Number[x] \in Int /\ level \in Int /\ pruneHeight \in Int
          BY <1>1
        <5> QED  BY <4>1, <4>3, <5>1
      <4> QED  BY <4>2, <4>3
    <3>2. CASE ~(maxHeight < level)
      BY <1>4, <3>2 DEF Cache!UpdateMaxHeightAndPrune
    <3> QED  BY <3>1, <3>2
  <2>4. \A x \in Block : item'[x] = item[x] \/ item'[x] = "absent"
    BY <1>4 DEF Cache!UpdateMaxHeightAndPrune, Cache!DeleteItems
  <2>5. \A x \in D : Number[x] >= level
    BY <1>1, <2>2 DEF RestsOn
  <2>6. Cache!Detached' = D
    BY <2>3, <2>4, <2>5 DEF Cache!Detached
  <2>7. t \in Cache!Attached'
    BY <1>1, <2>2, <2>3 DEF Cache!Attached
  <2>8. CascadeOn(level - 1)'
    BY <1>1, <2>1, <2>2, <2>6, <2>7 DEF CascadeOn, RestsOn
  <2> QED  BY <2>1, <2>8 DEF AddWalks
<1>5. CASE Cache!ScanLevel
  <2>1. /\ stage = "scan" /\ todo' = Cache!DetachedAt(level)
        /\ stage' = (IF todo' = {} THEN "settle" ELSE "mark")
        /\ UNCHANGED <<item, level, misplaced>>
    BY <1>5 DEF Cache!ScanLevel, Cache!storeVars, Cache!histVars
  <2>2. NothingDetached \/ CascadeOn(level - 1)
    BY <2>1 DEF AddWalks
  <2>3. CASE todo' = {}
    <3>1. ASSUME CascadeOn(level - 1) PROVE NothingDetached
      <4>1. PICK t \in A : Number[t] = level - 1 /\ RestsOn(D, t)
        BY <3>1 DEF CascadeOn
      <4>2. \A x \in D : Number[x] # Number[t] + 1
        BY <1>1, <2>1, <2>3, <4>1 DEF Cache!DetachedAt
      <4>3. D = {}
        BY <1>1, <4>1, <4>2, PathIsEmpty
      <4> QED  BY <4>3 DEF NothingDetached
    <3>2. NothingDetached'
      BY <2>1, <2>2, <3>1, NothingKept
    <3> QED  BY <2>1, <2>3, <3>2 DEF AddWalks
  <2>4. CASE todo' # {}
    <3>1. ~NothingDetached
      BY <2>1, <2>4 DEF NothingDetached, Cache!DetachedAt
    <3>2. CascadeOn(level - 1)'
      BY <2>1, <2>2, <3>1 DEF CascadeOn, RestsOn, Cache!Attached, Cache!Detached
    <3>3. todo' = Cache!DetachedAt(level)'
      BY <2>1 DEF Cache!DetachedAt, Cache!Detached
    <3> QED  BY <2>1, <2>4, <3>2, <3>3 DEF AddWalks
  <2> QED  BY <2>3, <2>4
<1>6. CASE Cache!SettleAtMinHeight
  <2>1. /\ stage = "settle" /\ UNCHANGED <<item, misplaced>>
    BY <1>6 DEF Cache!SettleAtMinHeight, Cache!storeVars, Cache!histVars
  <2>3. stage' = "scan" \/ (stage' = "commit" /\ addResult' = "Added")
    BY <1>6 DEF Cache!SettleAtMinHeight
  <2>2. NothingDetached'
    BY <2>1, NothingKept DEF AddWalks
  <2> QED  BY <2>1, <2>2, <2>3 DEF AddWalks, NeedsParent
<1>7. CASE Cache!WriteBatch
  <2>1. /\ stage = "commit" /\ stage' = "idle"
        /\ UNCHANGED <<item, isEmpty, pruneHeight, maxHeight, addResult, misplaced>>
    BY <1>7 DEF Cache!WriteBatch, Cache!cacheVars, Cache!histVars
  <2>2. NeedsParent' <=> NeedsParent
    BY <2>1 DEF NeedsParent
  <2>3. IF NeedsParent THEN WaitsFor(Parent[b])' ELSE NothingDetached'
    BY <2>1, NothingKept, WaitKept DEF AddWalks
  <2> QED  BY <2>1, <2>2, <2>3 DEF AddWalks
<1> QED  BY <1>2, <1>3, <1>4, <1>5, <1>6, <1>7 DEF Cache!Continue

(* A step that leaves the cache alone, or only moves its head               *)
LEMMA WalkGoesOn ==
    ASSUME NEW c, Walks(c), NEW d,
           UNCHANGED <<item, isEmpty, pruneHeight, maxHeight, stage, level, todo, addResult>>,
           \/ d.pc = c.pc /\ d.cur = c.cur
           \/ /\ stage = "idle"
              /\ \/ NothingDetached /\ d.pc \notin {"adding", "parent", "lock"}
                 \/ WaitsFor(d.cur) /\ d.pc \in {"parent", "lock"}
    PROVE  Walks(d)'
<1>1. /\ NothingDetached => NothingDetached'
      /\ \A p : WaitsFor(p) => WaitsFor(p)'
      /\ \A n : CascadeOn(n) => CascadeOn(n)'
  BY NothingKept, WaitKept, CascadeKept
<1>2. AddWalks(c.cur) => AddWalks(c.cur)'
  BY <1>1 DEF AddWalks, NeedsParent, Cache!DetachedAt, Cache!Detached
<1> QED  BY <1>1, <1>2 DEF Walks

LEMMA NothingWaits == NothingDetached => \A p : WaitsFor(p)
BY DEF NothingDetached, WaitsFor, RestsOn

(* What a call does next, when it has the cache to itself. *)
LEMMA WalkStep ==
    ASSUME \A g, h \in Handler : g = h, CP!CacheInv, ProcInv, RestTyped, WalkInv, [Next]_vars
    PROVE  WalkInv'
<1> DEFINE Goal == ~misplaced' /\ \A h \in Handler : Walks(call[h])'
<1> SUFFICES ASSUME failures' = 0, rejections' = 0, restarts' = 0 PROVE Goal
  BY DEF WalkInv
<1>0. CP!TypeOK  BY DEF CP!CacheInv, CP!IndInv
<1>1. ~Restart /\ ~RejectAdd
  BY <1>0 DEF Restart, RejectAdd, Cache!Restart, Cache!RejectBatch, CP!TypeOK
<1>2. rejections = 0 /\ restarts = 0
  BY <1>1, StepOfCache, CallLeaves
<1>3. ASSUME failures' = failures PROVE ~misplaced /\ \A h \in Handler : Walks(call[h])
  BY <1>2, <1>3 DEF WalkInv
<1>4. ASSUME NEW h \in Handler, failures' = failures, misplaced' = misplaced,
             UNCHANGED <<item, isEmpty, pruneHeight, maxHeight, stage, level, todo, addResult>>,
             \/ call'[h].pc = call[h].pc /\ call'[h].cur = call[h].cur
             \/ /\ stage = "idle"
                /\ \/ NothingDetached /\ call'[h].pc \notin {"adding", "parent", "lock"}
                   \/ WaitsFor(call'[h].cur) /\ call'[h].pc \in {"parent", "lock"}
      PROVE  Goal
  <2>1. ~misplaced' /\ Walks(call[h])
    BY <1>3, <1>4
  <2>2. Walks(call[h])'
    BY <1>4, <2>1, WalkGoesOn
  <2> QED  BY <2>1, <2>2
<1>5. ASSUME (\E b \in Block : NewTip(b)) \/ Stop \/ UNCHANGED vars PROVE Goal
  <2>1. PICK h : h \in Handler
    BY ProcessorAssumption
  <2>2. UNCHANGED <<cacheState, call, failures>>
    BY <1>5 DEF NewTip, Stop, vars, history
  <2> QED  BY <1>4, <2>1, <2>2 DEF cacheState
<1>6. ASSUME NEW h \in Handler, Boot(h) \/ NewBlockEvent(h) PROVE Goal
  <2>1. call[h].pc = "free" /\ UNCHANGED <<cacheState, failures>>
    BY <1>6 DEF Boot, NewBlockEvent, history
  <2>2. call'[h].pc \in {"free", "fetch"}
    BY <1>6, BatchBegins DEF Boot, NewBlockEvent
  <2>3. NothingDetached /\ stage = "idle"
    BY <1>3, <2>1 DEF Walks
  <2> QED  BY <1>4, <2>1, <2>2, <2>3 DEF cacheState
<1>7. ASSUME NEW h \in Handler, Answer(h) \/ EmitNewHead(h) \/ StoreHead(h) PROVE Goal
  <2>1. call[h].pc \in {"fetch", "head", "store"} /\ UNCHANGED <<cacheState, failures>>
    BY <1>7 DEF Answer, EmitNewHead, StoreHead, history
  <2>2. call'[h].pc \in {"answered", "store", "free"}
    <3>0. call[h] \in Calls /\ h \in DOMAIN call
      BY DEF ProcInv
    <3>1. CASE Answer(h)
      <4>1. PICK b : call' = [call EXCEPT ![h].pc = "answered", ![h].observed = b, ![h].cur = b]
        BY <3>1 DEF Answer
      <4> DEFINE d == [call[h] EXCEPT !.pc = "answered", !.observed = b, !.cur = b]
      <4>2. call' = [call EXCEPT ![h] = d]
        BY <3>0, <4>1 DEF Calls
      <4>3. d.pc = "answered"
        BY <3>0 DEF Calls
      <4> HIDE DEF d
      <4> QED  BY <3>0, <4>2, <4>3
    <3>2. CASE EmitNewHead(h)
      BY <3>0, <3>2 DEF EmitNewHead, Calls
    <3>3. CASE StoreHead(h)
      BY <3>0, <3>3 DEF StoreHead, Return, Free
    <3> QED  BY <1>7, <3>1, <3>2, <3>3
  <2>3. NothingDetached /\ stage = "idle"
    BY <1>3, <2>1 DEF Walks
  <2> QED  BY <1>4, <2>1, <2>2, <2>3 DEF cacheState
<1>8. ASSUME NEW h \in Handler, Receive(h) \/ FetchParent(h) PROVE Goal
  <2>1. /\ call[h].pc \in {"answered", "parent"} /\ UNCHANGED <<cacheState, failures>>
    BY <1>8 DEF Receive, FetchParent, history, NoteOvertaking
  <2>2. call'[h].pc = "lock" /\ call'[h].cur = call[h].cur
    BY <1>8 DEF Receive, FetchParent, ProcInv, Calls
  <2>3. WaitsFor(call[h].cur) /\ stage = "idle"
    BY <1>3, <2>1, NothingWaits DEF Walks
  <2> QED  BY <1>4, <2>1, <2>2, <2>3 DEF cacheState
<1>9. ASSUME NEW h \in Handler, StartAdd(h) PROVE Goal
  <2>1. /\ call[h].pc = "lock" /\ Cache!AddBlock(call[h].cur) /\ failures' = failures
    BY <1>9 DEF StartAdd, history
  <2>2. call'[h].pc = "adding" /\ call'[h].cur = call[h].cur
    BY <1>9 DEF StartAdd, ProcInv, Calls
  <2>3. WaitsFor(call[h].cur) /\ ~misplaced /\ call[h].cur \in Block
    BY <1>3, <2>1 DEF Walks, ProcInv, CallHasBlocks
  <2>4. PICK b \in Block : b = call[h].cur
    BY <2>3
  <2>5. AddWalks(b)' /\ misplaced' = misplaced
    BY <1>0, <2>1, <2>3, <2>4, AddBegins
  <2>6. Walks(call[h])'
    BY <2>2, <2>4, <2>5 DEF Walks
  <2> QED  BY <2>3, <2>5, <2>6
<1>10. ASSUME NEW h \in Handler, AddFailed(h) \/ NextBatch(h) \/ NotTheHead(h) PROVE Goal
  <2>1. /\ Added(h) /\ ~NeedsParent /\ UNCHANGED <<cacheState, failures>>
    BY <1>10 DEF AddFailed, NextBatch, NotTheHead, Attached, NeedsParent, history
  <2>2. call'[h].pc \in {"free", "fetch"}
    BY <1>10, BatchBegins DEF AddFailed, NextBatch, NotTheHead
  <2>3. NothingDetached /\ stage = "idle"
    BY <1>3, <2>1 DEF Walks, AddWalks, Added
  <2> QED  BY <1>4, <2>1, <2>2, <2>3 DEF cacheState
<1>11. ASSUME NEW h \in Handler, WalkToParent(h) PROVE Goal
  <2> DEFINE p == Parent[call[h].cur]
  <2>1. /\ Added(h) /\ NeedsParent /\ UNCHANGED <<cacheState, failures>>
    BY <1>11 DEF WalkToParent, history
  <2>2. call'[h].pc \in {"lock", "parent"} /\ call'[h].cur = p
    BY <1>11 DEF WalkToParent, ProcInv, Calls
  <2>3. WaitsFor(p) /\ stage = "idle"
    BY <1>3, <2>1 DEF Walks, AddWalks, Added
  <2> QED  BY <1>4, <2>1, <2>2, <2>3 DEF cacheState
<1>12. ASSUME NEW h \in Handler, BecomeHead(h) PROVE Goal
  <2>1. /\ Added(h) /\ ~NeedsParent /\ failures' = failures /\ misplaced' = misplaced
        /\ UNCHANGED <<item, isEmpty, pruneHeight, maxHeight, stage, level, todo, addResult>>
    BY <1>12 DEF BecomeHead, Attached, history, Cache!SetHead, Cache!storeVars,
                 Cache!cacheVars, Cache!callVars, Cache!histVars
  <2>2. call'[h].pc \in {"head", "store"}
    BY <1>12 DEF BecomeHead, ProcInv, Calls
  <2>3. NothingDetached /\ stage = "idle"
    BY <1>3, <2>1 DEF Walks, AddWalks, Added
  <2> QED  BY <1>4, <2>1, <2>2, <2>3
<1>13. CASE RunAdd
  <2>1. PICK h : h \in Handler
    BY ProcessorAssumption
  <2>2. Cache!Continue /\ UNCHANGED <<call, failures>>
    BY <1>13 DEF RunAdd
  <2>3. stage # "idle"
    BY <2>2 DEF Cache!Continue, Cache!EmitNewBlock, Cache!MarkDetached,
                Cache!UpdateMaxHeightAndPrune, Cache!ScanLevel, Cache!SettleAtMinHeight,
                Cache!WriteBatch
  <2>4. ~misplaced /\ call[h].pc = "adding" /\ AddWalks(call[h].cur)
    BY <1>3, <2>1, <2>2, <2>3 DEF Walks
  <2>5. PICK b : b = call[h].cur
    OBVIOUS
  <2>6. AddWalks(b)' /\ (misplaced' => misplaced)
    BY <1>0, <2>2, <2>4, <2>5, CascadeGoesOn
  <2>7. Walks(call[h])'
    BY <2>2, <2>4, <2>5, <2>6 DEF Walks
  <2> QED  BY <2>1, <2>4, <2>6, <2>7
<1>14. ASSUME NEW h \in Handler, FetchFails(h) \/ NewHeadFails(h) PROVE FALSE
  BY <1>14 DEF FetchFails, NewHeadFails, RestTyped
<1> HIDE DEF Goal
<1> QED
  BY <1>1, <1>5, <1>6, <1>7, <1>8, <1>9, <1>10, <1>11, <1>12, <1>13, <1>14 DEF Next, Proceed

LEMMA WalkInit == Init => WalkInv
BY DEF Init, Cache!Init, WalkInv, Walks, Free, NothingDetached, Cache!Detached

(* blockProcessor.ts:118-119: with one call of processBlockNumber at a time *)
(* nothing is attached off its parent before a fetch, a listener or a       *)
(* write fails or the process is restarted, for every tree of blocks and    *)
(* every way the provider moves between its branches.                       *)
THEOREM OneWalkMisplacesNothing ==
    ASSUME \A g, h \in Handler : g = h
    PROVE  Spec => [](restarts = 0 => MisplacedOnlyAfterFailure)
<1>1. WalkInv /\ FullInv /\ [Next]_vars => WalkInv'
  BY WalkStep DEF FullInv
<1>2. WalkInv => (restarts = 0 => MisplacedOnlyAfterFailure)
  BY DEF WalkInv, MisplacedOnlyAfterFailure
<1> QED
  BY WalkInit, <1>1, <1>2, FullInvariant, PTL DEF Spec

=============================================================================

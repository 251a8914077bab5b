---------------------------- MODULE TowerProofs ----------------------------
(***************************************************************************)
(* Every step of the tower leaves the appointment store alone or is one of *)
(* the store's own, so what is proved of the store holds in the tower: for *)
(* any block tree, any set of appointments and any number of restarts.     *)
(* What the watcher makes of the chain, and decides from it, is right as   *)
(* long as every block it is given lies on its parent.                     *)
(***************************************************************************)
EXTENDS Tower, AppointmentIndexProofs, WellFoundedInduction

-----------------------------------------------------------------------------
LEMMA ActionStep ==
    ASSUME IInv, NEW t, RunAction(t)
    PROVE  [StoreNext]_storeVars
<1>1. CASE StartRemoval(t)
  <2>1. CASE t.act.app \in byId
    <3>1. t.act.app \in Appointment  BY <2>1 DEF IInv, Typed
    <3> QED  BY <1>1, <2>1, <3>1 DEF StartRemoval, StoreNext
  <2>2. CASE t.act.app \notin byId
    BY <1>1, <2>2 DEF StartRemoval
  <2> QED  BY <2>1, <2>2
<1>2. CASE EndRemoval(t)
  BY <1>2 DEF EndRemoval, StoreNext, CallStep
<1>3. CASE (\E price \in NetworkPrice : Respond(t, price)) \/ RemoveAction(t)
  BY <1>3 DEF Respond, RemoveAction
<1> QED  BY <1>1, <1>2, <1>3 DEF RunAction

LEMMA TowerStep == IInv /\ [Next]_vars => [StoreNext]_storeVars
<1> SUFFICES ASSUME IInv, [Next]_vars PROVE [StoreNext]_storeVars  OBVIOUS
<1>1. CASE Api
  BY <1>1 DEF Api, AddToWatch, AddRelay, StoreNext
<1>2. CASE \E c \in calls : ContinueCall(c)
  BY <1>2 DEF ContinueCall, StoreNext, CallStep
<1>3. CASE Chain
  BY <1>3 DEF Chain, ReceiveBlock, NewHead
<1>4. CASE Store
  BY <1>4 DEF Store, StoreActions, WriteEmitted, StoreHeadNumber
<1>5. CASE \E t \in running : RunAction(t)
  BY <1>5, ActionStep
<1>6. CASE Confirmation
  BY <1>6 DEF Confirmation, ResponseConfirmed
<1>7. CASE Stop
  BY <1>7 DEF Stop, StoreNext
<1>8. CASE Starting
  BY <1>8 DEF Starting, StartMachine, StartProcessor, StartStore, StartResponderStore,
              StoreNext
<1>9. CASE UNCHANGED vars
  BY <1>9 DEF vars
<1> QED  BY <1>1, <1>2, <1>3, <1>4, <1>5, <1>6, <1>7, <1>8, <1>9 DEF Next

LEMMA TowerStoreInv == Spec => []IInv
<1>1. Init => IInv  BY InitStore DEF Init
<1> QED  BY <1>1, TowerStep, NextStore, PTL DEF Spec

(* Over the API, the removals the watcher runs in the background, crashes   *)
(* and the start in parts, the database of the appointment store is a       *)
(* register: one appointment for each locator, replaced only by a larger    *)
(* nonce.                                                                   *)
THEOREM TowerKeepsRegister == Spec => StoreIsRegister
<1>1. Init => Register!Init  BY InitRegister DEF Init
<1>2. IInv /\ [Next]_vars => [Register!Next]_held
  BY TowerStep, StepIsRegister
<1> QED
  BY <1>1, <1>2, TowerStoreInv, PTL DEF Spec, StoreIsRegister, Register!Spec, held

-----------------------------------------------------------------------------
(* The indexes *)

(* Over the whole tower, whenever no call is in progress the indexes of the *)
(* store hold what its database holds: nothing that happened at the awaits  *)
(* of earlier calls is left behind.                                         *)
THEOREM TowerIndexesAgree == Spec => []IndexesAgree
<1>1. Init => IInv /\ MInv  BY InitStore, InitMemory DEF Init
<1>2. IInv /\ MInv /\ [Next]_vars => (IInv /\ MInv)'
  BY TowerStep, NextStore, NextMemory
<1>3. IInv /\ MInv => IndexesAgree  BY QuietStoreAgrees DEF IndexesAgree
<1> QED  BY <1>1, <1>2, <1>3, PTL DEF Spec

-----------------------------------------------------------------------------
(* Responses *)

Settled(a) == a \in answered \/ GivenUp(a)

(* An action that ran without an error was answered or given up. *)
RInv ==
    /\ \A x \in issued : x.kind = "respond" => x \in actionStore \/ Settled(x.app)
    /\ \A a \in signed : Settled(a)
    /\ \A t \in running : /\ t.pc = "removing" => t.act.kind = "remove"
                          /\ t.pc = "applied" /\ t.act.kind = "respond" => Settled(t.act.app)
    /\ \A t \in running : t = [act |-> t.act, pc |-> t.pc]

LEMMA StartResponseSettles ==
    ASSUME NEW a, NEW deadline, NEW price, StartResponse(a, deadline, price)
    PROVE  /\ Settled(a)'
           /\ answered \subseteq answered' /\ refused \subseteq refused'
<1>1. ASSUME NEW why, Forget(a, deadline, why), answered' = answered,
             why = "curve" => Left(deadline) = MaxBlocks
      PROVE  /\ Settled(a)'
             /\ answered \subseteq answered' /\ refused \subseteq refused'
  <2> DEFINE r == [app |-> a, left |-> Left(deadline), why |-> why]
  <2>1. r.app = a /\ r.why = why /\ r.left = Left(deadline)
    OBVIOUS
  <2>2. refused' = refused \cup {r}  BY <1>1 DEF Forget
  <2> HIDE DEF r
  <2> QED  BY <1>1, <2>1, <2>2 DEF Settled, GivenUp
<1>2. CASE GivesUp(deadline) /\ answered' = answered
           /\ Forget(a, deadline, IF DepthReached THEN "full" ELSE "curve")
  <2>1. DepthReached \/ Left(deadline) = MaxBlocks
    BY <1>2, EstimatorAssumption DEF GivesUp, EstimateThrows, SecondPoint
  <2> QED  BY <1>1, <1>2, <2>1
<1>3. CASE Enqueue(a, deadline, price)
  BY <1>3 DEF Enqueue, Settled
<1>4. CASE PriceFails(a, deadline) \/ WriteFails(a, deadline, price)
  <2>1. Forget(a, deadline, "failed") /\ answered' = answered
    BY <1>4 DEF PriceFails, WriteFails
  <2> QED  BY <1>1, <2>1
<1> QED  BY <1>2, <1>3, <1>4 DEF StartResponse

LEMMA SettledStays ==
    ASSUME answered \subseteq answered', refused \subseteq refused', NEW a, Settled(a)
    PROVE  Settled(a)'
BY DEF Settled, GivenUp

LEMMA PcFields ==
    ASSUME NEW t, t = [act |-> t.act, pc |-> t.pc], NEW p
    PROVE  LET u == [t EXCEPT !.pc = p]
           IN  u.act = t.act /\ u.pc = p /\ u = [act |-> u.act, pc |-> u.pc]
OBVIOUS

(* The steps that only move an action on. *)
LEMMA SetPcKeeps ==
    ASSUME RInv, NEW t \in running, NEW p, SetPc(t, p),
           UNCHANGED <<actionStore, issued, signed>>,
           answered \subseteq answered', refused \subseteq refused',
           p = "removing" => t.act.kind = "remove",
           p = "applied" /\ t.act.kind = "respond" => Settled(t.act.app)'
    PROVE  RInv'
<1> DEFINE u == [t EXCEPT !.pc = p]
<1>1. u.act = t.act /\ u.pc = p /\ u = [act |-> u.act, pc |-> u.pc]
  BY PcFields DEF RInv
<1>2. running' = (running \ {t}) \cup {u}  BY DEF SetPc
<1> HIDE DEF u
<1>3. \A x \in issued' : x.kind = "respond" => x \in actionStore' \/ Settled(x.app)'
  BY SettledStays DEF RInv
<1>4. \A a \in signed' : Settled(a)'  BY SettledStays DEF RInv
<1>5. \A v \in running' : /\ v.pc = "removing" => v.act.kind = "remove"
                          /\ v.pc = "applied" /\ v.act.kind = "respond" => Settled(v.act.app)'
                          /\ v = [act |-> v.act, pc |-> v.pc]
  BY <1>1, <1>2, SettledStays DEF RInv
<1> QED  BY <1>3, <1>4, <1>5 DEF RInv

(* The steps after which there are no more actions than before. *)
LEMMA FewerRunningKeeps ==
    ASSUME RInv, running' \subseteq running, issued' = issued,
           \A x \in issued : x.kind = "respond" /\ x \in actionStore =>
               x \in actionStore' \/ Settled(x.app),
           \A a \in signed' : a \in signed \/ Settled(a)',
           answered \subseteq answered', refused \subseteq refused'
    PROVE  RInv'
<1>1. \A x \in issued' : x.kind = "respond" => x \in actionStore' \/ Settled(x.app)'
  BY SettledStays DEF RInv
<1>2. \A a \in signed' : Settled(a)'  BY SettledStays DEF RInv
<1>3. \A v \in running' : /\ v.pc = "removing" => v.act.kind = "remove"
                          /\ v.pc = "applied" /\ v.act.kind = "respond" => Settled(v.act.app)'
                          /\ v = [act |-> v.act, pc |-> v.pc]
  BY SettledStays DEF RInv
<1> QED  BY <1>1, <1>2, <1>3 DEF RInv

LEMMA RunActionKeeps ==
    ASSUME RInv, NEW t \in running, RunAction(t)
    PROVE  RInv'
<1>1. UNCHANGED signed  BY DEF RunAction, towerVars
<1>2. ASSUME NEW price \in NetworkPrice, Respond(t, price) PROVE RInv'
  <2> DEFINE a == t.act.app
             deadline == t.act.observed + a.period
  <2>1. UNCHANGED <<actionStore, issued>>  BY <1>2 DEF Respond
  <2>2. CASE Throws(t) /\ UNCHANGED queueVars
    <3>1. running' \subseteq running /\ UNCHANGED <<answered, refused>>
      BY <2>2 DEF Throws, queueVars
    <3> QED  BY <3>1, <2>1, <1>1, FewerRunningKeeps
  <2>3. CASE StartResponse(a, deadline, price) /\ SetPc(t, "applied")
    <3>1. Settled(a)' /\ answered \subseteq answered' /\ refused \subseteq refused'
      BY <2>3, StartResponseSettles
    <3> QED  BY <2>3, <3>1, <2>1, <1>1, SetPcKeeps
  <2> QED  BY <1>2, <2>2, <2>3 DEF Respond
<1>3. CASE StartRemoval(t)
  <2>1. /\ t.act.kind = "remove" /\ UNCHANGED <<actionStore, issued, answered, refused>>
        /\ SetPc(t, "removing") \/ SetPc(t, "applied")
    BY <1>3 DEF StartRemoval, queueVars
  <2> QED  BY <2>1, <1>1, SetPcKeeps
<1>4. CASE EndRemoval(t)
  <2>1. /\ t.pc = "removing" /\ UNCHANGED <<actionStore, issued, answered, refused>>
        /\ Throws(t) \/ SetPc(t, "applied")
    BY <1>4 DEF EndRemoval, queueVars
  <2>2. t.act.kind = "remove"  BY <2>1 DEF RInv
  <2>3. CASE Throws(t)
    <3>1. running' \subseteq running  BY <2>3 DEF Throws
    <3> QED  BY <3>1, <2>1, <1>1, FewerRunningKeeps
  <2>4. CASE SetPc(t, "applied")
    BY <2>1, <2>2, <2>4, <1>1, SetPcKeeps
  <2> QED  BY <2>1, <2>3, <2>4
<1>5. CASE RemoveAction(t)
  <2>1. /\ t.pc = "applied" /\ actionStore' = actionStore \ {t.act}
        /\ running' \subseteq running /\ UNCHANGED <<issued, answered, refused>>
    BY <1>5 DEF RemoveAction, queueVars
  <2>2. t.act.kind = "respond" => Settled(t.act.app)  BY <2>1 DEF RInv
  <2> QED  BY <2>1, <2>2, <1>1, FewerRunningKeeps
<1> QED  BY <1>2, <1>3, <1>4, <1>5 DEF RunAction

LEMMA ResponsesNext == RInv /\ [Next]_vars => RInv'
<1> SUFFICES ASSUME RInv, [Next]_vars PROVE RInv'  OBVIOUS
<1>1. ASSUME UNCHANGED <<actionVars, answered, refused, signed>> PROVE RInv'
  BY <1>1, FewerRunningKeeps DEF actionVars
<1>2. ASSUME NEW a \in Appointment, NEW price \in NetworkPrice, AddRelay(a, price)
      PROVE  RInv'
  <2>1. Settled(a)' /\ answered \subseteq answered' /\ refused \subseteq refused'
    BY <1>2, StartResponseSettles DEF AddRelay
  <2> QED  BY <1>2, <2>1, FewerRunningKeeps DEF AddRelay, actionVars
<1>3. CASE StoreActions /\ UNCHANGED towerVars
  <2>1. /\ actionStore' = actionStore \cup emitting.actions
        /\ running' = running \cup {[act |-> x, pc |-> "ready"] : x \in emitting.actions}
        /\ issued' = issued \cup emitting.actions
        /\ UNCHANGED <<answered, refused, signed>>
    BY <1>3 DEF StoreActions, queueVars, towerVars
  <2>2. \A x \in issued' : x.kind = "respond" => x \in actionStore' \/ Settled(x.app)'
    BY <2>1, SettledStays DEF RInv
  <2>3. \A a \in signed' : Settled(a)'  BY <2>1, SettledStays DEF RInv
  <2>4. \A v \in running' : /\ v.pc = "removing" => v.act.kind = "remove"
                            /\ v.pc = "applied" /\ v.act.kind = "respond" => Settled(v.act.app)'
                            /\ v = [act |-> v.act, pc |-> v.pc]
    BY <2>1, SettledStays DEF RInv
  <2> QED  BY <2>2, <2>3, <2>4 DEF RInv
<1>4. CASE Stop
  <2>1. /\ running' = {} /\ UNCHANGED <<actionStore, issued, answered, refused, signed>>
    BY <1>4 DEF Stop, queueVars
  <2> QED  BY <2>1, FewerRunningKeeps
<1>5. CASE StartMachine
  <2>1. /\ running' = {[act |-> x, pc |-> "applied"] :
                          x \in {y \in actionStore : y.kind = "remove"}}
        /\ UNCHANGED <<actionStore, issued, answered, refused, signed>>
    BY <1>5 DEF StartMachine, queueVars, towerVars
  <2>2. \A x \in issued' : x.kind = "respond" => x \in actionStore' \/ Settled(x.app)'
    BY <2>1, SettledStays DEF RInv
  <2>3. \A a \in signed' : Settled(a)'  BY <2>1, SettledStays DEF RInv
  <2>4. \A v \in running' : /\ v.pc = "removing" => v.act.kind = "remove"
                            /\ v.pc = "applied" /\ v.act.kind = "respond" => Settled(v.act.app)'
                            /\ v = [act |-> v.act, pc |-> v.pc]
    BY <2>1
  <2> QED  BY <2>2, <2>3, <2>4 DEF RInv
<1>6. ASSUME NEW t \in running, RunAction(t) PROVE RInv'
  BY <1>6, RunActionKeeps
<1>7. CASE UNCHANGED vars
  BY <1>1, <1>7 DEF vars, queueVars, towerVars
<1>8. CASE \E a \in Appointment : AddToWatch(a)
  BY <1>1, <1>8 DEF AddToWatch, queueVars, towerVars
<1>9. CASE \E c \in calls : ContinueCall(c)
  BY <1>1, <1>9 DEF ContinueCall, queueVars, towerVars
<1>10. CASE Chain
  BY <1>1, <1>10 DEF Chain, ReceiveBlock, NewHead, queueVars, towerVars
<1>11. CASE Confirmation
  BY <1>1, <1>11 DEF Confirmation, ResponseConfirmed, towerVars
<1>12. CASE (\E h \in Block : StartProcessor(h)) \/ StartStore \/ StartResponderStore
  BY <1>1, <1>12 DEF StartProcessor, StartStore, StartResponderStore, actionVars, queueVars,
                     towerVars
<1>13. CASE (WriteEmitted \/ StoreHeadNumber) /\ UNCHANGED towerVars
  BY <1>1, <1>13 DEF WriteEmitted, StoreHeadNumber, queueVars, towerVars
<1> QED
  BY <1>2, <1>3, <1>4, <1>5, <1>6, <1>7, <1>8, <1>9, <1>10, <1>11, <1>12, <1>13
  DEF Next, Api, Store, Starting

(* A response the watcher decided on is stored or answered, or it was tried *)
(* and given up: for a full queue, a call of the attempt that failed, or,   *)
(* with MAX_BLOCKS left and never otherwise, a gas curve without a second   *)
(* point; over any number of crashes.  So is every relay transaction a      *)
(* customer got a signature for.                                            *)
THEOREM ResponsesNeverVanish == Spec => []ResponsesAccountedFor
<1>1. Init => RInv  BY DEF Init, RInv
<1>2. RInv => ResponsesAccountedFor
  BY DEF RInv, ResponsesAccountedFor, Settled
<1> QED  BY <1>1, <1>2, ResponsesNext, PTL DEF Spec

-----------------------------------------------------------------------------
(* Heads *)

(* The actions stored, and those detected for the head being processed. *)
Decided == issued \cup emitting.actions

AnswerDecided(a) == \E x \in Decided : x.kind = "respond" /\ x.app = a

(* What is due in a state has its response, or has it once the actions that *)
(* were detected are stored.                                                *)
Covered(state) ==
    \A a \in DOMAIN state.items : ShouldHaveStartedResponder(state, a) => Answers(a)
Decides(state) ==
    \A a \in DOMAIN state.items : ShouldHaveStartedResponder(state, a) => AnswerDecided(a)

(* The states of a tower whose blocks all lie on their parents and got      *)
(* their state; what was emitted last below a block is covered, or was read *)
(* from disk, and then nothing is compared with it.                         *)
Undisturbed ==
    /\ prevEmitted = [b \in Block |-> prevEmitted[b]]
    /\ \A b \in cached : anchor[b] = Stale \/ anchor[b].number = Number[b]
    /\ \A b \in cached : \/ prevEmitted[b] = Stale
                         \/ prevEmitted[b].number \in Nat /\ Covered(prevEmitted[b])
    /\ emitting.pc \in {"actions", "batch"} =>
          emitting.head \in cached /\ Decides(anchor[emitting.head])
    /\ emitting.pc = "batch" => emitting.actions = {}

(* A block has no state before it is on disk. *)
StateShape ==
    /\ onDisk \subseteq cached /\ cached \subseteq Block
    /\ anchor = [b \in Block |-> anchor[b]]
    /\ \A b \in Block \ onDisk : anchor[b] = NoState

HInv == StateShape /\ (gaps = {} /\ NoBlockFailed => Undisturbed)

(* A block that lies off its parent is not forgotten. *)
LEMMA GapsStay == [Next]_vars => gaps \subseteq gaps'
<1> SUFFICES ASSUME [Next]_vars PROVE gaps \subseteq gaps'  OBVIOUS
<1>1. ASSUME NEW b \in Block, ReceiveBlock(b) PROVE gaps \subseteq gaps'
  BY <1>1 DEF ReceiveBlock, NoteGap
<1>2. CASE Stop
  BY <1>2 DEF Stop
<1>3. CASE UNCHANGED machineVars \/ \E b \in Block : NewHead(b)
  BY <1>3 DEF machineVars, NewHead
<1>4. CASE Api \/ (\E c \in calls : ContinueCall(c)) \/ (\E t \in running : RunAction(t))
  BY <1>3, <1>4 DEF Api, AddToWatch, AddRelay, ContinueCall, RunAction, Respond, StartRemoval,
                    EndRemoval, RemoveAction
<1>5. CASE Store
  BY <1>5 DEF Store, StoreActions, WriteEmitted, StoreHeadNumber
<1>6. CASE Confirmation \/ Starting
  BY <1>6 DEF Confirmation, ResponseConfirmed, Starting, StartMachine, StartProcessor,
              StartStore, StartResponderStore, machineVars
<1>7. CASE UNCHANGED vars
  BY <1>3, <1>7 DEF vars
<1> QED  BY <1>1, <1>2, <1>3, <1>4, <1>5, <1>6, <1>7 DEF Next, Chain

(* The actions detected for a head are what its state needs beyond the one  *)
(* it is compared with.                                                     *)
LEMMA ChangesCover ==
    ASSUME NEW STATE prev, NEW STATE state, NEW h, Covered(prev),
           NEW a \in DOMAIN state.items, ShouldHaveStartedResponder(state, a)
    PROVE  Answers(a) \/ \E x \in Changes(prev, state, h) : x.kind = "respond" /\ x.app = a
<1>1. CASE ShouldHaveStartedResponder(prev, a)
  <2>1. a \in DOMAIN prev.items
    BY <1>1 DEF ShouldHaveStartedResponder, Observed, ItemOf, NoItem
  <2> QED  BY <1>1, <2>1 DEF Covered
<1>2. CASE ~ShouldHaveStartedResponder(prev, a)
  <2> DEFINE x == Action("respond", a, ItemOf(state, a), h)
  <2>1. x.kind = "respond" /\ x.app = a  BY DEF Action
  <2>2. x \in Changes(prev, state, h)  BY <1>2 DEF Changes
  <2> QED  BY <2>1, <2>2
<1> QED  BY <1>1, <1>2

LEMMA NumberedStates ==
    ASSUME NEW STATE state, state.number \in Nat
    PROVE  state # NoState /\ state # Stale
<1>1. NoState.number = -1 /\ Stale.number = -2  BY DEF NoState, Stale
<1>2. state.number # -1 /\ state.number # -2  OBVIOUS
<1> QED  BY <1>1, <1>2

LEMMA StaleIsAState == Stale # NoState
<1>1. NoState.number = -1 /\ Stale.number = -2  BY DEF NoState, Stale
<1> QED  BY <1>1

(* The block and its parent. *)
LEMMA HeadsReceive ==
    ASSUME StateShape, Undisturbed, NEW b \in Block, ReceiveBlock(b), Parent[b] \in cached,
           anchor[b] = NoState, anchor'[b] # NoState
    PROVE  Undisturbed'
<1>1. /\ emitting = Idle /\ b \notin cached /\ cached' = cached \cup {b}
      /\ UNCHANGED <<emitting, issued>>
  BY DEF ReceiveBlock, actionVars
<1>2. ~ReduceThrows(b)  BY DEF ReceiveBlock
<1>3. /\ anchor' = [anchor EXCEPT ![b] = NewState(b)]
      /\ prevEmitted' = [prevEmitted EXCEPT ![b] = prevEmitted[Parent[b]]]
  BY <1>2 DEF ReceiveBlock, PrevEmittedBelow
<1>4. anchor'[b].number = Number[b]  BY <1>3 DEF NewState, StateShape
<1>5. \A x \in cached : x \in Block /\ x # b /\ anchor'[x] = anchor[x]
                        /\ prevEmitted'[x] = prevEmitted[x]
  BY <1>1, <1>3 DEF Undisturbed, StateShape
<1>6. prevEmitted'[b] = prevEmitted[Parent[b]]  BY <1>3 DEF Undisturbed
<1>7. \A x \in cached' : \E y \in cached : prevEmitted'[x] = prevEmitted[y]
  BY <1>1, <1>5, <1>6
<1>8. ASSUME NEW x \in cached'
      PROVE  \/ prevEmitted'[x] = Stale
             \/ prevEmitted'[x].number \in Nat /\ Covered(prevEmitted[x])'
  <2>1. PICK y \in cached : prevEmitted'[x] = prevEmitted[y]  BY <1>7
  <2>2. CASE prevEmitted[y] = Stale
    BY <2>1, <2>2
  <2>3. CASE prevEmitted[y].number \in Nat /\ Covered(prevEmitted[y])
    <3>1. Covered(prevEmitted[x])'
      BY <2>1, <2>3, <1>1 DEF Covered, Answers, ShouldHaveStartedResponder, ItemOf, Depth
    <3> QED  BY <2>1, <2>3, <3>1
  <2> QED  BY <2>2, <2>3 DEF Undisturbed
<1>9. prevEmitted' = [x \in Block |-> prevEmitted'[x]]  BY <1>3 DEF Undisturbed
<1>10. \A x \in cached' : anchor'[x] = Stale \/ anchor'[x].number = Number[x]
  BY <1>1, <1>4, <1>5 DEF Undisturbed
<1>11. emitting'.pc = "idle"  BY <1>1 DEF Idle
<1>12. Stale' = Stale  BY DEF Stale
<1> QED  BY <1>8, <1>9, <1>10, <1>11, <1>12 DEF Undisturbed

(* The steps that compare nothing and forget nothing. *)
LEMMA HeadsUnchanged ==
    ASSUME Undisturbed, UNCHANGED <<cached, anchor, prevEmitted>>, issued \subseteq issued',
           emitting' = emitting \/ emitting'.pc \notin {"actions", "batch"}
    PROVE  Undisturbed'
<1>1. ASSUME NEW x \in cached, prevEmitted[x].number \in Nat /\ Covered(prevEmitted[x])
      PROVE  Covered(prevEmitted[x])'
  BY <1>1 DEF Covered, Answers, ShouldHaveStartedResponder, ItemOf, Depth
<1>2. ASSUME emitting'.pc \in {"actions", "batch"}
      PROVE  emitting'.head \in cached' /\ Decides(anchor[emitting.head])'
  BY <1>2 DEF Undisturbed, Decides, AnswerDecided, Decided, ShouldHaveStartedResponder, ItemOf,
              Depth
<1>3. emitting'.pc = "batch" => emitting'.actions = {}  BY DEF Undisturbed
<1>4. Stale' = Stale  BY DEF Stale
<1> QED  BY <1>1, <1>2, <1>3, <1>4 DEF Undisturbed

LEMMA HeadsNewHead ==
    ASSUME StateShape, Undisturbed, NEW h \in Block, NewHead(h)
    PROVE  Undisturbed'
<1> DEFINE state == anchor[h]
           prev == prevEmitted[h]
<1>1. /\ h \in cached /\ emitting = Idle
      /\ UNCHANGED <<cached, anchor, prevEmitted, issued>>
  BY DEF NewHead, actionVars
<1>2. state # NoState /\ prev # NoState
  <2>1. /\ state = Stale \/ state.number \in Nat
        /\ prev = Stale \/ prev.number \in Nat
    BY <1>1, WatcherAssumption DEF Undisturbed
  <2> QED  BY <2>1, NumberedStates, StaleIsAState
<1>3. CASE DetectThrows(prev, state)
  <2>1. UNCHANGED emitting  BY <1>2, <1>3 DEF NewHead, Emit
  <2> QED  BY <2>1, <1>1, HeadsUnchanged
<1>4. CASE ~DetectThrows(prev, state)
  <2> DEFINE due == Changes(prev, state, h)
  <2>1. /\ emitting'.head = h /\ emitting'.actions = due
        /\ emitting'.pc = IF due = {} THEN "batch" ELSE "actions"
    BY <1>2, <1>4 DEF NewHead, Emit
  <2>2. ASSUME NEW a \in DOMAIN state.items, ShouldHaveStartedResponder(state, a)
        PROVE  \E x \in issued \cup due : x.kind = "respond" /\ x.app = a
    <3>1. prev # Stale  BY <1>4, <2>2 DEF DetectThrows
    <3>2. Covered(prev)  BY <1>1, <3>1 DEF Undisturbed
    <3>3. Answers(a) \/ \E x \in due : x.kind = "respond" /\ x.app = a
      BY <2>2, <3>2, ChangesCover
    <3> QED  BY <3>3 DEF Answers
  <2> HIDE DEF due
  <2>3. Decides(anchor[emitting.head])'
    BY <1>1, <2>1, <2>2 DEF Decides, AnswerDecided, Decided, ShouldHaveStartedResponder, ItemOf,
                            Depth
  <2>4. \A x \in cached : Covered(prevEmitted[x]) => Covered(prevEmitted[x])'
    BY <1>1 DEF Covered, Answers, ShouldHaveStartedResponder, ItemOf, Depth
  <2>5. Stale' = Stale  BY DEF Stale
  <2> QED  BY <1>1, <2>1, <2>3, <2>4, <2>5 DEF Undisturbed
<1> QED  BY <1>3, <1>4

(* The actions detected are stored, and so the state is covered. *)
LEMMA HeadsStore ==
    ASSUME Undisturbed, StoreActions
    PROVE  Undisturbed'
<1>1. /\ emitting.pc = "actions" /\ issued' = issued \cup emitting.actions
      /\ emitting'.head = emitting.head /\ emitting'.actions = {} /\ emitting'.pc = "batch"
      /\ UNCHANGED <<cached, anchor, prevEmitted>>
  BY DEF StoreActions, Emit
<1>2. Decided' = Decided  BY <1>1 DEF Decided
<1>3. Decides(anchor[emitting.head])'
  BY <1>1, <1>2 DEF Undisturbed, Decides, AnswerDecided, ShouldHaveStartedResponder, ItemOf,
                    Depth
<1>4. \A x \in cached : Covered(prevEmitted[x]) => Covered(prevEmitted[x])'
  BY <1>1 DEF Covered, Answers, ShouldHaveStartedResponder, ItemOf, Depth
<1>5. Stale' = Stale  BY DEF Stale
<1> QED  BY <1>1, <1>3, <1>4, <1>5 DEF Undisturbed

(* When the state of a head becomes the one emitted last, all it needs has  *)
(* its response.                                                            *)
LEMMA HeadsEmitted ==
    ASSUME StateShape, Undisturbed, WriteEmitted
    PROVE  Undisturbed'
<1> DEFINE h == emitting.head
<1>1. /\ emitting.pc = "batch" /\ emitting'.pc = "number"
      /\ prevEmitted' = [prevEmitted EXCEPT ![h] = anchor[h]]
      /\ UNCHANGED <<cached, anchor, issued>>
  BY DEF WriteEmitted, Emit, actionVars
<1>2. /\ h \in cached /\ h \in Block /\ Decided = issued /\ Decides(anchor[h])
  BY <1>1 DEF Undisturbed, StateShape, Decided
<1>3. prevEmitted'[h] = anchor[h] /\ \A x \in cached : x # h => prevEmitted'[x] = prevEmitted[x]
  BY <1>1, <1>2 DEF Undisturbed, StateShape
<1>4. ASSUME NEW x \in cached
      PROVE  \/ prevEmitted'[x] = Stale
             \/ prevEmitted'[x].number \in Nat /\ Covered(prevEmitted[x])'
  <2>1. CASE x = h
    <3>1. anchor[h] = Stale \/ anchor[h].number \in Nat
      BY <1>2, WatcherAssumption DEF Undisturbed
    <3>2. Covered(anchor[h])
      BY <1>2 DEF Covered, Decides, AnswerDecided, Answers
    <3>3. Covered(prevEmitted[x])'
      BY <2>1, <3>2, <1>1, <1>3
      DEF Covered, Answers, ShouldHaveStartedResponder, ItemOf, Depth
    <3> QED  BY <2>1, <3>1, <3>3, <1>3
  <2>2. CASE x # h
    <3>1. prevEmitted'[x] = prevEmitted[x] /\ issued' = issued  BY <1>1, <1>3, <2>2
    <3>2. CASE prevEmitted[x] = Stale
      BY <3>1, <3>2
    <3>3. CASE prevEmitted[x].number \in Nat /\ Covered(prevEmitted[x])
      <4>1. Covered(prevEmitted[x])'
        BY <3>1, <3>3 DEF Covered, Answers, ShouldHaveStartedResponder, ItemOf, Depth
      <4> QED  BY <3>1, <3>3, <4>1
    <3> QED  BY <3>2, <3>3 DEF Undisturbed
  <2> QED  BY <2>1, <2>2
<1>5. prevEmitted' = [x \in Block |-> prevEmitted'[x]]  BY <1>1 DEF Undisturbed
<1>6. Stale' = Stale  BY DEF Stale
<1> QED  BY <1>1, <1>4, <1>5, <1>6 DEF Undisturbed

(* The disk holds the whole cache, and all its states are read from there. *)
LEMMA HeadsStop ==
    ASSUME StateShape, NoBlockFailed, Undisturbed, Stop, gaps' = {}
    PROVE  Undisturbed'
<1>1. /\ cached = onDisk /\ cached' = onDisk /\ emitting' = Idle
      /\ anchor' = StaleOf(anchor) /\ prevEmitted' = StaleOf(prevEmitted)
  BY DEF Stop
<1>2. \A b \in onDisk : anchor'[b] = Stale
  BY <1>1 DEF StaleOf, NoBlockFailed, StateShape
<1>3. ASSUME NEW b \in onDisk PROVE prevEmitted'[b] = Stale
  <2>1. prevEmitted[b] = Stale \/ prevEmitted[b].number \in Nat
    BY <1>1 DEF Undisturbed
  <2>2. prevEmitted[b] # NoState  BY <2>1, NumberedStates, StaleIsAState
  <2>3. b \in Block  BY DEF StateShape
  <2> QED  BY <1>1, <2>2, <2>3 DEF StaleOf
<1>4. prevEmitted' = [x \in Block |-> prevEmitted'[x]]  BY <1>1 DEF StaleOf
<1>5. emitting'.pc = "idle"  BY <1>1 DEF Idle
<1>6. Stale' = Stale  BY DEF Stale
<1> QED  BY <1>1, <1>2, <1>3, <1>4, <1>5, <1>6 DEF Undisturbed

LEMMA StatesReceive ==
    ASSUME StateShape, NEW b \in Block, ReceiveBlock(b)
    PROVE  /\ StateShape' /\ anchor[b] = NoState
           /\ NoBlockFailed' => NoBlockFailed /\ anchor'[b] # NoState
<1>1. /\ b \notin cached /\ cached' = cached \cup {b}
      /\ \/ onDisk' = onDisk /\ anchor' = anchor
         \/ onDisk' = onDisk \cup {b} /\ anchor' = [anchor EXCEPT ![b] = NewState(b)]
  BY DEF ReceiveBlock
<1>2. anchor[b] = NoState  BY <1>1 DEF StateShape
<1>3. \A x \in Block : x # b => anchor'[x] = anchor[x]
  BY <1>1 DEF StateShape
<1>4. anchor' = [x \in Block |-> anchor'[x]]  BY <1>1 DEF StateShape
<1>5. NoState' = NoState  BY DEF NoState
<1>6. \A x \in Block \ onDisk' : anchor'[x] = NoState
  BY <1>1, <1>3 DEF StateShape
<1>7. StateShape'
  BY <1>1, <1>4, <1>5, <1>6 DEF StateShape
<1>8. ASSUME NoBlockFailed' PROVE NoBlockFailed /\ anchor'[b] # NoState
  BY <1>1, <1>3, <1>5, <1>8 DEF StateShape, NoBlockFailed
<1> QED  BY <1>2, <1>7, <1>8

LEMMA StatesStop ==
    ASSUME StateShape, Stop
    PROVE  StateShape' /\ (NoBlockFailed' /\ gaps' = {} => NoBlockFailed)
<1>1. /\ cached' = onDisk /\ onDisk' = onDisk /\ anchor' = StaleOf(anchor)
  BY DEF Stop
<1>2. anchor' = [b \in Block |-> anchor'[b]] /\ \A b \in Block \ onDisk : anchor'[b] = NoState
  BY <1>1 DEF StaleOf
<1>3. NoState' = NoState  BY DEF NoState
<1>4. StateShape'  BY <1>1, <1>2, <1>3 DEF StateShape
<1>5. ASSUME NoBlockFailed', gaps' = {} PROVE NoBlockFailed
  <2>1. cached = onDisk  BY <1>5 DEF Stop
  <2>2. \A b \in onDisk : anchor'[b] # NoState  BY <1>1, <1>3, <1>5 DEF NoBlockFailed
  <2> QED  BY <1>1, <2>1, <2>2 DEF NoBlockFailed, StaleOf, StateShape
<1> QED  BY <1>4, <1>5

LEMMA HeadsNext == HInv /\ [Next]_vars => HInv'
<1> SUFFICES ASSUME HInv, [Next]_vars PROVE HInv'  OBVIOUS
<1>0. gaps' = {} => gaps = {}  BY GapsStay
<1>1. ASSUME UNCHANGED <<cached, onDisk, anchor>>
      PROVE  StateShape' /\ NoBlockFailed' = NoBlockFailed
  BY <1>1 DEF HInv, StateShape, NoBlockFailed, NoState
<1>2. ASSUME UNCHANGED <<cached, onDisk, anchor, prevEmitted, issued>>,
             emitting' = emitting \/ emitting'.pc \notin {"actions", "batch"}
      PROVE  HInv'
  BY <1>0, <1>1, <1>2, HeadsUnchanged DEF HInv
<1>3. ASSUME NEW b \in Block, ReceiveBlock(b) PROVE HInv'
  <2>1. gaps' = {} => Parent[b] \in cached  BY <1>3 DEF ReceiveBlock, NoteGap
  <2> QED  BY <1>0, <1>3, <2>1, StatesReceive, HeadsReceive DEF HInv
<1>4. ASSUME NEW b \in Block, NewHead(b) PROVE HInv'
  <2>1. UNCHANGED <<cached, onDisk, anchor>>  BY <1>4 DEF NewHead
  <2> QED  BY <1>0, <1>1, <1>4, <2>1, HeadsNewHead DEF HInv
<1>5. CASE Store
  <2>1. UNCHANGED <<cached, onDisk, anchor>>
    BY <1>5 DEF Store, StoreActions, WriteEmitted, StoreHeadNumber
  <2>2. CASE StoreActions \/ WriteEmitted
    BY <1>0, <1>1, <2>1, <2>2, HeadsStore, HeadsEmitted DEF HInv
  <2>3. CASE StoreHeadNumber
    <3>1. emitting'.pc = "idle"  BY <2>3 DEF StoreHeadNumber, Idle
    <3> QED  BY <1>2, <2>3, <3>1 DEF StoreHeadNumber, actionVars
  <2> QED  BY <1>5, <2>2, <2>3 DEF Store
<1>6. CASE Stop
  BY <1>0, <1>6, StatesStop, HeadsStop DEF HInv
<1>7. CASE Api
  BY <1>2, <1>7 DEF Api, AddToWatch, AddRelay, machineVars, actionVars
<1>8. CASE \E c \in calls : ContinueCall(c)
  BY <1>2, <1>8 DEF ContinueCall, machineVars, actionVars
<1>9. CASE \E t \in running : RunAction(t)
  BY <1>2, <1>9 DEF RunAction, Respond, StartRemoval, EndRemoval, RemoveAction, machineVars
<1>10. CASE Confirmation
  BY <1>2, <1>10 DEF Confirmation, ResponseConfirmed, machineVars, actionVars
<1>11. CASE Starting
  BY <1>2, <1>11 DEF Starting, StartMachine, StartProcessor, StartStore, StartResponderStore,
                     machineVars, actionVars
<1>12. CASE UNCHANGED vars
  BY <1>2, <1>12 DEF vars, machineVars, actionVars
<1> QED
  BY <1>3, <1>4, <1>5, <1>6, <1>7, <1>8, <1>9, <1>10, <1>11, <1>12 DEF Next, Chain

LEMMA HeadsInit == Init => HInv
<1> SUFFICES ASSUME Init PROVE HInv  OBVIOUS
<1>1. Root \in Block /\ Number[Root] \in Nat
  BY TowerAssumption, WatcherAssumption
<1>2. anchor = NothingKnown /\ prevEmitted = NothingKnown /\ cached = {Root}
      /\ onDisk = {Root} /\ emitting.pc = "idle"
  BY DEF Init, Idle
<1>3. NothingKnown[Root] = [number |-> Number[Root], items |-> <<>>]
  BY <1>1 DEF NothingKnown
<1>4. NothingKnown = [b \in Block |-> NothingKnown[b]]  BY DEF NothingKnown
<1>5. Covered(NothingKnown[Root])
  <2>1. DOMAIN NothingKnown[Root].items = {}  BY <1>3
  <2> QED  BY <2>1 DEF Covered
<1>6. \A b \in Block \ {Root} : NothingKnown[b] = NoState  BY DEF NothingKnown
<1>7. StateShape  BY <1>1, <1>2, <1>4, <1>6 DEF StateShape
<1>8. Undisturbed  BY <1>1, <1>2, <1>3, <1>4, <1>5 DEF Undisturbed
<1> QED  BY <1>7, <1>8 DEF HInv

(* While every block lies on its parent and got its state, an event that    *)
(* lies deep enough on the chain of a head that was processed to its end    *)
(* has its response: for any block tree, whichever heads were skipped,      *)
(* failed or came in what order, and wherever the tower was stopped.        *)
THEOREM ProcessedHeadsAreAnswered == Spec => []AnsweredUnlessBlockFailed
<1>1. Init => HInv  BY HeadsInit
<1>2. HInv => AnsweredUnlessBlockFailed
  <2> SUFFICES ASSUME HInv, gaps = {}, NoBlockFailed,
                      NEW h \in cached, anchor[h] # Stale, prevEmitted[h] = anchor[h],
                      NEW a \in DOMAIN anchor[h].items,
                      Observed(anchor[h].items[a]),
                      Number[h] - anchor[h].items[a] + 1 >= ConfirmationsBeforeResponse
               PROVE  Answers(a)
    BY DEF AnsweredUnlessBlockFailed, EveryProcessedHeadAnswered
  <2>1. Covered(anchor[h]) /\ anchor[h].number = Number[h]  BY DEF HInv, Undisturbed
  <2>2. ShouldHaveStartedResponder(anchor[h], a)
    BY <2>1 DEF ShouldHaveStartedResponder, ItemOf, Depth
  <2> QED  BY <2>1, <2>2 DEF Covered
<1> QED  BY <1>1, <1>2, HeadsNext, PTL DEF Spec

-----------------------------------------------------------------------------
(* Ancestries *)

LEMMA SmallestOf ==
    ASSUME NEW S \in SUBSET Nat, S # {}
    PROVE  \E m \in S : \A n \in S : m <= n
<1>1. IsWellFoundedOn(OpToRel(<, Nat), Nat)  BY NatLessThanWellFounded
<1>2. PICK m \in S : \A n \in S : ~ (<<n, m>> \in OpToRel(<, Nat))
  <2> HIDE DEF IsWellFoundedOn, OpToRel
  <2> QED  BY <1>1, WFMin
<1>3. \A n \in S : n < m => <<n, m>> \in OpToRel(<, Nat)  BY DEF OpToRel
<1>4. \A n \in S : ~ (n < m)  BY <1>2, <1>3, Zenon
<1>5. m \in Nat /\ \A n \in S : n \in Nat  OBVIOUS
<1>6. \A n \in S : m <= n  BY <1>4, <1>5
<1> QED  BY <1>6

LEMMA LargestOf ==
    ASSUME NEW S \in SUBSET Nat, S # {}, NEW bound \in Nat, \A n \in S : n <= bound
    PROVE  \E m \in S : \A n \in S : n <= m
<1> DEFINE T == {bound - n : n \in S}
<1>1. \A n \in S : bound - n \in Nat  OBVIOUS
<1>2. T \in SUBSET Nat /\ T # {}  BY <1>1
<1>3. PICK k \in T : \A t \in T : k <= t
  <2> HIDE DEF T
  <2> QED  BY <1>2, SmallestOf
<1>4. PICK m \in S : k = bound - m  OBVIOUS
<1>5. ASSUME NEW n \in S PROVE n <= m
  <2>1. k <= bound - n  BY <1>3
  <2> QED  BY <1>4, <2>1
<1> QED  BY <1>5

(* A set of blocks has a lowest one. *)
LEMMA LowestBlock ==
    ASSUME NEW T \in SUBSET Block, T # {}
    PROVE  \E b \in T : Parent[b] \notin T
<1> DEFINE S == {Number[b] : b \in T}
<1>1. S \in SUBSET Nat /\ S # {}  BY WatcherAssumption
<1>2. PICK m \in S : \A n \in S : m <= n  BY <1>1, SmallestOf
<1>3. PICK b \in T : m = Number[b]  OBVIOUS
<1>4. ASSUME Parent[b] \in T PROVE FALSE
  <2>1. Number[b] = Number[Parent[b]] + 1 /\ Number[Parent[b]] \in Nat
    BY <1>4, WatcherAssumption
  <2>2. m <= Number[Parent[b]]  BY <1>2, <1>4
  <2> QED  BY <1>3, <2>1, <2>2
<1> QED  BY <1>4

(* Following the parents within S from a block: the recursive functions of  *)
(* the model that do so have a solution, so they are that solution.         *)
Closed(W, S) == \A y \in W : Parent[y] \in S => Parent[y] \in W
Reached(b, S) ==
    {x \in Block : \A W \in SUBSET Block : b \in W /\ Closed(W, S) => x \in W}

LEMMA ReachedDef ==
    ASSUME NEW S \in SUBSET Block, NEW b \in Block
    PROVE  Reached(b, S) = {b} \cup (IF Parent[b] \in S THEN Reached(Parent[b], S) ELSE {})
<1> DEFINE U == {b} \cup (IF Parent[b] \in S THEN Reached(Parent[b], S) ELSE {})
<1>1. U \subseteq Reached(b, S)  BY DEF Reached, Closed
<1>2. b \in U /\ U \in SUBSET Block  BY DEF Reached
<1>3. Closed(U, S)  BY DEF Reached, Closed
<1> QED  BY <1>1, <1>2, <1>3 DEF Reached

LEMMA AncestryDef ==
    ASSUME NEW b \in Block
    PROVE  Ancestry[b] = {b} \cup (IF Parent[b] \in Block THEN Ancestry[Parent[b]] ELSE {})
<1> DEFINE G == [x \in Block |-> Reached(x, Block)]
<1>1. G = [x \in Block |-> {x} \cup (IF Parent[x] \in Block THEN G[Parent[x]] ELSE {})]
  <2>1. \A x \in Block : G[x] = Reached(x, Block)  OBVIOUS
  <2> QED  BY ReachedDef, <2>1
<1>2. \E g : g = [x \in Block |-> {x} \cup (IF Parent[x] \in Block THEN g[Parent[x]] ELSE {})]
  BY <1>1
<1>3. Ancestry = [x \in Block |-> {x} \cup (IF Parent[x] \in Block THEN Ancestry[Parent[x]]
                                                                   ELSE {})]
  BY <1>2, Zenon DEF Ancestry
<1> QED  BY <1>3

LEMMA CachedAncestryDef ==
    ASSUME cached \subseteq Block, NEW b \in Block
    PROVE  CachedAncestry(b) =
               {b} \cup (IF Parent[b] \in cached THEN CachedAncestry(Parent[b]) ELSE {})
<1> DEFINE G == [x \in Block |-> Reached(x, cached)]
           up == CHOOSE g : g = [x \in Block |->
                     {x} \cup (IF Parent[x] \in cached THEN g[Parent[x]] ELSE {})]
<1>1. G = [x \in Block |-> {x} \cup (IF Parent[x] \in cached THEN G[Parent[x]] ELSE {})]
  <2>1. \A x \in Block : G[x] = Reached(x, cached)  OBVIOUS
  <2> QED  BY ReachedDef, <2>1
<1>2. \E g : g = [x \in Block |-> {x} \cup (IF Parent[x] \in cached THEN g[Parent[x]] ELSE {})]
  BY <1>1
<1>3. up = [x \in Block |-> {x} \cup (IF Parent[x] \in cached THEN up[Parent[x]] ELSE {})]
  BY <1>2, Zenon
<1>4. \A x : CachedAncestry(x) = up[x]  BY DEF CachedAncestry
<1> HIDE DEF up
<1> QED  BY <1>3, <1>4
LEMMA AncestryBelow ==
    ASSUME NEW b \in Block
    PROVE  /\ b \in Ancestry[b] /\ Ancestry[b] \subseteq Block
           /\ \A x \in Ancestry[b] : Number[x] <= Number[b]
<1> DEFINE Below(x) == /\ Ancestry[x] \subseteq Block
                       /\ \A y \in Ancestry[x] : Number[y] <= Number[x]
           T == {x \in Block : ~Below(x)}
<1>1. T = {}
  <2> SUFFICES ASSUME T # {} PROVE FALSE  OBVIOUS
  <2>1. PICK x \in T : Parent[x] \notin T  BY LowestBlock
  <2>2. CASE Parent[x] \in Block
    <3>1. Below(Parent[x])  BY <2>1, <2>2
    <3>2. Number[x] = Number[Parent[x]] + 1 /\ Number[Parent[x]] \in Nat
      BY <2>2, WatcherAssumption
    <3>3. \A y \in Ancestry[Parent[x]] : Number[y] \in Nat  BY <3>1, WatcherAssumption
    <3>4. Ancestry[x] = {x} \cup Ancestry[Parent[x]]  BY <2>2, AncestryDef
    <3>5. Below(x)  BY <3>1, <3>2, <3>3, <3>4
    <3> QED  BY <3>5, <2>1
  <2>3. CASE Parent[x] \notin Block
    <3>1. Ancestry[x] = {x} /\ Number[x] \in Nat  BY <2>3, AncestryDef, WatcherAssumption
    <3> QED  BY <3>1, <2>1
  <2> QED  BY <2>2, <2>3
<1>2. b \in Ancestry[b]  BY AncestryDef
<1> QED  BY <1>1, <1>2

(* The machine's own walk stops where a parent is not in the cache. *)
LEMMA CachedAncestryBelow ==
    ASSUME cached \subseteq Block, NEW b \in Block
    PROVE  /\ CachedAncestry(b) \subseteq Block
           /\ \A x \in CachedAncestry(b) : Number[x] <= Number[b]
<1> DEFINE Below(x) == /\ CachedAncestry(x) \subseteq Block
                       /\ \A y \in CachedAncestry(x) : Number[y] <= Number[x]
           T == {x \in Block : ~Below(x)}
<1>1. T = {}
  <2> SUFFICES ASSUME T # {} PROVE FALSE  OBVIOUS
  <2>1. PICK x \in T : Parent[x] \notin T  BY LowestBlock
  <2>2. CASE Parent[x] \in cached
    <3>1. Below(Parent[x])  BY <2>1, <2>2
    <3>2. Number[x] = Number[Parent[x]] + 1 /\ Number[Parent[x]] \in Nat
      BY <2>2, WatcherAssumption
    <3>3. \A y \in CachedAncestry(Parent[x]) : Number[y] \in Nat
      BY <3>1, WatcherAssumption
    <3>4. CachedAncestry(x) = {x} \cup CachedAncestry(Parent[x])
      BY <2>2, CachedAncestryDef
    <3>5. Below(x)  BY <3>1, <3>2, <3>3, <3>4
    <3> QED  BY <3>5, <2>1
  <2>3. CASE Parent[x] \notin cached
    <3>1. CachedAncestry(x) = {x} /\ Number[x] \in Nat
      BY <2>3, CachedAncestryDef, WatcherAssumption
    <3> QED  BY <3>1, <2>1
  <2> QED  BY <2>2, <2>3
<1> QED  BY <1>1

(* Where no block is missing, it finds every ancestor. *)
Unbroken == \A b \in cached : b = Root \/ Parent[b] \in cached

LEMMA CachedAncestryIsAncestry ==
    ASSUME cached \subseteq Block, Unbroken,
           NEW b \in Block, b \in cached \/ Parent[b] \in cached
    PROVE  CachedAncestry(b) = Ancestry[b]
<1> DEFINE T == {x \in Block : /\ x \in cached \/ Parent[x] \in cached
                               /\ CachedAncestry(x) # Ancestry[x]}
<1>1. T = {}
  <2> SUFFICES ASSUME T # {} PROVE FALSE  OBVIOUS
  <2>1. PICK x \in T : Parent[x] \notin T  BY LowestBlock
  <2>2. CASE Parent[x] \in cached
    <3>1. CachedAncestry(Parent[x]) = Ancestry[Parent[x]]  BY <2>1, <2>2
    <3>2. CachedAncestry(x) = {x} \cup CachedAncestry(Parent[x])
      BY <2>2, CachedAncestryDef
    <3>3. Ancestry[x] = {x} \cup Ancestry[Parent[x]]  BY <2>2, AncestryDef
    <3> QED  BY <3>1, <3>2, <3>3, <2>1
  <2>3. CASE Parent[x] \notin cached
    <3>1. Parent[x] \notin Block  BY <2>1, <2>3, TowerAssumption DEF Unbroken
    <3>2. CachedAncestry(x) = {x}  BY <2>3, CachedAncestryDef
    <3>3. Ancestry[x] = {x}  BY <3>1, AncestryDef
    <3> QED  BY <3>2, <3>3, <2>1
  <2> QED  BY <2>2, <2>3
<1> QED  BY <1>1

-----------------------------------------------------------------------------
(* Items *)

(* What the chain up to b says of an appointment. *)
Right(item, b, a) ==
    IF item = Watching
    THEN \A x \in EventBlocks(a, b) : Number[x] < a.start
    ELSE \E x \in EventBlocks(a, b) : Number[x] = item

LEMMA InitialItemIs ==
    ASSUME cached \subseteq Block, NEW b \in Block, NEW a
    PROVE  LET E == {y \in CachedAncestry(b) : HasEvent(y, a) /\ Number[y] >= a.start}
           IN  \/ InitialItem(b, a) = Watching /\ E = {}
               \/ \E y \in E : InitialItem(b, a) = Number[y] /\ Number[y] \in 0 .. Number[b]
<1> DEFINE E == {y \in CachedAncestry(b) : HasEvent(y, a) /\ Number[y] >= a.start}
           events == {Number[x] : x \in E}
<1>1. CASE events = {}
  <2>1. InitialItem(b, a) = Watching  BY <1>1 DEF InitialItem
  <2> QED  BY <1>1, <2>1
<1>2. CASE events # {}
  <2>1. Number[b] \in Nat  BY WatcherAssumption
  <2>2. \A y \in E : Number[y] \in Nat /\ Number[y] <= Number[b]
    BY CachedAncestryBelow, WatcherAssumption
  <2>3. events \in SUBSET Nat /\ \A n \in events : n <= Number[b]  BY <2>2
  <2>4. \E m \in events : \A n \in events : n <= m
    <3> HIDE DEF events
    <3> QED  BY <1>2, <2>1, <2>3, LargestOf
  <2>5. InitialItem(b, a) = CHOOSE n \in events : \A m \in events : m <= n
    BY <1>2 DEF InitialItem
  <2>6. InitialItem(b, a) \in events
    <3> HIDE DEF events
    <3> QED  BY <2>4, <2>5
  <2> QED  BY <2>1, <2>2, <2>6
<1> QED  BY <1>1, <1>2

LEMMA InitialItemRight ==
    ASSUME cached \subseteq Block, Unbroken, NEW a \in Appointment,
           NEW b \in Block, b \in cached \/ Parent[b] \in cached
    PROVE  Right(InitialItem(b, a), b, a)
<1> DEFINE E == {y \in Ancestry[b] : HasEvent(y, a) /\ Number[y] >= a.start}
<1>1. CachedAncestry(b) = Ancestry[b]  BY CachedAncestryIsAncestry
<1>2. \/ InitialItem(b, a) = Watching /\ E = {}
      \/ \E y \in E : InitialItem(b, a) = Number[y] /\ Number[y] \in 0 .. Number[b]
  BY <1>1, InitialItemIs
<1>3. CASE InitialItem(b, a) = Watching /\ E = {}
  <2>1. ASSUME NEW x \in EventBlocks(a, b) PROVE Number[x] < a.start
    <3>1. x \in Ancestry[b] /\ HasEvent(x, a)  BY DEF EventBlocks
    <3>2. Number[x] \in Nat /\ a.start \in Int
      BY <3>1, AncestryBelow, WatcherAssumption, TowerAssumption
    <3>3. ~ (Number[x] >= a.start)  BY <1>3, <3>1
    <3> QED  BY <3>2, <3>3
  <2> QED  BY <1>3, <2>1 DEF Right
<1>4. CASE \E y \in E : InitialItem(b, a) = Number[y] /\ Number[y] \in 0 .. Number[b]
  <2>1. PICK y \in E : InitialItem(b, a) = Number[y] /\ Number[y] \in 0 .. Number[b]
    BY <1>4
  <2>2. InitialItem(b, a) # Watching  BY <2>1 DEF Watching
  <2>3. y \in EventBlocks(a, b)  BY DEF EventBlocks
  <2> QED  BY <2>1, <2>2, <2>3 DEF Right
<1> QED  BY <1>2, <1>3, <1>4

(* An item that is right for the parent is reduced to one that is right for *)
(* the block.                                                               *)
LEMMA ReduceItemRight ==
    ASSUME NEW a, NEW b \in Block, Parent[b] \in Block, NEW item,
           Right(item, Parent[b], a)
    PROVE  Right(ReduceItem(item, b, a), b, a)
<1>1. Ancestry[b] = {b} \cup Ancestry[Parent[b]]  BY AncestryDef
<1>2. EventBlocks(a, Parent[b]) \subseteq EventBlocks(a, b)
  BY <1>1 DEF EventBlocks
<1>3. CASE item = Watching /\ HasEvent(b, a)
  <2>1. b \in EventBlocks(a, b)  BY <1>1, <1>3 DEF EventBlocks
  <2>2. ReduceItem(item, b, a) = Number[b] /\ Number[b] # Watching
    BY <1>3, WatcherAssumption DEF ReduceItem, Watching
  <2> QED  BY <2>1, <2>2 DEF Right
<1>4. CASE item = Watching /\ ~HasEvent(b, a)
  <2>1. EventBlocks(a, b) = EventBlocks(a, Parent[b])
    BY <1>1, <1>4 DEF EventBlocks
  <2> QED  BY <1>4, <2>1 DEF Right, ReduceItem
<1>5. CASE item # Watching
  BY <1>2, <1>5 DEF Right, ReduceItem
<1> QED  BY <1>3, <1>4, <1>5
-----------------------------------------------------------------------------
(* The watcher's invariant *)

InRange(item, b) == item = Watching \/ item \in 0 .. Number[b]

(* The states computed by this process, not read from disk. *)
Fresh(b) == anchor[b] \notin {NoState, Stale}

StatesTyped ==
    \A b \in cached : Fresh(b) =>
        /\ anchor[b].number = Number[b]
        /\ DOMAIN anchor[b].items \subseteq Appointment
        /\ \A a \in DOMAIN anchor[b].items : InRange(anchor[b].items[a], b)

Active == phase \in {"emitting", "started"}

(* One head is processed at a time, the last one. *)
HeadTyped ==
    /\ phase \in {"down", "booting", "emitting", "started"} /\ loaded \in BOOLEAN
    /\ loaded => Active
    /\ phase = "started" => loaded
    /\ head \in cached \cup {NoBlock}
    /\ storedHead \in {Number[b] : b \in Block}
    /\ Active => head \in cached
    /\ emitting.pc \in {"idle", "actions", "batch", "number"}
    /\ emitting.pc # "actions" => emitting.actions = {}
    /\ emitting.pc # "idle" => Active /\ emitting.head = head
    /\ \A x \in emitting.actions : x.at = head

(* Every running action is another one, and in the database: what a head    *)
(* decides was not decided before, as no head comes twice while its state   *)
(* is known, and one that was stored before a stop has none.                *)
ActionsTyped ==
    /\ \A t \in running : t.act \in actionStore
    /\ \A t, u \in running : t.act = u.act => t = u
    /\ actionStore \subseteq issued
    /\ \A x \in issued : /\ x.at \in onDisk
                         /\ Fresh(x.at) => Active /\ Number[x.at] <= Number[head]
    /\ emitting.pc = "actions" => Fresh(head) /\ \A x \in issued : x.at # head
    /\ \A x \in Decided : x.kind = "respond" => x.observed \in 0 .. Number[x.at]

QueueTyped ==
    /\ \A q \in queue \cup storedQueue : q.app \in answered /\ q.gas \in 1 .. MaxGasPrice
    /\ failures \in 0 .. MaxFailures
    /\ signed \subseteq Appointment

HistoryTyped ==
    /\ restarts \in 0 .. MaxRestarts
    /\ minHeight \in Nat /\ gaps \subseteq {"empty", "height", "torn"}

TInv == StateShape /\ StatesTyped /\ HeadTyped /\ ActionsTyped /\ QueueTyped /\ HistoryTyped

(* A removal in the store is one that the watcher decided on. *)
Removals ==
    \A c \in calls : c.op = "remove" =>
        c.by \in issued /\ c.by.kind = "remove" /\ c.by.app = c.app

StatesRight ==
    \A b \in cached : Fresh(b) =>
        \A a \in DOMAIN anchor[b].items : Right(anchor[b].items[a], b, a)

Justified(x) == Fulfilled(x.app, x.at) \/ Expired(x.app, x.at)

Held(a) ==
    \/ \E d \in disk : d.locator = a.locator /\ d.nonce >= a.nonce
    \/ \E x \in issued : /\ x.kind = "remove" /\ Justified(x)
                          /\ x.app.locator = a.locator /\ x.app.nonce >= a.nonce

(* A tower whose blocks all lie on their parents: what the states say is    *)
(* right, what they made the watcher decide is justified, and nothing else  *)
(* removes an appointment.                                                  *)
Intact ==
    /\ Unbroken /\ StatesRight
    /\ \A x \in Decided : x.kind = "remove" => Justified(x)
    /\ \A a \in taken : Held(a)

WInv == Removals /\ (gaps = {} => Intact)

(* Where every block got its state too, what the watcher gives up it has    *)
(* decided to respond to, if there was anything to respond to.              *)
Needed(x) == \E y \in EventBlocks(x.app, x.at) : Number[y] >= x.app.start

RemovalsAnswered ==
    /\ \A x \in issued : x.kind = "remove" => AnsweredIfNeeded(x)
    /\ \A x \in emitting.actions : x.kind = "remove" /\ Needed(x) => AnswerDecided(x.app)

AInv == gaps = {} /\ NoBlockFailed => RemovalsAnswered
-----------------------------------------------------------------------------
(* States *)

LEMMA PrevItemIs ==
    ASSUME StateShape, StatesTyped, NEW b \in Block,
           NEW a \in byId, a \in Appointment, ~ReduceThrows(b)
    PROVE  \/ PrevItem(b, a) = NoItem
           \/ /\ Parent[b] \in cached
              /\ InRange(PrevItem(b, a), Parent[b])
              /\ Unbroken /\ StatesRight => Right(PrevItem(b, a), Parent[b], a)
<1> SUFFICES ASSUME Parent[b] \in cached
             PROVE  \/ PrevItem(b, a) = NoItem
                    \/ /\ InRange(PrevItem(b, a), Parent[b])
                       /\ Unbroken /\ StatesRight => Right(PrevItem(b, a), Parent[b], a)
  BY DEF PrevItem
<1>1. cached \subseteq Block /\ Parent[b] \in Block  BY DEF StateShape
<1>2. CASE anchor[Parent[b]] = NoState
  <2>1. PrevItem(b, a) = InitialItem(Parent[b], a)  BY <1>2 DEF PrevItem
  <2>2. InRange(InitialItem(Parent[b], a), Parent[b])
    BY <1>1, InitialItemIs DEF InRange
  <2>3. Unbroken => Right(InitialItem(Parent[b], a), Parent[b], a)
    BY <1>1, InitialItemRight
  <2> QED  BY <2>1, <2>2, <2>3
<1>3. CASE anchor[Parent[b]] # NoState
  <2>1. anchor[Parent[b]] # Stale  BY DEF ReduceThrows
  <2>2. Fresh(Parent[b])  BY <1>3, <2>1 DEF Fresh
  <2>3. PrevItem(b, a) = ItemOf(anchor[Parent[b]], a)  BY <1>3 DEF PrevItem
  <2> QED  BY <2>2, <2>3 DEF ItemOf, StatesTyped, StatesRight
<1> QED  BY <1>2, <1>3

LEMMA NewItemIs ==
    ASSUME StateShape, StatesTyped, NEW b \in Block,
           NEW a \in byId, a \in Appointment, ~ReduceThrows(b)
    PROVE  /\ InRange(NewItem(b, a), b)
           /\ Parent[b] \in cached /\ Unbroken /\ StatesRight => Right(NewItem(b, a), b, a)
<1>1. cached \subseteq Block  BY DEF StateShape
<1>2. CASE PrevItem(b, a) = NoItem
  <2>1. NewItem(b, a) = InitialItem(b, a)  BY <1>2 DEF NewItem
  <2>2. InRange(InitialItem(b, a), b)  BY <1>1, InitialItemIs DEF InRange
  <2>3. Parent[b] \in cached /\ Unbroken => Right(InitialItem(b, a), b, a)
    BY <1>1, InitialItemRight
  <2> QED  BY <2>1, <2>2, <2>3
<1>3. CASE PrevItem(b, a) # NoItem
  <2> DEFINE item == PrevItem(b, a)
  <2>1. NewItem(b, a) = ReduceItem(item, b, a)  BY <1>3 DEF NewItem
  <2>2. /\ Parent[b] \in Block /\ InRange(item, Parent[b])
        /\ Unbroken /\ StatesRight => Right(item, Parent[b], a)
    BY <1>1, <1>3, PrevItemIs
  <2> HIDE DEF item
  <2>3. Number[b] = Number[Parent[b]] + 1 /\ Number[Parent[b]] \in Nat
    BY <2>2, WatcherAssumption
  <2>4. InRange(ReduceItem(item, b, a), b)
    BY <2>2, <2>3 DEF InRange, ReduceItem
  <2>5. Unbroken /\ StatesRight => Right(ReduceItem(item, b, a), b, a)
    BY <2>2, ReduceItemRight
  <2> QED  BY <2>1, <2>4, <2>5
<1> QED  BY <1>2, <1>3

LEMMA ItemsReceive ==
    ASSUME StateShape, StatesTyped, byId \subseteq Appointment,
           NEW b \in Block, ReceiveBlock(b)
    PROVE  /\ StatesTyped'
           /\ gaps' = {} /\ Unbroken => Unbroken'
           /\ gaps' = {} /\ Unbroken /\ StatesRight => StatesRight'
<1>1. /\ b \notin cached /\ cached' = cached \cup {b} /\ cached \subseteq Block
      /\ gaps' = {} => Parent[b] \in cached
  BY DEF ReceiveBlock, NoteGap, StateShape
<1>2. gaps' = {} /\ Unbroken => Unbroken'  BY <1>1 DEF Unbroken
<1>3. CASE ReduceThrows(b)
  <2>1. anchor' = anchor /\ anchor[b] = NoState  BY <1>1, <1>3 DEF ReceiveBlock, StateShape
  <2> QED  BY <1>1, <1>2, <2>1 DEF StatesTyped, StatesRight, Fresh
<1>4. CASE ~ReduceThrows(b)
  <2>1. anchor' = [anchor EXCEPT ![b] = NewState(b)]  BY <1>4 DEF ReceiveBlock
  <2>2. anchor'[b] = NewState(b) /\ \A x \in cached : anchor'[x] = anchor[x]
    BY <1>1, <2>1 DEF StateShape
  <2>3. /\ NewState(b).number = Number[b] /\ DOMAIN NewState(b).items = byId
        /\ \A a \in byId : NewState(b).items[a] = NewItem(b, a)
    BY DEF NewState
  <2>4. \A a \in byId : /\ InRange(NewItem(b, a), b)
                        /\ gaps' = {} /\ Unbroken /\ StatesRight => Right(NewItem(b, a), b, a)
    BY <1>1, <1>4, NewItemIs
  <2>5. StatesTyped'
    BY <1>1, <2>2, <2>3, <2>4 DEF StatesTyped, Fresh
  <2>6. gaps' = {} /\ Unbroken /\ StatesRight => StatesRight'
    BY <1>1, <2>2, <2>3, <2>4 DEF StatesRight, Fresh
  <2> QED  BY <1>2, <2>5, <2>6
<1> QED  BY <1>3, <1>4

(* What the states make the watcher decide for a head. *)
LEMMA ChangesAre ==
    ASSUME StateShape, StatesTyped, NEW h \in cached, NEW STATE prev, anchor[h] # NoState,
           ~DetectThrows(prev, anchor[h]), NEW x \in Changes(prev, anchor[h], h)
    PROVE  /\ x.at = h
           /\ x.kind = "respond" => x.observed \in 0 .. Number[x.at]
           /\ x.kind = "remove" /\ StatesRight => Justified(x)
           /\ x.kind = "remove" /\ StatesRight /\ Needed(x) =>
                  /\ x.app \in DOMAIN anchor[h].items
                  /\ ShouldHaveStartedResponder(anchor[h], x.app)
<1> DEFINE state == anchor[h]
<1>1. Fresh(h)  BY DEF Fresh, DetectThrows
<1>2. /\ state.number = Number[h]
      /\ \A a \in DOMAIN state.items : InRange(state.items[a], h)
      /\ StatesRight => \A a \in DOMAIN state.items : Right(state.items[a], h, a)
  BY <1>1 DEF StatesTyped, StatesRight
<1>3. CASE \E a \in DOMAIN state.items :
              x = Action("respond", a, ItemOf(state, a), h) /\ ShouldHaveStartedResponder(state, a)
  <2>1. PICK a \in DOMAIN state.items :
             x = Action("respond", a, ItemOf(state, a), h) /\ ShouldHaveStartedResponder(state, a)
    BY <1>3
  <2>2. x.at = h /\ x.kind = "respond" /\ x.observed = state.items[a]
    BY <2>1 DEF Action, ItemOf
  <2>3. Observed(state.items[a])  BY <2>1 DEF ShouldHaveStartedResponder, ItemOf
  <2>4. state.items[a] \in 0 .. Number[h]  BY <1>2, <2>3 DEF InRange, Observed, Watching
  <2> QED  BY <2>2, <2>4
<1>4. CASE \E a \in DOMAIN state.items :
              /\ x = Action("remove", a, NoItem, h)
              /\ ShouldRemoveObserved(state, a) \/ ShouldRemoveExpired(state, a)
  <2>1. PICK a \in DOMAIN state.items :
             /\ x = Action("remove", a, NoItem, h)
             /\ ShouldRemoveObserved(state, a) \/ ShouldRemoveExpired(state, a)
    BY <1>4
  <2>2. x.at = h /\ x.kind = "remove" /\ x.app = a  BY <2>1 DEF Action
  <2>3. ItemOf(state, a) = state.items[a]  BY DEF ItemOf
  <2>4. ASSUME StatesRight PROVE Justified(x)
    <3>1. Right(state.items[a], h, a)  BY <1>2, <2>4
    <3>2. CASE ShouldRemoveObserved(state, a)
      <4>1. /\ state.items[a] # Watching
            /\ Number[h] - state.items[a] + 1 >= ConfirmationsBeforeRemoval
        BY <1>2, <2>3, <3>2 DEF ShouldRemoveObserved, Observed, Depth, Watching
      <4>2. PICK y \in EventBlocks(a, h) : Number[y] = state.items[a]
        BY <3>1, <4>1 DEF Right
      <4> QED  BY <2>2, <4>1, <4>2 DEF Justified, Fulfilled
    <3>3. CASE ShouldRemoveExpired(state, a)
      <4>1. /\ state.items[a] = Watching
            /\ Number[h] - a.end > ConfirmationsBeforeRemoval
        BY <1>2, <2>3, <3>3 DEF ShouldRemoveExpired
      <4> QED  BY <2>2, <3>1, <4>1 DEF Justified, Expired, Right
    <3> QED  BY <2>1, <3>2, <3>3
  <2>5. ASSUME StatesRight, Needed(x) PROVE ShouldHaveStartedResponder(state, a)
    <3>1. Right(state.items[a], h, a) /\ InRange(state.items[a], h)  BY <1>2, <2>5
    <3>2. CASE state.items[a] = Watching
      <4>1. PICK y \in EventBlocks(a, h) : Number[y] >= a.start
        BY <2>2, <2>5 DEF Needed
      <4>2. Number[y] < a.start  BY <3>1, <3>2 DEF Right
      <4>3. h \in Block /\ a \in Appointment  BY <1>1, <2>1 DEF StateShape, StatesTyped
      <4>4. Number[y] \in Nat /\ a.start \in Int
        BY <4>3, AncestryBelow, WatcherAssumption, TowerAssumption DEF EventBlocks
      <4> QED  BY <4>1, <4>2, <4>4
    <3>3. CASE state.items[a] # Watching
      <4>1. Observed(state.items[a]) /\ Depth(state, a) >= ConfirmationsBeforeRemoval
        BY <2>1, <2>3, <3>3 DEF ShouldRemoveObserved, ShouldRemoveExpired
      <4>2. Depth(state, a) \in Int
        <5>1. state.items[a] \in Int /\ state.number \in Int
          BY <1>2, <3>1, <3>3, WatcherAssumption DEF InRange, StateShape
        <5> QED  BY <2>3, <5>1 DEF Depth
      <4>3. Depth(state, a) >= ConfirmationsBeforeResponse
        BY <4>1, <4>2, WatcherAssumption
      <4> QED  BY <2>3, <4>1, <4>3 DEF ShouldHaveStartedResponder
    <3> QED  BY <3>2, <3>3
  <2> QED  BY <2>2, <2>4, <2>5
<1> QED  BY <1>3, <1>4 DEF Changes

LEMMA StatesNext ==
    ASSUME IInv, StateShape, StatesTyped, [Next]_vars
    PROVE  /\ StatesTyped'
           /\ gaps' = {} /\ Unbroken /\ StatesRight => Unbroken' /\ StatesRight'
<1> DEFINE Goal == /\ StatesTyped'
                   /\ gaps' = {} /\ Unbroken /\ StatesRight => Unbroken' /\ StatesRight'
<1>1. ASSUME UNCHANGED <<cached, anchor>> PROVE Goal
  BY <1>1 DEF StatesTyped, StatesRight, Unbroken, Fresh
<1>2. ASSUME NEW b \in Block, ReceiveBlock(b) PROVE Goal
  <2>1. byId \subseteq Appointment  BY DEF IInv, Typed
  <2> QED  BY <1>2, <2>1, ItemsReceive
<1>3. CASE Stop
  <2>1. /\ cached' = onDisk /\ anchor' = StaleOf(anchor)
        /\ gaps' = {} => cached = onDisk
    BY <1>3 DEF Stop
  <2>2. onDisk \subseteq Block  BY DEF StateShape
  <2>3. \A b \in cached' : anchor'[b] \in {NoState, Stale}
    BY <2>1, <2>2 DEF StaleOf
  <2>4. StatesTyped' /\ StatesRight'  BY <2>3 DEF StatesTyped, StatesRight, Fresh
  <2>5. gaps' = {} => Unbroken' = Unbroken  BY <2>1 DEF Unbroken
  <2> QED  BY <2>4, <2>5
<1>4. CASE Api
  BY <1>1, <1>4 DEF Api, AddToWatch, AddRelay, machineVars
<1>5. CASE \E c \in calls : ContinueCall(c)
  BY <1>1, <1>5 DEF ContinueCall, machineVars
<1>6. CASE Chain
  BY <1>1, <1>2, <1>6 DEF Chain, NewHead
<1>7. CASE Store
  BY <1>1, <1>7 DEF Store, StoreActions, WriteEmitted, StoreHeadNumber
<1>8. CASE \E t \in running : RunAction(t)
  BY <1>1, <1>8 DEF RunAction, Respond, StartRemoval, EndRemoval, RemoveAction, machineVars
<1>9. CASE Confirmation
  BY <1>1, <1>9 DEF Confirmation, ResponseConfirmed, machineVars
<1>10. CASE Starting
  BY <1>1, <1>10 DEF Starting, StartMachine, StartProcessor, StartStore, StartResponderStore,
                     machineVars
<1>11. CASE UNCHANGED vars
  BY <1>1, <1>11 DEF vars, machineVars
<1> QED
  BY <1>3, <1>4, <1>5, <1>6, <1>7, <1>8, <1>9, <1>10, <1>11 DEF Next

-----------------------------------------------------------------------------
(* Heads and stored actions *)

LEMMA HeadNewHead ==
    ASSUME StateShape, StatesTyped, HeadTyped, NEW h \in Block, NewHead(h), UNCHANGED loaded
    PROVE  HeadTyped'
<1>1. /\ Active /\ emitting = Idle /\ h \in cached /\ head' = h
      /\ UNCHANGED <<cached, phase, storedHead>>
  BY DEF NewHead, Active
<1>2. /\ emitting'.pc \in {"idle", "actions", "batch", "number"}
      /\ emitting'.pc # "actions" => emitting'.actions = {}
      /\ emitting'.pc # "idle" => emitting'.head = h
      /\ \A x \in emitting'.actions : x.at = h
  <2> DEFINE state == anchor[h]
             prev == prevEmitted[h]
             due  == Changes(prev, state, h)
  <2>1. CASE state # NoState /\ ~DetectThrows(prev, state) /\ Emit(h, due, "actions")
    <3>1. \A x \in due : x.at = h  BY <1>1, <2>1, ChangesAre
    <3>2. emitting'.head = h /\ emitting'.actions = due /\ emitting'.pc = "actions"
      BY <2>1 DEF Emit
    <3> QED  BY <3>1, <3>2
  <2>2. CASE \E pc \in {"batch", "number"} : Emit(h, {}, pc)
    BY <2>2 DEF Emit
  <2>3. CASE UNCHANGED emitting
    BY <1>1, <2>3 DEF Idle
  <2> QED  BY <2>1, <2>2, <2>3 DEF NewHead
<1> QED  BY <1>1, <1>2 DEF HeadTyped, Active

LEMMA HeadNext ==
    ASSUME StateShape, StatesTyped, HeadTyped, [Next]_vars
    PROVE  HeadTyped'
<1>1. ASSUME UNCHANGED <<cached, head, storedHead, emitting, phase, loaded>> PROVE HeadTyped'
  BY <1>1 DEF HeadTyped, Active
<1>2. ASSUME NEW b \in Block, ReceiveBlock(b) PROVE HeadTyped'
  <2>1. /\ cached' = cached \cup {b}
        /\ UNCHANGED <<head, storedHead, emitting, phase, loaded>>
    BY <1>2 DEF ReceiveBlock, storeVars
  <2> QED  BY <2>1 DEF HeadTyped, Active
<1>3. ASSUME NEW h \in Block, NewHead(h) PROVE HeadTyped'
  BY <1>3, HeadNewHead DEF NewHead, storeVars
<1>4. CASE Store
  <2>1. /\ emitting.pc # "idle" /\ UNCHANGED <<cached, head, phase, loaded>>
        /\ \/ /\ emitting'.head = emitting.head /\ emitting'.actions = {}
              /\ emitting'.pc \in {"batch", "number"} /\ storedHead' = storedHead
           \/ emitting' = Idle /\ storedHead' = Number[emitting.head]
    BY <1>4 DEF Store, StoreActions, WriteEmitted, StoreHeadNumber, Emit, storeVars
  <2>2. Active /\ emitting.head = head /\ head \in Block
    BY <2>1 DEF HeadTyped, StateShape
  <2>3. CASE emitting' = Idle /\ storedHead' = Number[emitting.head]
    <3>1. emitting'.pc = "idle" /\ emitting'.actions = {}  BY <2>3 DEF Idle
    <3>2. storedHead' \in {Number[b] : b \in Block}  BY <2>2, <2>3
    <3> QED  BY <2>1, <2>2, <3>1, <3>2 DEF HeadTyped, Active
  <2>4. CASE /\ emitting'.head = emitting.head /\ emitting'.actions = {}
             /\ emitting'.pc \in {"batch", "number"} /\ storedHead' = storedHead
    BY <2>1, <2>2, <2>4 DEF HeadTyped, Active
  <2> QED  BY <2>1, <2>3, <2>4
<1>5. CASE Stop
  <2>1. /\ phase' = "down" /\ head' = NoBlock /\ emitting'.pc = "idle"
        /\ emitting'.actions = {} /\ loaded' = FALSE /\ UNCHANGED storedHead
    BY <1>5 DEF Stop, Crash, Idle
  <2> QED  BY <2>1 DEF HeadTyped, Active
<1>6. CASE StartMachine
  <2>1. phase = "down" /\ phase' = "booting"
        /\ UNCHANGED <<cached, head, storedHead, emitting, loaded>>
    BY <1>6 DEF StartMachine, machineVars, storeVars
  <2> QED  BY <2>1 DEF HeadTyped, Active
<1>7. ASSUME NEW h \in Block, StartProcessor(h) PROVE HeadTyped'
  <2>1. /\ phase = "booting" /\ phase' = "emitting" /\ h \in cached
        /\ head' = h /\ UNCHANGED <<cached, storedHead, emitting, loaded>>
    BY <1>7 DEF StartProcessor, storeVars
  <2> QED  BY <2>1 DEF HeadTyped, Active
<1>8. CASE StartStore
  <2>1. phase = "emitting" /\ loaded' = TRUE
        /\ UNCHANGED <<cached, head, storedHead, emitting, phase>>
    BY <1>8 DEF StartStore, LoadAppointments, machineVars
  <2> QED  BY <2>1 DEF HeadTyped, Active
<1>9. CASE StartResponderStore
  <2>1. phase = "emitting" /\ loaded /\ phase' = "started"
        /\ UNCHANGED <<cached, head, storedHead, emitting, loaded>>
    BY <1>9 DEF StartResponderStore, machineVars, storeVars
  <2> QED  BY <2>1 DEF HeadTyped, Active
<1>10. CASE Api
  BY <1>1, <1>10 DEF Api, AddToWatch, AddRelay, BeginAdd, machineVars, storeVars
<1>11. CASE \E c \in calls : ContinueCall(c)
  BY <1>1, <1>11 DEF ContinueCall, EnterAdd, WriteAdd, FinishAdd, DeleteRecord, DeleteById,
                     machineVars
<1>12. CASE \E t \in running : RunAction(t)
  BY <1>1, <1>12 DEF RunAction, Respond, StartRemoval, EndRemoval, RemoveAction, BeginRemove,
                     FinishRemove, machineVars, storeVars
<1>13. CASE Confirmation
  BY <1>1, <1>13 DEF Confirmation, ResponseConfirmed, machineVars, storeVars
<1>14. CASE UNCHANGED vars
  BY <1>1, <1>14 DEF vars, machineVars, storeVars
<1> QED
  BY <1>2, <1>3, <1>4, <1>5, <1>6, <1>7, <1>8, <1>9, <1>10, <1>11, <1>12, <1>13, <1>14
  DEF Next, Chain, Starting

LEMMA ActionsReceive ==
    ASSUME StateShape, HeadTyped, ActionsTyped, NEW b \in Block, ReceiveBlock(b)
    PROVE  ActionsTyped' /\ Decided' = Decided
<1>1. /\ emitting = Idle /\ b \notin cached /\ onDisk \subseteq onDisk'
      /\ UNCHANGED <<emitting, actionStore, running, issued, phase, head>>
      /\ anchor' = anchor \/ anchor' = [anchor EXCEPT ![b] = NewState(b)]
  BY DEF ReceiveBlock, actionVars
<1>2. emitting'.pc = "idle" /\ Decided' = Decided  BY <1>1 DEF Idle, Decided
<1>3. NoState' = NoState /\ Stale' = Stale  BY DEF NoState, Stale
<1>4. ASSUME NEW x \in issued
      PROVE  /\ x.at \in onDisk'
             /\ Fresh(x.at)' => Active' /\ Number[x.at] <= Number[head']
  <2>1. x.at \in onDisk /\ (Fresh(x.at) => Active /\ Number[x.at] <= Number[head])
    BY DEF ActionsTyped
  <2>2. anchor'[x.at] = anchor[x.at]  BY <1>1, <2>1 DEF StateShape
  <2> QED  BY <1>1, <1>3, <2>1, <2>2 DEF Fresh, Active
<1> QED  BY <1>1, <1>2, <1>4 DEF ActionsTyped

LEMMA ActionsNewHead ==
    ASSUME StateShape, StatesTyped, HeadTyped, ActionsTyped, NEW h \in Block, NewHead(h)
    PROVE  /\ ActionsTyped'
           /\ StatesRight => \A x \in Decided' : x \in Decided \/ (x.kind = "remove" => Justified(x))
<1> DEFINE state == anchor[h]
           prev == prevEmitted[h]
           due  == Changes(prev, state, h)
<1>1. /\ Active /\ emitting = Idle /\ h \in cached /\ Number[h] > Number[head] /\ head' = h
      /\ UNCHANGED <<cached, onDisk, anchor, phase, actionStore, running, issued>>
  BY DEF NewHead, actionVars, Active
<1>2. emitting.actions = {} /\ Decided = issued  BY <1>1 DEF Idle, Decided
<1>3. head \in Block /\ Number[h] \in Nat /\ Number[head] \in Nat
  BY <1>1, WatcherAssumption DEF HeadTyped, StateShape
<1>4. NoState' = NoState /\ Stale' = Stale  BY DEF NoState, Stale
<1>5. \/ /\ state # NoState /\ ~DetectThrows(prev, state)
         /\ emitting'.actions = due /\ emitting'.pc = "actions"
      \/ emitting'.actions = {} /\ emitting'.pc # "actions"
  BY <1>1 DEF NewHead, Emit, Idle
<1>6. ASSUME NEW x \in Decided'
      PROVE  \/ x \in Decided
             \/ /\ x.kind = "respond" => x.observed \in 0 .. Number[x.at]
                /\ x.kind = "remove" /\ StatesRight => Justified(x)
  <2>1. CASE x \in issued
    BY <1>2, <2>1
  <2>2. CASE x \notin issued
    <3>1. x \in emitting'.actions  BY <1>1, <2>2 DEF Decided
    <3>2. state # NoState /\ ~DetectThrows(prev, state) /\ x \in due  BY <1>5, <3>1
    <3> QED  BY <1>1, <3>2, ChangesAre
  <2> QED  BY <2>1, <2>2
<1>7. ASSUME NEW x \in issued
      PROVE  /\ x.at \in onDisk' /\ (Fresh(x.at)' => Active' /\ Number[x.at] <= Number[head'])
             /\ Fresh(h) => x.at # h
  <2>1. /\ x.at \in onDisk /\ (Fresh(x.at) => Number[x.at] <= Number[head])
        /\ Number[x.at] \in Nat
    BY WatcherAssumption DEF ActionsTyped, StateShape
  <2>2. Fresh(x.at) => Number[x.at] < Number[h]  BY <1>1, <1>3, <2>1
  <2> QED  BY <1>1, <1>3, <1>4, <2>1, <2>2 DEF Fresh, Active
<1>8. emitting'.pc = "actions" => Fresh(head)' /\ \A x \in issued' : x.at # head'
  <2> SUFFICES ASSUME emitting'.pc = "actions"
               PROVE  Fresh(head)' /\ \A x \in issued' : x.at # head'
    OBVIOUS
  <2>1. state # NoState /\ state # Stale  BY <1>5 DEF DetectThrows
  <2>2. Fresh(h) /\ Fresh(head)'  BY <1>1, <1>4, <2>1 DEF Fresh
  <2> QED  BY <1>1, <1>7, <2>2
<1>9. \A x \in Decided' : x.kind = "respond" => x.observed \in 0 .. Number[x.at]
  BY <1>6 DEF ActionsTyped
<1>10. ActionsTyped'  BY <1>1, <1>7, <1>8, <1>9 DEF ActionsTyped
<1> QED  BY <1>6, <1>10

LEMMA ActionsStored ==
    ASSUME StateShape, HeadTyped, ActionsTyped, StoreActions
    PROVE  ActionsTyped' /\ Decided' = Decided
<1>1. /\ emitting.pc = "actions" /\ emitting'.actions = {} /\ emitting'.pc = "batch"
      /\ actionStore' = actionStore \cup emitting.actions
      /\ running' = running \cup {[act |-> x, pc |-> "ready"] : x \in emitting.actions}
      /\ issued' = issued \cup emitting.actions
      /\ UNCHANGED <<onDisk, anchor, head, phase>>
  BY DEF StoreActions, Emit
<1>2. /\ Active /\ head \in Block /\ Fresh(head) /\ \A x \in issued : x.at # head
      /\ \A x \in emitting.actions : x.at = head
  BY <1>1 DEF HeadTyped, ActionsTyped, StateShape
<1>3. head \in onDisk /\ Number[head] \in Nat
  BY <1>2, WatcherAssumption DEF Fresh, StateShape
<1>4. Decided' = Decided  BY <1>1 DEF Decided
<1>5. \A t \in running : t.act \notin emitting.actions
  BY <1>2 DEF ActionsTyped
<1>6. \A t \in running' : \/ t \in running
                          \/ t.act \in emitting.actions /\ t = [act |-> t.act, pc |-> "ready"]
  BY <1>1
<1>7. \A t, u \in running' : t.act = u.act => t = u
  <2> SUFFICES ASSUME NEW t \in running', NEW u \in running', t.act = u.act PROVE t = u
    OBVIOUS
  <2>1. CASE t \in running /\ u \in running  BY <2>1 DEF ActionsTyped
  <2>2. CASE t \notin running /\ u \notin running  BY <1>6, <2>2
  <2>3. CASE ~(t \in running <=> u \in running)  BY <1>5, <1>6, <2>3
  <2> QED  BY <2>1, <2>2, <2>3
<1>8. \A t \in running' : t.act \in actionStore'
  BY <1>1, <1>6 DEF ActionsTyped
<1>9. NoState' = NoState /\ Stale' = Stale  BY DEF NoState, Stale
<1>10. ASSUME NEW x \in issued'
       PROVE  x.at \in onDisk' /\ (Fresh(x.at)' => Active' /\ Number[x.at] <= Number[head'])
  <2>1. CASE x \in issued
    BY <1>1, <1>9, <2>1 DEF ActionsTyped, Fresh, Active
  <2>2. CASE x \in emitting.actions
    BY <1>1, <1>2, <1>3, <2>2 DEF Active
  <2> QED  BY <1>1, <2>1, <2>2
<1> QED  BY <1>1, <1>4, <1>7, <1>8, <1>10 DEF ActionsTyped

(* The steps that leave the states and the head alone. *)
LEMMA ActionsKeep ==
    ASSUME ActionsTyped, UNCHANGED <<onDisk, anchor, head>>, issued' = issued,
           Active => Active',
           emitting' = emitting \/ (emitting'.actions = {} /\ emitting'.pc # "actions"),
           \A t \in running' : t.act \in actionStore',
           \A t, u \in running' : t.act = u.act => t = u,
           actionStore' \subseteq issued
    PROVE  ActionsTyped'
<1>1. NoState' = NoState /\ Stale' = Stale  BY DEF NoState, Stale
<1>2. \A b : Fresh(b)' = Fresh(b)  BY <1>1 DEF Fresh
<1>3. \A x \in issued : x.at \in onDisk' /\ (Fresh(x.at)' => Active' /\ Number[x.at] <= Number[head'])
  BY <1>2 DEF ActionsTyped
<1>4. emitting'.pc = "actions" => Fresh(head)' /\ \A x \in issued' : x.at # head'
  BY <1>1 DEF ActionsTyped, Fresh
<1>5. Decided' \subseteq Decided  BY DEF Decided
<1> QED  BY <1>3, <1>4, <1>5 DEF ActionsTyped

LEMMA ActionsRun ==
    ASSUME RInv, ActionsTyped, NEW t \in running, RunAction(t)
    PROVE  ActionsTyped' /\ Decided' = Decided
<1>1. /\ UNCHANGED <<issued, emitting, onDisk, anchor, head, phase>>
      /\ \/ actionStore' = actionStore
         \/ actionStore' = actionStore \ {t.act} /\ Throws(t)
      /\ Throws(t) \/ \E p : SetPc(t, p)
  BY DEF RunAction, Respond, StartRemoval, EndRemoval, RemoveAction, Throws, machineVars
<1>2. Decided' = Decided /\ (Active => Active')  BY <1>1 DEF Decided, Active
<1>3. CASE Throws(t)
  <2>1. running' = running \ {t}  BY <1>3 DEF Throws
  <2>2. \A u \in running' : u.act \in actionStore'
    BY <1>1, <2>1 DEF ActionsTyped
  <2>3. \A u, w \in running' : u.act = w.act => u = w  BY <2>1 DEF ActionsTyped
  <2>4. actionStore' \subseteq issued  BY <1>1 DEF ActionsTyped
  <2> QED  BY <1>1, <1>2, <2>2, <2>3, <2>4, ActionsKeep
<1>4. CASE ~Throws(t) /\ \E p : SetPc(t, p)
  <2>1. PICK p : SetPc(t, p)  BY <1>4
  <2> DEFINE u == [t EXCEPT !.pc = p]
  <2>2. u.act = t.act  BY PcFields DEF RInv
  <2>3. running' = (running \ {t}) \cup {u}  BY <2>1 DEF SetPc
  <2>4. actionStore' = actionStore  BY <1>1, <1>4
  <2> HIDE DEF u
  <2>5. \A v \in running' : v.act \in actionStore'
    BY <2>2, <2>3, <2>4 DEF ActionsTyped
  <2>6. \A v, w \in running' : v.act = w.act => v = w
    BY <2>2, <2>3 DEF ActionsTyped
  <2>7. actionStore' \subseteq issued  BY <2>4 DEF ActionsTyped
  <2> QED  BY <1>1, <1>2, <2>5, <2>6, <2>7, ActionsKeep
<1> QED  BY <1>1, <1>3, <1>4

(* Only a head decides anything, and by what its state says. *)
LEMMA ActionsNext ==
    ASSUME StateShape, StatesTyped, HeadTyped, RInv, ActionsTyped, [Next]_vars
    PROVE  /\ ActionsTyped'
           /\ issued \subseteq issued'
           /\ StatesRight => \A x \in Decided' : x \in Decided \/ (x.kind = "remove" => Justified(x))
<1> DEFINE Goal ==
        /\ ActionsTyped'
        /\ issued \subseteq issued'
        /\ StatesRight => \A x \in Decided' : x \in Decided \/ (x.kind = "remove" => Justified(x))
<1>1. ASSUME UNCHANGED <<actionVars, onDisk, anchor, head>>, Active => Active',
             emitting' = emitting \/ (emitting'.actions = {} /\ emitting'.pc # "actions")
      PROVE  Goal
  <2>1. actionStore' = actionStore /\ running' = running /\ issued' = issued
    BY <1>1 DEF actionVars
  <2>2. Decided' \subseteq Decided  BY <1>1, <2>1 DEF Decided
  <2>3. /\ \A t \in running : t.act \in actionStore
        /\ \A t, u \in running : t.act = u.act => t = u
        /\ actionStore \subseteq issued
    BY DEF ActionsTyped
  <2>4. ActionsTyped'  BY <1>1, <2>1, <2>3, ActionsKeep
  <2> QED  BY <2>1, <2>2, <2>4
<1>2. CASE Chain
  <2>1. CASE \E b \in Block : ReceiveBlock(b)
    BY <2>1, ActionsReceive DEF ReceiveBlock, actionVars
  <2>2. CASE \E b \in Block : NewHead(b)
    BY <2>2, ActionsNewHead DEF NewHead, actionVars
  <2> QED  BY <1>2, <2>1, <2>2 DEF Chain
<1>3. CASE Store
  <2>1. CASE StoreActions
    BY <2>1, ActionsStored DEF StoreActions
  <2>2. CASE WriteEmitted \/ StoreHeadNumber
    <3>1. /\ UNCHANGED <<actionVars, onDisk, anchor, head, phase>>
          /\ emitting'.actions = {} /\ emitting'.pc # "actions"
      BY <2>2 DEF WriteEmitted, StoreHeadNumber, Emit, Idle
    <3>2. Active => Active'  BY <3>1 DEF Active
    <3> QED  BY <1>1, <3>1, <3>2
  <2> QED  BY <1>3, <2>1, <2>2 DEF Store
<1>4. CASE \E t \in running : RunAction(t)
  <2>1. issued' = issued
    BY <1>4 DEF RunAction, Respond, StartRemoval, EndRemoval, RemoveAction
  <2> QED  BY <1>4, <2>1, ActionsRun
<1>5. CASE Stop
  <2>1. /\ running' = {} /\ emitting' = Idle /\ anchor' = StaleOf(anchor)
        /\ UNCHANGED <<actionStore, issued, onDisk>>
    BY <1>5 DEF Stop
  <2>2. Decided' \subseteq Decided /\ emitting'.pc = "idle"  BY <2>1 DEF Decided, Idle
  <2>3. NoState' = NoState /\ Stale' = Stale  BY DEF NoState, Stale
  <2>4. \A b \in onDisk : ~Fresh(b)'
    BY <2>1, <2>3 DEF Fresh, StaleOf, StateShape
  <2>5. \A x \in issued : x.at \in onDisk  BY DEF ActionsTyped
  <2> QED  BY <2>1, <2>2, <2>4, <2>5 DEF ActionsTyped
<1>6. CASE StartMachine
  <2>1. /\ running' = {[act |-> x, pc |-> "applied"] :
                          x \in {y \in actionStore : y.kind = "remove"}}
        /\ phase = "down"
        /\ UNCHANGED <<actionStore, issued, emitting, onDisk, anchor, head>>
    BY <1>6 DEF StartMachine, machineVars
  <2>2. \A t \in running' : t.act \in actionStore /\ t = [act |-> t.act, pc |-> "applied"]
    BY <2>1
  <2>3. Decided' = Decided /\ ~Active  BY <2>1 DEF Decided, Active
  <2>4. actionStore' \subseteq issued  BY <2>1 DEF ActionsTyped
  <2>5. \A t \in running' : t.act \in actionStore'  BY <2>1, <2>2
  <2>6. \A t, u \in running' : t.act = u.act => t = u  BY <2>2
  <2>7. ActionsTyped'  BY <2>1, <2>3, <2>4, <2>5, <2>6, ActionsKeep
  <2> QED  BY <2>1, <2>3, <2>7
<1>7. CASE Api \/ (\E c \in calls : ContinueCall(c)) \/ Confirmation
  <2>1. UNCHANGED <<actionVars, onDisk, anchor, head, emitting, phase>>
    BY <1>7 DEF Api, AddToWatch, AddRelay, ContinueCall, Confirmation, ResponseConfirmed,
                machineVars
  <2>2. Active => Active'  BY <2>1 DEF Active
  <2> QED  BY <1>1, <2>1, <2>2
<1>8. ASSUME NEW h \in Block, StartProcessor(h) PROVE Goal
  <2>1. /\ phase = "booting" /\ emitting' = emitting
        /\ UNCHANGED <<actionStore, running, issued, onDisk, anchor>>
    BY <1>8 DEF StartProcessor, actionVars
  <2>2. ~Active /\ emitting.pc # "actions" /\ Decided' = Decided
    BY <2>1 DEF Active, HeadTyped, Decided
  <2>3. NoState' = NoState /\ Stale' = Stale  BY DEF NoState, Stale
  <2>4. \A x \in issued : x.at \in onDisk /\ ~Fresh(x.at)  BY <2>2 DEF ActionsTyped
  <2>5. \A x \in issued : ~Fresh(x.at)'  BY <2>1, <2>3, <2>4 DEF Fresh
  <2> QED  BY <2>1, <2>2, <2>4, <2>5 DEF ActionsTyped
<1>9. CASE StartStore \/ StartResponderStore \/ UNCHANGED vars
  <2>1. /\ UNCHANGED <<actionVars, onDisk, anchor, head, emitting>>
        /\ phase' = phase \/ phase' = "started"
    BY <1>9 DEF StartStore, StartResponderStore, vars, machineVars
  <2>2. Active => Active'  BY <2>1 DEF Active
  <2> QED  BY <1>1, <2>1, <2>2
<1> QED
  BY <1>2, <1>3, <1>4, <1>5, <1>6, <1>7, <1>8, <1>9 DEF Next, Starting

LEMMA EstimateInRange ==
    ASSUME NEW price \in NetworkPrice, NEW left
    PROVE  Estimate(price, left) \in 1 .. MaxGasPrice
<1>1. price \in Nat /\ MaxGasPrice \in Nat \ {0}
  BY WatcherAssumption, EstimatorAssumption
<1> QED  BY <1>1 DEF Estimate, Capped

(* What startResponse does to the queue, however it returns. *)
LEMMA StartResponseQueues ==
    ASSUME QueueTyped, NEW a, NEW deadline, NEW price \in NetworkPrice,
           StartResponse(a, deadline, price)
    PROVE  /\ \/ UNCHANGED <<queue, storedQueue, answered>>
              \/ /\ storedQueue' = queue'
                 /\ \A q \in queue' : q.app \in answered' /\ q.gas \in 1 .. MaxGasPrice
           /\ answered \subseteq answered'
           /\ failures' \in 0 .. MaxFailures
<1>1. failures \in 0 .. MaxFailures /\ MaxFailures \in Nat
  BY WatcherAssumption DEF QueueTyped
<1>2. CASE Enqueue(a, deadline, price)
  <2> DEFINE q == Item(a, deadline, price)
  <2>1. q.app = a /\ q.gas \in 1 .. MaxGasPrice  BY EstimateInRange DEF Item
  <2>2. /\ queue' = queue \cup {q} /\ storedQueue' = queue' /\ answered' = answered \cup {a}
        /\ UNCHANGED <<failures>>
    BY <1>2 DEF Enqueue
  <2> HIDE DEF q
  <2> QED  BY <1>1, <2>1, <2>2 DEF QueueTyped
<1>3. CASE PriceFails(a, deadline) \/ WriteFails(a, deadline, price)
  <2>1. /\ UNCHANGED <<queue, storedQueue, answered>>
        /\ failures < MaxFailures /\ failures' = failures + 1
    BY <1>3 DEF PriceFails, WriteFails
  <2> QED  BY <1>1, <2>1
<1>4. CASE UNCHANGED <<queue, storedQueue, answered, failures>>
  BY <1>1, <1>4
<1> QED  BY <1>2, <1>3, <1>4 DEF StartResponse

LEMMA QueueNext ==
    ASSUME QueueTyped, [Next]_vars
    PROVE  QueueTyped'
<1>1. ASSUME UNCHANGED <<queue, storedQueue, answered, failures, signed>>
      PROVE  QueueTyped'
  BY <1>1 DEF QueueTyped
<1>2. ASSUME NEW a, NEW deadline, NEW price \in NetworkPrice,
             StartResponse(a, deadline, price), signed' \subseteq Appointment
      PROVE  QueueTyped'
  BY <1>2, StartResponseQueues DEF QueueTyped
<1>3. CASE \E a \in Appointment, price \in NetworkPrice : AddRelay(a, price)
  <2>1. PICK a \in Appointment, price \in NetworkPrice : AddRelay(a, price)  BY <1>3
  <2>2. StartResponse(a, a.start + a.period, price) /\ signed' = signed \cup {a}
    BY <2>1 DEF AddRelay
  <2>3. signed' \subseteq Appointment  BY <2>2 DEF QueueTyped
  <2> QED  BY <1>2, <2>2, <2>3
<1>4. ASSUME NEW t \in running, RunAction(t) PROVE QueueTyped'
  <2>1. UNCHANGED signed  BY <1>4 DEF RunAction, towerVars
  <2>2. \/ UNCHANGED queueVars
        \/ \E a, deadline : \E price \in NetworkPrice : StartResponse(a, deadline, price)
    BY <1>4 DEF RunAction, Respond, StartRemoval, EndRemoval, RemoveAction
  <2>3. CASE UNCHANGED queueVars
    BY <1>1, <2>1, <2>3 DEF queueVars
  <2>4. signed' \subseteq Appointment  BY <2>1 DEF QueueTyped
  <2> QED  BY <1>2, <2>2, <2>3, <2>4
<1>5. CASE Confirmation
  <2>1. PICK q \in queue : ResponseConfirmed(q) /\ UNCHANGED signed
    BY <1>5 DEF Confirmation, towerVars
  <2>2. /\ queue' = queue \ {q} /\ storedQueue' = queue'
        /\ UNCHANGED <<answered, failures, signed>>
    BY <2>1 DEF ResponseConfirmed
  <2> QED  BY <2>2 DEF QueueTyped
<1>6. CASE (\E a \in Appointment : AddToWatch(a)) \/ \E c \in calls : ContinueCall(c)
  BY <1>1, <1>6 DEF AddToWatch, ContinueCall, queueVars, towerVars
<1>7. CASE Chain \/ Store
  BY <1>1, <1>7 DEF Chain, ReceiveBlock, NewHead, Store, StoreActions, WriteEmitted,
                    StoreHeadNumber, queueVars, towerVars
<1>8. CASE Stop \/ Starting
  <2>1. /\ queue' \subseteq queue \cup storedQueue
        /\ UNCHANGED <<storedQueue, answered, failures, signed>>
    BY <1>8 DEF Stop, Starting, StartMachine, StartProcessor, StartStore, StartResponderStore,
                queueVars, towerVars
  <2> QED  BY <2>1 DEF QueueTyped
<1>9. CASE UNCHANGED vars
  BY <1>1, <1>9 DEF vars, queueVars, towerVars
<1> QED
  BY <1>3, <1>4, <1>5, <1>6, <1>7, <1>8, <1>9 DEF Next, Api

(* The queue in memory is the one in the database, also after a call to     *)
(* write it failed.                                                         *)
LEMMA OneQueueNext ==
    ASSUME QueueTyped, OneQueue, [Next]_vars
    PROVE  OneQueue'
<1>1. ASSUME UNCHANGED <<queue, storedQueue, phase>> PROVE OneQueue'
  BY <1>1 DEF OneQueue
<1>2. ASSUME NEW a, NEW deadline, NEW price \in NetworkPrice,
             StartResponse(a, deadline, price), UNCHANGED phase
      PROVE  OneQueue'
  BY <1>2, StartResponseQueues DEF OneQueue
<1>3. CASE Api
  BY <1>1, <1>2, <1>3 DEF Api, AddToWatch, AddRelay, queueVars
<1>4. ASSUME NEW t \in running, RunAction(t) PROVE OneQueue'
  <2>1. /\ UNCHANGED phase
        /\ \/ UNCHANGED queueVars
           \/ \E a, deadline : \E price \in NetworkPrice : StartResponse(a, deadline, price)
    BY <1>4 DEF RunAction, Respond, StartRemoval, EndRemoval, RemoveAction
  <2> QED  BY <1>1, <1>2, <2>1 DEF queueVars
<1>5. CASE Confirmation
  BY <1>5 DEF Confirmation, ResponseConfirmed, OneQueue
<1>6. CASE (\E c \in calls : ContinueCall(c)) \/ Chain \/ Store \/ UNCHANGED vars
  BY <1>1, <1>6 DEF ContinueCall, Chain, ReceiveBlock, NewHead, Store, StoreActions,
                    WriteEmitted, StoreHeadNumber, queueVars, vars
<1>7. CASE Stop \/ Starting
  BY <1>7, <1>1 DEF Stop, Starting, StartMachine, StartProcessor, StartStore,
                    StartResponderStore, OneQueue, queueVars
<1> QED  BY <1>3, <1>4, <1>5, <1>6, <1>7 DEF Next

-----------------------------------------------------------------------------
(* Removals *)

LEMMA MovedCall ==
    ASSUME CallShape, Removals, NEW c \in calls, NEW d,
           d.op = c.op /\ d.by = c.by /\ d.app = c.app,
           calls' = (calls \ {c}) \cup {d}, issued \subseteq issued'
    PROVE  Removals'
BY DEF Removals

LEMMA RemovalsNext ==
    ASSUME IInv, RInv, ActionsTyped, Removals, issued \subseteq issued', [Next]_vars
    PROVE  Removals'
<1>0. CallShape  BY DEF IInv
<1>1. ASSUME calls' \subseteq calls PROVE Removals'
  BY <1>1 DEF Removals
<1>2. ASSUME NEW c \in calls, NEW p, Move(c, p) PROVE Removals'
  <2> DEFINE d == [c EXCEPT !.pc = p]
  <2>1. d.op = c.op /\ d.by = c.by /\ d.app = c.app  BY <1>0, MovedFields
  <2>2. calls' = (calls \ {c}) \cup {d}  BY <1>2 DEF Move
  <2> HIDE DEF d
  <2> QED  BY <1>0, <2>1, <2>2, MovedCall
<1>3. ASSUME NEW a \in Appointment, AddToWatch(a) PROVE Removals'
  <2> DEFINE c == Call("add", a, a, "lock")
  <2>1. c.op = "add"  BY DEF Call
  <2>2. calls' = calls \cup {c}  BY <1>3 DEF AddToWatch, BeginAdd
  <2> HIDE DEF c
  <2> QED  BY <2>1, <2>2 DEF Removals
<1>4. ASSUME NEW c \in calls, ContinueCall(c) PROVE Removals'
  <2>1. CASE EnterAdd(c)
    <3>1. CASE calls' = calls \ {c}
      BY <1>1, <3>1
    <3>2. CASE calls' # calls \ {c}
      <4> DEFINE d == [c EXCEPT !.pc = "writing", !.current = byLocator[c.app.locator]]
      <4>1. d.op = c.op /\ d.by = c.by /\ d.app = c.app  BY <1>0 DEF CallShape
      <4>2. calls' = (calls \ {c}) \cup {d}  BY <2>1, <3>2 DEF EnterAdd, Return
      <4> HIDE DEF d
      <4> QED  BY <1>0, <4>1, <4>2, MovedCall
    <3> QED  BY <3>1, <3>2
  <2>2. CASE FinishAdd(c)
    BY <1>1, <2>2 DEF FinishAdd, Return
  <2>3. CASE WriteAdd(c) \/ DeleteRecord(c) \/ DeleteById(c)
    BY <1>2, <2>3 DEF WriteAdd, DeleteRecord, DeleteById
  <2> QED  BY <1>4, <2>1, <2>2, <2>3 DEF ContinueCall
<1>5. ASSUME NEW t \in running, RunAction(t) PROVE Removals'
  <2>1. CASE StartRemoval(t) /\ t.act.app \in byId
    <3> DEFINE c == Call("remove", t.act, t.act.app, "deleting")
    <3>1. c.by = t.act /\ c.app = t.act.app  BY DEF Call
    <3>2. calls' = calls \cup {c}  BY <2>1 DEF StartRemoval, BeginRemove
    <3>3. t.act \in issued' /\ t.act.kind = "remove"
      BY <2>1 DEF ActionsTyped, StartRemoval
    <3> HIDE DEF c
    <3> QED  BY <3>1, <3>2, <3>3 DEF Removals
  <2>2. CASE ~(StartRemoval(t) /\ t.act.app \in byId)
    BY <1>1, <1>5, <2>2 DEF RunAction, Respond, StartRemoval, EndRemoval, RemoveAction,
                            FinishRemove, Return, storeVars
  <2> QED  BY <2>1, <2>2
<1>6. CASE \E a \in Appointment, price \in NetworkPrice : AddRelay(a, price)
  BY <1>1, <1>6 DEF AddRelay, storeVars
<1>7. CASE Chain \/ Store \/ Confirmation
  BY <1>1, <1>7 DEF Chain, ReceiveBlock, NewHead, Store, StoreActions, WriteEmitted,
                    StoreHeadNumber, Confirmation, ResponseConfirmed, storeVars
<1>8. CASE Stop \/ Starting
  BY <1>1, <1>8 DEF Stop, Crash, Starting, StartMachine, StartProcessor, StartStore,
                    StartResponderStore, LoadAppointments, storeVars
<1>9. CASE UNCHANGED vars
  BY <1>1, <1>9 DEF vars, storeVars
<1> QED
  BY <1>3, <1>4, <1>5, <1>6, <1>7, <1>8, <1>9 DEF Next, Api

(* An appointment leaves the database for a larger nonce at its locator, or *)
(* for a removal.                                                           *)
LEMMA HeldByWrite ==
    ASSUME IInv, issued \subseteq issued', NEW c \in calls, WriteAdd(c),
           \A a \in taken : Held(a), NEW a \in taken'
    PROVE  Held(a)'
<1>1. /\ c.app \in Appointment /\ Critical(c)
      /\ disk' = (disk \ {c.current}) \cup {c.app} /\ taken' = taken \cup {c.app}
  BY DEF WriteAdd, Critical, IInv, CallShape
<1>2. CASE a = c.app
  <2>1. a \in disk' /\ a.nonce \in Nat  BY <1>1, <1>2, AppointmentAssumption
  <2>2. a.nonce >= a.nonce  BY <2>1
  <2> QED  BY <2>1, <2>2 DEF Held
<1>3. CASE a # c.app
  <2>1. a \in taken /\ Held(a) /\ a \in Appointment  BY <1>1, <1>3 DEF IInv, Typed
  <2>2. CASE \E d \in disk : d.locator = a.locator /\ d.nonce >= a.nonce
    <3>1. PICK d \in disk : d.locator = a.locator /\ d.nonce >= a.nonce  BY <2>2
    <3>2. CASE d = c.current
      <4>1. d \in Appointment /\ d # NoAppointment
        BY AppointmentAssumption DEF IInv, Typed
      <4>2. d = byLocator[c.app.locator] /\ d.nonce < c.app.nonce
        BY <1>1, <3>2, <4>1 DEF IInv, SeesLocator
      <4>3. c.app.locator \in Locators  BY <1>1 DEF Locators
      <4>4. d.locator = c.app.locator  BY <4>1, <4>2, <4>3 DEF IInv, IndexShape
      <4>5. a.nonce \in Nat /\ d.nonce \in Nat /\ c.app.nonce \in Nat
        BY <1>1, <2>1, <4>1, AppointmentAssumption
      <4>6. c.app.locator = a.locator /\ c.app.nonce >= a.nonce
        BY <3>1, <4>2, <4>4, <4>5
      <4> QED  BY <1>1, <4>6 DEF Held
    <3>3. CASE d # c.current
      BY <1>1, <3>1, <3>3 DEF Held
    <3> QED  BY <3>2, <3>3
  <2>3. CASE ~ \E d \in disk : d.locator = a.locator /\ d.nonce >= a.nonce
    BY <2>1, <2>3 DEF Held
  <2> QED  BY <2>2, <2>3
<1> QED  BY <1>2, <1>3

LEMMA HeldByDelete ==
    ASSUME IInv, Removals, \A x \in Decided : x.kind = "remove" => Justified(x),
           issued \subseteq issued', NEW c \in calls, DeleteRecord(c),
           \A a \in taken : Held(a), NEW a \in taken'
    PROVE  Held(a)'
<1>1. c.op = "remove" /\ disk' = disk \ {c.app} /\ taken' = taken
  BY DEF DeleteRecord
<1>2. c.by \in issued /\ c.by.kind = "remove" /\ c.by.app = c.app /\ Justified(c.by)
  BY <1>1 DEF Removals, Decided
<1>3. Held(a)  BY <1>1
<1>4. CASE \E d \in disk : d.locator = a.locator /\ d.nonce >= a.nonce
  <2>1. PICK d \in disk : d.locator = a.locator /\ d.nonce >= a.nonce  BY <1>4
  <2>2. CASE d = c.app
    BY <1>2, <2>1, <2>2 DEF Held
  <2>3. CASE d # c.app
    BY <1>1, <2>1, <2>3 DEF Held
  <2> QED  BY <2>2, <2>3
<1>5. CASE ~ \E d \in disk : d.locator = a.locator /\ d.nonce >= a.nonce
  BY <1>3, <1>5 DEF Held
<1> QED  BY <1>4, <1>5

LEMMA HeldNext ==
    ASSUME IInv, Removals, \A x \in Decided : x.kind = "remove" => Justified(x),
           \A a \in taken : Held(a), issued \subseteq issued', [Next]_vars
    PROVE  \A a \in taken' : Held(a)'
<1>1. ASSUME UNCHANGED <<disk, taken>> PROVE \A a \in taken' : Held(a)'
  BY <1>1 DEF Held
<1>2. ASSUME NEW c \in calls, ContinueCall(c) PROVE \A a \in taken' : Held(a)'
  <2>1. CASE WriteAdd(c)
    BY <2>1, HeldByWrite
  <2>2. CASE DeleteRecord(c)
    BY <2>2, HeldByDelete
  <2>3. CASE EnterAdd(c) \/ FinishAdd(c) \/ DeleteById(c)
    BY <1>1, <2>3 DEF EnterAdd, FinishAdd, DeleteById
  <2> QED  BY <1>2, <2>1, <2>2, <2>3 DEF ContinueCall
<1>3. CASE Api
  BY <1>1, <1>3 DEF Api, AddToWatch, BeginAdd, AddRelay, storeVars
<1>4. CASE \E t \in running : RunAction(t)
  BY <1>1, <1>4 DEF RunAction, Respond, StartRemoval, BeginRemove, EndRemoval, FinishRemove,
                    RemoveAction, storeVars
<1>5. CASE Chain \/ Store \/ Confirmation
  BY <1>1, <1>5 DEF Chain, ReceiveBlock, NewHead, Store, StoreActions, WriteEmitted,
                    StoreHeadNumber, Confirmation, ResponseConfirmed, storeVars
<1>6. CASE Stop \/ Starting
  BY <1>1, <1>6 DEF Stop, Crash, Starting, StartMachine, StartProcessor, StartStore,
                    StartResponderStore, LoadAppointments, storeVars
<1>7. CASE UNCHANGED vars
  BY <1>1, <1>7 DEF vars, storeVars
<1> QED  BY <1>2, <1>3, <1>4, <1>5, <1>6, <1>7 DEF Next

-----------------------------------------------------------------------------
(* What is given up *)

LEMMA FailuresStay ==
    ASSUME StateShape, [Next]_vars, NoBlockFailed', gaps' = {}
    PROVE  NoBlockFailed
<1>1. ASSUME UNCHANGED <<cached, anchor>> PROVE NoBlockFailed
  BY <1>1 DEF NoBlockFailed, NoState
<1>2. CASE Chain
  BY <1>1, <1>2, StatesReceive DEF Chain, NewHead
<1>3. CASE Stop
  BY <1>3, StatesStop
<1>4. CASE Api \/ (\E c \in calls : ContinueCall(c)) \/ (\E t \in running : RunAction(t))
  BY <1>1, <1>4 DEF Api, AddToWatch, AddRelay, ContinueCall, RunAction, Respond, StartRemoval,
                    EndRemoval, RemoveAction, machineVars
<1>5. CASE Store \/ Confirmation \/ Starting
  BY <1>1, <1>5 DEF Store, StoreActions, WriteEmitted, StoreHeadNumber, Confirmation,
                    ResponseConfirmed, Starting, StartMachine, StartProcessor, StartStore,
                    StartResponderStore, machineVars
<1>6. CASE UNCHANGED vars
  BY <1>1, <1>6 DEF vars, machineVars
<1> QED  BY <1>2, <1>3, <1>4, <1>5, <1>6 DEF Next

LEMMA AnsweredNext ==
    ASSUME StateShape, StatesTyped, HeadTyped, StatesRight, RemovalsAnswered,
           Undisturbed', [Next]_vars
    PROVE  RemovalsAnswered'
<1>1. ASSUME issued' = issued,
             emitting' = emitting \/ emitting'.actions = {}
      PROVE  RemovalsAnswered'
  BY <1>1 DEF RemovalsAnswered, AnsweredIfNeeded, Answers, AnswerDecided, Decided, Needed
<1>2. ASSUME NEW h \in Block, NewHead(h) PROVE RemovalsAnswered'
  <2> DEFINE state == anchor[h]
             prev == prevEmitted[h]
             due  == Changes(prev, state, h)
  <2>1. /\ emitting = Idle /\ h \in cached /\ UNCHANGED <<anchor, issued>>
    BY <1>2 DEF NewHead, actionVars
  <2>2. CASE state # NoState /\ ~DetectThrows(prev, state) /\ Emit(h, due, "actions")
    <3>1. emitting'.head = h /\ emitting'.actions = due /\ emitting'.pc = "actions"
      BY <2>2 DEF Emit
    <3>2. Decides(anchor[emitting.head])'  BY <3>1 DEF Undisturbed
    <3>3. \A a \in DOMAIN state.items :
             ShouldHaveStartedResponder(state, a) => AnswerDecided(a)'
      BY <2>1, <3>1, <3>2 DEF Decides, ShouldHaveStartedResponder, ItemOf, Depth, AnswerDecided,
                              Decided
    <3>4. ASSUME NEW x \in due, x.kind = "remove", Needed(x) PROVE AnswerDecided(x.app)'
      <4>1. x.app \in DOMAIN state.items /\ ShouldHaveStartedResponder(state, x.app)
        BY <2>1, <2>2, <3>4, ChangesAre
      <4> QED  BY <3>3, <4>1
    <3>5. \A x \in issued' : x.kind = "remove" => AnsweredIfNeeded(x)'
      BY <2>1 DEF RemovalsAnswered, AnsweredIfNeeded, Answers
    <3>6. \A x \in emitting'.actions :
              x.kind = "remove" /\ Needed(x) => AnswerDecided(x.app)'
      BY <3>1, <3>4
    <3> QED  BY <3>5, <3>6 DEF RemovalsAnswered, Needed
  <2>3. CASE UNCHANGED emitting \/ emitting'.actions = {}
    BY <1>1, <2>1, <2>3
  <2>4. \/ state # NoState /\ ~DetectThrows(prev, state) /\ Emit(h, due, "actions")
        \/ UNCHANGED emitting
        \/ \E pc \in {"batch", "number"} : Emit(h, {}, pc)
    BY <1>2 DEF NewHead
  <2>5. ASSUME NEW pc, Emit(h, {}, pc) PROVE emitting'.actions = {}
    BY <2>5 DEF Emit
  <2> QED  BY <2>2, <2>3, <2>4, <2>5
<1>3. CASE StoreActions
  <2>1. issued' = Decided /\ Decided' = Decided /\ emitting'.actions = {}
    BY <1>3 DEF StoreActions, Emit, Decided
  <2>2. \A a : (Answers(a) \/ AnswerDecided(a)) => Answers(a)'
    BY <2>1 DEF Answers, AnswerDecided, Decided
  <2>3. ASSUME NEW x \in issued', x.kind = "remove" PROVE AnsweredIfNeeded(x)'
    <3>1. Needed(x) => Answers(x.app) \/ AnswerDecided(x.app)
      BY <2>1, <2>3 DEF RemovalsAnswered, AnsweredIfNeeded, Needed, Decided
    <3> QED  BY <2>2, <3>1 DEF AnsweredIfNeeded, Needed
  <2> QED  BY <2>1, <2>3 DEF RemovalsAnswered
<1>4. CASE (\E b \in Block : ReceiveBlock(b)) \/ UNCHANGED vars
  BY <1>1, <1>4 DEF ReceiveBlock, vars, machineVars, actionVars
<1>5. CASE WriteEmitted \/ StoreHeadNumber \/ Stop
  <2>1. issued' = issued /\ emitting'.actions = {}
    BY <1>5 DEF WriteEmitted, StoreHeadNumber, Stop, Emit, Idle, actionVars
  <2> QED  BY <1>1, <2>1
<1>6. CASE Api \/ (\E c \in calls : ContinueCall(c)) \/ Confirmation
  BY <1>1, <1>6 DEF Api, AddToWatch, AddRelay, ContinueCall, Confirmation, ResponseConfirmed,
                    machineVars, actionVars
<1>7. CASE \E t \in running : RunAction(t)
  BY <1>1, <1>7 DEF RunAction, Respond, StartRemoval, EndRemoval, RemoveAction, machineVars
<1>8. CASE Starting
  BY <1>1, <1>8 DEF Starting, StartMachine, StartProcessor, StartStore, StartResponderStore,
                    machineVars, actionVars
<1> QED  BY <1>2, <1>3, <1>4, <1>5, <1>6, <1>7, <1>8 DEF Next, Chain, Store

-----------------------------------------------------------------------------
(* The invariant of the tower *)

LEMMA HistoryNext == HistoryTyped /\ [Next]_vars => HistoryTyped'
<1> SUFFICES ASSUME HistoryTyped, [Next]_vars PROVE HistoryTyped'  OBVIOUS
<1>1. CASE Stop
  <2>1. /\ restarts < MaxRestarts /\ restarts' = restarts + 1 /\ minHeight' = 0
        /\ gaps' \subseteq gaps \cup {"torn"}
    BY <1>1 DEF Stop
  <2>2. restarts' \in 0 .. MaxRestarts  BY <2>1, TowerAssumption DEF HistoryTyped
  <2> QED  BY <2>1, <2>2 DEF HistoryTyped
<1>2. CASE UNCHANGED <<restarts, minHeight, gaps>>
  BY <1>2 DEF HistoryTyped
<1>3. ASSUME NEW b \in Block, ReceiveBlock(b), UNCHANGED towerVars PROVE HistoryTyped'
  <2>1. /\ minHeight' = (IF isEmpty THEN Number[b] ELSE minHeight)
        /\ gaps' \subseteq gaps \cup {"empty", "height"} /\ UNCHANGED restarts
    BY <1>3 DEF ReceiveBlock, NoteGap, towerVars
  <2>2. minHeight' \in Nat  BY <2>1, WatcherAssumption DEF HistoryTyped
  <2> QED  BY <2>1, <2>2 DEF HistoryTyped
<1>4. CASE Api \/ (\E c \in calls : ContinueCall(c)) \/ (\E t \in running : RunAction(t))
  BY <1>2, <1>4 DEF Api, AddToWatch, AddRelay, ContinueCall, RunAction, Respond, StartRemoval,
                    EndRemoval, RemoveAction, machineVars, towerVars
<1>5. CASE ((\E b \in Block : NewHead(b)) /\ UNCHANGED towerVars) \/ Store \/ Confirmation
  BY <1>2, <1>5 DEF NewHead, Store, StoreActions, WriteEmitted, StoreHeadNumber, Confirmation,
                    ResponseConfirmed, machineVars, towerVars
<1>6. CASE Starting
  BY <1>2, <1>6 DEF Starting, StartMachine, StartProcessor, StartStore, StartResponderStore,
                    machineVars, towerVars
<1>7. CASE UNCHANGED vars
  BY <1>2, <1>7 DEF vars, machineVars, towerVars
<1> QED  BY <1>1, <1>3, <1>4, <1>5, <1>6, <1>7 DEF Next, Chain

TowerInv == IInv /\ RInv /\ HInv /\ TInv /\ WInv /\ AInv /\ OneQueue

LEMMA TowerInit == Init => TowerInv
<1> SUFFICES ASSUME Init PROVE TowerInv  OBVIOUS
<1>1. IInv  BY InitStore DEF Init
<1>2. RInv  BY DEF Init, RInv
<1>3. HInv  BY HeadsInit
<1>4. /\ Root \in Block /\ Number[Root] \in Nat
      /\ cached = {Root} /\ onDisk = {Root} /\ head = Root /\ storedHead = Number[Root]
      /\ anchor = NothingKnown /\ emitting = Idle /\ phase = "started" /\ loaded = TRUE
      /\ actionStore = {} /\ running = {} /\ issued = {} /\ queue = {} /\ storedQueue = {}
      /\ failures = 0 /\ signed = {}
      /\ restarts = 0 /\ minHeight = Number[Root] /\ gaps = {} /\ calls = {} /\ taken = {}
  BY TowerAssumption, WatcherAssumption DEF Init, EmptyStore
<1>5. anchor[Root] = [number |-> Number[Root], items |-> <<>>]
  BY <1>4 DEF NothingKnown
<1>6. DOMAIN anchor[Root].items = {}  BY <1>5
<1>7. StatesTyped /\ StatesRight
  BY <1>4, <1>5, <1>6 DEF StatesTyped, StatesRight
<1>8. emitting.pc = "idle" /\ emitting.actions = {} /\ Decided = {}
  BY <1>4 DEF Decided, Idle
<1>9. HeadTyped  BY <1>4, <1>8 DEF HeadTyped, Active
<1>10. ActionsTyped /\ QueueTyped
  <2>1. MaxFailures \in Nat  BY WatcherAssumption
  <2>2. failures \in 0 .. MaxFailures  BY <1>4, <2>1
  <2> QED  BY <1>4, <1>8, <2>2 DEF ActionsTyped, QueueTyped
<1>11. HistoryTyped
  <2>1. MaxRestarts \in Nat  BY TowerAssumption
  <2>2. restarts \in 0 .. MaxRestarts  BY <1>4, <2>1
  <2> QED  BY <1>4, <2>2 DEF HistoryTyped
<1>12. TInv  BY <1>3, <1>7, <1>9, <1>10, <1>11 DEF TInv, HInv
<1>13. Removals /\ Unbroken  BY <1>4 DEF Removals, Unbroken
<1>14. WInv  BY <1>4, <1>7, <1>8, <1>13 DEF WInv, Intact
<1>15. AInv /\ OneQueue  BY <1>4, <1>8 DEF AInv, RemovalsAnswered, OneQueue
<1> QED  BY <1>1, <1>2, <1>3, <1>12, <1>14, <1>15 DEF TowerInv

LEMMA TowerNext == TowerInv /\ [Next]_vars => TowerInv'
<1> SUFFICES ASSUME TowerInv, [Next]_vars PROVE TowerInv'  OBVIOUS
<1> USE DEF TowerInv
<1>1. IInv'  BY TowerStep, NextStore
<1>2. RInv' /\ HInv'  BY ResponsesNext, HeadsNext
<1>3. StateShape /\ StateShape'  BY <1>2 DEF HInv
<1>4. /\ StatesTyped'
      /\ gaps' = {} /\ Unbroken /\ StatesRight => Unbroken' /\ StatesRight'
  BY StatesNext DEF TInv
<1>5. HeadTyped' /\ QueueTyped' /\ HistoryTyped'
  BY HeadNext, QueueNext, HistoryNext DEF TInv
<1>6. /\ ActionsTyped' /\ issued \subseteq issued'
      /\ StatesRight => \A x \in Decided' : x \in Decided \/ (x.kind = "remove" => Justified(x))
  BY ActionsNext DEF TInv
<1>7. TInv'  BY <1>3, <1>4, <1>5, <1>6 DEF TInv
<1>8. Removals'  BY <1>6, RemovalsNext DEF TInv, WInv
<1>9. ASSUME gaps' = {} PROVE Intact /\ Intact'
  <2>1. Intact  BY <1>9, GapsStay DEF WInv
  <2>2. Unbroken' /\ StatesRight'  BY <1>4, <1>9, <2>1 DEF Intact
  <2>3. \A x \in Decided' : x.kind = "remove" => Justified(x)
    BY <1>6, <2>1 DEF Intact
  <2>4. \A a \in taken' : Held(a)'
    BY <1>6, <2>1, HeldNext DEF Intact, WInv
  <2> QED  BY <2>1, <2>2, <2>3, <2>4 DEF Intact
<1>10. WInv'  BY <1>8, <1>9 DEF WInv
<1>11. ASSUME gaps' = {}, NoBlockFailed' PROVE RemovalsAnswered'
  <2>1. gaps = {} /\ NoBlockFailed  BY <1>3, <1>11, GapsStay, FailuresStay
  <2>2. RemovalsAnswered /\ StatesRight  BY <1>9, <1>11, <2>1 DEF AInv, Intact
  <2>3. Undisturbed'  BY <1>2, <1>11 DEF HInv
  <2> QED  BY <1>3, <2>2, <2>3, AnsweredNext DEF TInv
<1>12. AInv'  BY <1>11 DEF AInv
<1>13. OneQueue'  BY OneQueueNext DEF TInv
<1> QED  BY <1>1, <1>2, <1>7, <1>10, <1>12, <1>13

LEMMA TowerInvariant == Spec => []TowerInv
BY TowerInit, TowerNext, PTL DEF Spec

(* The watcher's and the tower's state has its types: what runs is in the   *)
(* database of the actions, and an observed block is at or below the head   *)
(* it was observed from.                                                    *)
THEOREM TowerTyped == Spec => []TypeOK
<1>1. TowerInv => TypeOK
  <2> SUFFICES ASSUME TowerInv PROVE TypeOK  OBVIOUS
  <2>1. /\ disk \subseteq Appointment /\ byId \subseteq Appointment
        /\ onDisk \subseteq cached /\ cached \subseteq Block
    BY DEF TowerInv, IInv, Typed, TInv, StateShape
  <2>2. /\ head \in cached \cup {NoBlock} /\ storedHead \in {Number[b] : b \in Block}
        /\ phase \in {"down", "booting", "emitting", "started"} /\ loaded \in BOOLEAN
        /\ loaded => phase \in {"emitting", "started"}
        /\ phase = "started" => loaded
        /\ emitting.pc \in {"idle", "actions", "batch", "number"}
    <3>1. HeadTyped  BY DEF TowerInv, TInv
    <3>2. head \in cached \cup {NoBlock}  BY <3>1 DEF HeadTyped
    <3>3. storedHead \in {Number[b] : b \in Block}  BY <3>1 DEF HeadTyped
    <3>4. phase \in {"down", "booting", "emitting", "started"} /\ loaded \in BOOLEAN
      BY <3>1 DEF HeadTyped
    <3>5. /\ loaded => phase \in {"emitting", "started"}
          /\ phase = "started" => loaded
      BY <3>1 DEF HeadTyped, Active
    <3>6. emitting.pc \in {"idle", "actions", "batch", "number"}  BY <3>1 DEF HeadTyped
    <3> QED  BY <3>2, <3>3, <3>4, <3>5, <3>6
  <2>3. /\ {t.act : t \in running} \subseteq actionStore /\ actionStore \subseteq issued
        /\ \A x \in issued : x.kind = "respond" => x.observed \in 0 .. Number[x.at]
    BY DEF TowerInv, TInv, ActionsTyped, Decided
  <2>4. /\ \A q \in queue : q.app \in answered /\ q.gas \in 1 .. MaxGasPrice
        /\ failures \in 0 .. MaxFailures
        /\ signed \subseteq Appointment
    BY DEF TowerInv, TInv, QueueTyped
  <2>5. /\ restarts \in 0 .. MaxRestarts
        /\ minHeight \in Nat /\ gaps \subseteq {"empty", "height", "torn"}
    BY DEF TowerInv, TInv, HistoryTyped
  <2> QED  BY <2>1, <2>2, <2>3, <2>4, <2>5 DEF TypeOK
<1> QED  BY <1>1, TowerInvariant, PTL

(* On any block tree, the state of a block is what a scan of its chain from *)
(* the block to the root finds, whenever the appointments came and whatever *)
(* failed, as long as every block lies on its parent.                       *)
THEOREM StatesMatchTheChain == Spec => []AnchorMatchesChain
<1>1. TowerInv => AnchorMatchesChain
  <2> SUFFICES ASSUME TowerInv, gaps = {} PROVE \A b \in cached : Fresh(b) =>
                  \A a \in DOMAIN anchor[b].items : Right(anchor[b].items[a], b, a)
    BY DEF AnchorMatchesChain, Fresh, Right
  <2> QED  BY DEF TowerInv, WInv, Intact, StatesRight
<1> QED  BY <1>1, TowerInvariant, PTL

(* Nothing but a larger nonce at its locator, or a removal that the chain   *)
(* justifies, takes an appointment from the database, through any replaced, *)
(* removed and crashed call.                                                *)
THEOREM AcceptedIsHeld == Spec => []AcceptedIsHeldUntilDone
<1>1. TowerInv => AcceptedIsHeldUntilDone
  <2> SUFFICES ASSUME TowerInv, gaps = {}, NEW a \in taken
               PROVE  \/ \E d \in disk : d.locator = a.locator /\ d.nonce >= a.nonce
                      \/ \E x \in issued :
                            /\ x.kind = "remove"
                            /\ x.app.locator = a.locator /\ x.app.nonce >= a.nonce
                            /\ Fulfilled(x.app, x.at) \/ Expired(x.app, x.at)
    BY DEF AcceptedIsHeldUntilDone
  <2>1. Held(a)  BY DEF TowerInv, WInv, Intact
  <2> QED  BY <2>1 DEF Held, Justified
<1> QED  BY <1>1, TowerInvariant, PTL

(* On any block tree, the watcher gives up an appointment whose event is on *)
(* the chain only after it decided to respond to it, as long as every block *)
(* lies on its parent and got its state.                                    *)
THEOREM GivenUpIsAnswered == Spec => []RemovedOnlyAnswered
<1>1. TowerInv => RemovedOnlyAnswered
  BY DEF TowerInv, AInv, RemovalsAnswered, RemovedOnlyAnswered
<1> QED  BY <1>1, TowerInvariant, PTL

(* Once the service has started, the queue in the responder's memory is the *)
(* one in its database: after any failed write, and any number of stops.    *)
THEOREM QueueIsStored == Spec => []OneQueue
<1>1. TowerInv => OneQueue  BY DEF TowerInv
<1> QED  BY <1>1, TowerInvariant, PTL
=============================================================================

--------------------------- MODULE PISAHashProofs ---------------------------
(***************************************************************************)
(* What PISAHash guarantees for every set of appointments and modes, every *)
(* interval and every number of blocks and responses.                      *)
(***************************************************************************)
EXTENDS PISAHash, FiniteSetTheorems, WellFoundedInduction, NaturalsInduction, TLAPS

Log == [nonce : Nat, refund : Nat, refundby : Nat, triggered : BOOLEAN]

Shard == [created : Nat, records : SUBSET [time : Nat, app : Appointment]]

(* The type of what the proofs look at. *)
Typed ==
    /\ block \in Nat /\ shards \in [ShardIndex -> Shard]
    /\ cheated \in [Id -> Log]
    /\ responses \subseteq [app : Appointment, at : Nat, born : Nat]
    /\ recourses \subseteq [app : Appointment, at : Nat]

(* The log has the largest nonce that was recoursed. *)
NonceCoversRecourses ==
    \A c \in recourses : c.app.nonce <= cheated[c.app.id].nonce /\ c.at <= block

(* A shard has records only if it was created. *)
OnlyCreatedShardsFilled ==
    \A i \in ShardIndex : shards[i].records # {} => shards[i].created <= block

(* A response is in the shard it was recorded in, until that one is old. *)
Kept(r) ==
    \E i \in ShardIndex : /\ shards[i].created = r.born
                          /\ [time |-> r.at, app |-> r.app] \in shards[i].records

ResponsesKept ==
    \A r \in responses :
        r.at <= block /\ (Kept(r) \/ block - r.born >= 2 * Interval)

IInv ==
    /\ Typed /\ NonceCoversRecourses /\ OnlyCreatedShardsFilled /\ ResponsesKept
    /\ RecoursedOnce /\ AnsweredIsSafe

USE PISAAssumption, RegistryAssumption

-----------------------------------------------------------------------------
(* The shards *)

(* An index of time is one of the shards. *)
LEMMA IndexInRange == \A t \in Nat : GetDataShardIndex(t) \in ShardIndex
BY DEF GetDataShardIndex, ShardIndex, TotalShards

LEMMA ResetType ==
    ASSUME NEW s \in Shard, block \in Nat
    PROVE  ResetDataShard(s) \in Shard
BY DEF ResetDataShard, NewShard, Shard

(* A shard that was replaced had no records, or was two intervals old. *)
LEMMA ResetKeeps ==
    ASSUME NEW s \in Shard, block \in Nat, s.records # {} => s.created <= block
    PROVE  \/ ResetDataShard(s) = s
           \/ s.records = {} \/ block - s.created >= 2 * Interval
BY DEF ResetDataShard, Outlived, Shard

(* What replacing some of the shards does to the two invariants on records. *)
LEMMA SomeReset ==
    ASSUME Typed, OnlyCreatedShardsFilled, ResponsesKept,
           shards' \in [ShardIndex -> Shard], block' = block,
           \A i \in ShardIndex :
              \/ shards'[i] = shards[i] \/ shards'[i] = ResetDataShard(shards[i])
    PROVE  /\ OnlyCreatedShardsFilled'
           /\ \A r \in responses : Kept(r)' \/ block - r.born >= 2 * Interval
<1>1. OnlyCreatedShardsFilled'
  BY DEF OnlyCreatedShardsFilled, ResetDataShard, NewShard, Typed
<1>2. ASSUME NEW r \in responses PROVE Kept(r)' \/ block - r.born >= 2 * Interval
  <2>1. CASE block - r.born >= 2 * Interval  BY <2>1
  <2>2. CASE Kept(r)
    <3>1. PICK i \in ShardIndex : /\ shards[i].created = r.born
                                  /\ [time |-> r.at, app |-> r.app] \in shards[i].records
      BY <2>2 DEF Kept
    <3>2. shards[i] \in Shard /\ block \in Nat /\ shards[i].created <= block
      BY <3>1 DEF Typed, OnlyCreatedShardsFilled
    <3>3. CASE shards'[i] = shards[i]  BY <3>1, <3>3 DEF Kept
    <3>4. CASE shards'[i] = ResetDataShard(shards[i])
      <4>1. CASE ResetDataShard(shards[i]) = shards[i]
        BY <3>1, <3>4, <4>1 DEF Kept
      <4>2. CASE block - shards[i].created >= 2 * Interval
        BY <3>1, <4>2
      <4> QED  BY <3>1, <3>2, <4>1, <4>2, ResetKeeps
    <3> QED  BY <3>3, <3>4
  <2> QED  BY <2>1, <2>2 DEF ResponsesKept
<1> QED  BY <1>1, <1>2

-----------------------------------------------------------------------------
THEOREM InitIInv == Init => IInv
<1> SUFFICES ASSUME Init PROVE IInv
  OBVIOUS
<1>1. Typed
  <2>1. shards \in [ShardIndex -> Shard]
    BY IndexInRange DEF Init, RegistryInit, NewShard, Shard
  <2> QED  BY <2>1 DEF Init, RegistryInit, Typed, NoLog, Log
<1>2. OnlyCreatedShardsFilled
  BY DEF Init, RegistryInit, OnlyCreatedShardsFilled, NewShard
<1> QED
  BY <1>1, <1>2 DEF Init, IInv, NonceCoversRecourses, ResponsesKept, RecoursedOnce, AnsweredIsSafe

(* The steps that leave records and recourses alone, and lower no nonce. *)
LEMMA OtherSteps ==
    ASSUME IInv, UNCHANGED <<shards, responses, recourses>>,
           block' \in Nat, block <= block',
           cheated' \in [Id -> Log],
           \A id \in Id : cheated[id].nonce <= cheated'[id].nonce
    PROVE  IInv'
<1>1. Typed'  BY DEF IInv, Typed
<1>2. NonceCoversRecourses'
  <2> SUFFICES ASSUME NEW c \in recourses
               PROVE  c.app.nonce <= cheated'[c.app.id].nonce /\ c.at <= block'
    BY DEF NonceCoversRecourses
  <2>1. c.app \in Appointment /\ c.at \in Nat /\ c.app.nonce \in Nat /\ c.app.id \in Id
    BY DEF IInv, Typed, Id
  <2>2. cheated[c.app.id].nonce \in Nat /\ cheated'[c.app.id].nonce \in Nat
    BY <2>1 DEF IInv, Typed, Log
  <2>3. c.app.nonce <= cheated[c.app.id].nonce /\ c.at <= block /\ block \in Nat
    BY DEF IInv, Typed, NonceCoversRecourses
  <2> QED  BY <2>1, <2>2, <2>3
<1>3. OnlyCreatedShardsFilled'
  BY DEF IInv, Typed, OnlyCreatedShardsFilled, Shard
<1>4. ResponsesKept'
  <2> SUFFICES ASSUME NEW r \in responses
               PROVE  r.at <= block' /\ (Kept(r)' \/ block' - r.born >= 2 * Interval)
    BY DEF ResponsesKept
  <2>1. r.at \in Nat /\ r.born \in Nat /\ block \in Nat  BY DEF IInv, Typed
  <2>2. r.at <= block /\ (Kept(r) \/ block - r.born >= 2 * Interval)
    BY DEF IInv, ResponsesKept
  <2>3. Kept(r) => Kept(r)'  BY DEF Kept
  <2> QED  BY <2>1, <2>2, <2>3
<1>5. RecoursedOnce' /\ AnsweredIsSafe'
  BY DEF IInv, RecoursedOnce, AnsweredIsSafe
<1> QED  BY <1>1, <1>2, <1>3, <1>4, <1>5 DEF IInv

(* A response enters the shard of its block. *)
LEMMA RespondStep ==
    ASSUME IInv, NEW w \in Watcher, NEW a \in Appointment, Respond(w, a)
    PROVE  IInv'
<1> DEFINE i == GetDataShardIndex(block)
           s == ResetDataShard(shards[i])
           rec == [time |-> block, app |-> a]
<1>1. /\ i \in ShardIndex /\ block \in Nat /\ s \in Shard
      /\ shards' = [shards EXCEPT ![i] = [s EXCEPT !.records = @ \cup {rec}]]
      /\ responses' = responses \cup {[app |-> a, at |-> block, born |-> shards'[i].created]}
      /\ UNCHANGED <<block, cheated, recourses>>
  BY IndexInRange, ResetType DEF IInv, Typed, Respond, SetRecord, logVars
<1>2. /\ shards'[i].created = s.created
      /\ shards'[i].records = s.records \cup {rec}
      /\ \A j \in ShardIndex \ {i} : shards'[j] = shards[j]
      /\ shards' \in [ShardIndex -> Shard]
  <2>1. [s EXCEPT !.records = @ \cup {rec}] \in Shard
    BY <1>1 DEF Shard
  <2> QED  BY <1>1, <2>1 DEF IInv, Typed, Shard
<1>3. s.created <= block
  BY <1>1 DEF ResetDataShard, Outlived, NewShard, IInv, Typed, Shard
<1>4. Typed'
  BY <1>1, <1>2 DEF IInv, Typed, Shard
<1>5. OnlyCreatedShardsFilled'
  BY <1>1, <1>2, <1>3 DEF IInv, OnlyCreatedShardsFilled
<1>6. ResponsesKept'
  <2> SUFFICES ASSUME NEW r \in responses'
               PROVE  r.at <= block /\ (Kept(r)' \/ block - r.born >= 2 * Interval)
    BY <1>1 DEF ResponsesKept
  <2>1. CASE r = [app |-> a, at |-> block, born |-> shards'[i].created]
    BY <2>1, <1>1, <1>2 DEF Kept
  <2>2. CASE r \in responses /\ block - r.born >= 2 * Interval
    BY <2>2 DEF IInv, ResponsesKept
  <2>3. CASE r \in responses /\ Kept(r)
    <3>1. PICK j \in ShardIndex : /\ shards[j].created = r.born
                                  /\ [time |-> r.at, app |-> r.app] \in shards[j].records
      BY <2>3 DEF Kept
    <3>2. CASE j # i  BY <2>3, <3>1, <3>2, <1>2 DEF Kept, IInv, ResponsesKept
    <3>3. CASE j = i /\ s = shards[i]
      BY <2>3, <3>1, <3>3, <1>1, <1>2 DEF Kept, IInv, ResponsesKept
    <3>4. CASE j = i /\ block - shards[i].created >= 2 * Interval
      BY <2>3, <3>1, <3>4 DEF IInv, ResponsesKept
    <3>5. shards[i] \in Shard /\ (shards[i].records # {} => shards[i].created <= block)
      BY <1>1 DEF IInv, Typed, OnlyCreatedShardsFilled
    <3> QED  BY <1>1, <3>1, <3>2, <3>3, <3>4, <3>5, ResetKeeps
  <2> QED  BY <1>1, <2>1, <2>2, <2>3 DEF IInv, ResponsesKept
<1>7. NonceCoversRecourses' /\ RecoursedOnce'
  BY <1>1 DEF IInv, NonceCoversRecourses, RecoursedOnce
<1>8. AnsweredIsSafe'
  <2> SUFFICES ASSUME NEW c \in recourses, NEW r \in responses', r.at < c.at,
                      r.app.id = c.app.id, r.app.nonce >= c.app.nonce
               PROVE  c.at - r.born >= 2 * Interval
    BY <1>1 DEF AnsweredIsSafe
  <2>1. c.at \in Nat /\ c.at <= block
    BY DEF IInv, Typed, NonceCoversRecourses
  <2>2. r \in responses
    BY <1>1, <2>1
  <2> QED  BY <2>2 DEF IInv, AnsweredIsSafe
<1> QED  BY <1>4, <1>5, <1>6, <1>7, <1>8 DEF IInv

(* A recourse that succeeds found no response in any shard; the ones it     *)
(* contradicts were discarded with a shard of two intervals.                *)
LEMMA RecourseStep ==
    ASSUME IInv, NEW a \in Appointment, Recourse(a)
    PROVE  IInv'
<1>1. /\ shards' = Refreshed
      /\ recourses' = recourses \cup {[app |-> a, at |-> block]}
      /\ a.nonce > cheated[a.id].nonce
      /\ cheated' = [cheated EXCEPT ![a.id] =
                        [nonce |-> a.nonce, refund |-> a.refund + ChallengeBond,
                         refundby |-> block + CheatedTimer, triggered |-> TRUE]]
      /\ UNCHANGED <<block, responses>>
      /\ \E w \in TimeWindows(a) : ~DidPISARespond(a, w)
  BY DEF Recourse
<1>2. /\ a.id \in Id /\ a.nonce \in Nat /\ a.refund \in Nat /\ block \in Nat
      /\ cheated \in [Id -> Log] /\ cheated[a.id].nonce \in Nat
  BY DEF IInv, Typed, Id, Log
<1>3. cheated' \in [Id -> Log] /\ \A id \in Id : cheated[id].nonce <= cheated'[id].nonce
  <2>1. [nonce |-> a.nonce, refund |-> a.refund + ChallengeBond,
         refundby |-> block + CheatedTimer, triggered |-> TRUE] \in Log
    BY <1>2 DEF Log
  <2>2. \A id \in Id : cheated[id].nonce \in Nat
    BY <1>2 DEF Log
  <2> QED  BY <1>1, <1>2, <2>1, <2>2
<1>4. /\ shards' \in [ShardIndex -> Shard]
      /\ \A i \in ShardIndex : shards'[i] = ResetDataShard(shards[i])
  BY <1>1, <1>2, ResetType DEF Refreshed, IInv, Typed
<1>5. /\ OnlyCreatedShardsFilled'
      /\ \A r \in responses : Kept(r)' \/ block - r.born >= 2 * Interval
  BY <1>1, <1>4, SomeReset DEF IInv
<1>6. Typed'
  BY <1>1, <1>2, <1>3, <1>4 DEF IInv, Typed
<1>7. ResponsesKept'
  BY <1>1, <1>5 DEF ResponsesKept, IInv
<1>8. NonceCoversRecourses'
  <2> SUFFICES ASSUME NEW c \in recourses'
               PROVE  c.app.nonce <= cheated'[c.app.id].nonce /\ c.at <= block
    BY <1>1 DEF NonceCoversRecourses
  <2>1. CASE c = [app |-> a, at |-> block]
    BY <2>1, <1>1, <1>2
  <2>2. CASE c \in recourses
    <3>1. c.app \in Appointment /\ c.app.id \in Id /\ c.app.nonce \in Nat
      BY <2>2 DEF IInv, Typed, Id
    <3>2. cheated[c.app.id].nonce \in Nat /\ cheated'[c.app.id].nonce \in Nat
      BY <3>1, <1>2, <1>3 DEF Log
    <3>3. c.app.nonce <= cheated[c.app.id].nonce /\ c.at <= block
      BY <2>2 DEF IInv, NonceCoversRecourses
    <3> QED  BY <1>3, <3>1, <3>2, <3>3
  <2> QED  BY <1>1, <2>1, <2>2
<1>9. RecoursedOnce'
  <2>1. \A c \in recourses : c.app # a
    <3> SUFFICES ASSUME NEW c \in recourses, c.app = a PROVE FALSE
      OBVIOUS
    <3>1. a.nonce <= cheated[a.id].nonce
      BY DEF IInv, NonceCoversRecourses
    <3> QED  BY <3>1, <1>1, <1>2
  <2> QED  BY <1>1, <2>1 DEF IInv, RecoursedOnce
<1>10. AnsweredIsSafe'
  <2> SUFFICES ASSUME NEW c \in recourses', NEW r \in responses, r.at < c.at,
                      r.app.id = c.app.id, r.app.nonce >= c.app.nonce
               PROVE  c.at - r.born >= 2 * Interval
    BY <1>1 DEF AnsweredIsSafe
  <2>1. CASE c \in recourses  BY <2>1 DEF IInv, AnsweredIsSafe
  <2>2. CASE c = [app |-> a, at |-> block]
    <3>1. CASE block - r.born >= 2 * Interval  BY <2>2, <3>1
    <3>2. CASE Kept(r)'
      <4>1. PICK i \in ShardIndex : [time |-> r.at, app |-> r.app] \in Refreshed[i].records
        BY <3>2, <1>1 DEF Kept
      <4>2. [time |-> r.at, app |-> r.app] \in FetchRecords
        BY <4>1 DEF FetchRecords
      <4>3. \A w \in TimeWindows(a) : DidPISARespond(a, w)
        BY <2>2, <4>2 DEF DidPISARespond
      <4> QED  BY <1>1, <4>3
    <3> QED  BY <1>5, <3>1, <3>2
  <2> QED  BY <1>1, <2>1, <2>2
<1> QED  BY <1>5, <1>6, <1>7, <1>8, <1>9, <1>10 DEF IInv

-----------------------------------------------------------------------------
THEOREM NextIInv == IInv /\ [Next]_vars => IInv'
<1> SUFFICES ASSUME IInv, [Next]_vars PROVE IInv'
  OBVIOUS
<1>0. block \in Nat /\ cheated \in [Id -> Log] /\ \A id \in Id : cheated[id].nonce \in Nat
  BY DEF IInv, Typed, Log
<1>1. CASE NextBlock \/ UNCHANGED vars
  BY <1>1, <1>0, OtherSteps DEF NextBlock, Mine, vars, registryVars, logVars, history
<1>2. ASSUME NEW w \in Watcher, InstallWatcher(w) PROVE IInv'
  BY <1>2, <1>0, OtherSteps DEF InstallWatcher, registryVars, logVars, history
<1>3. ASSUME NEW m \in Mode, InstallMode(m) PROVE IInv'
  BY <1>3, <1>0, OtherSteps DEF InstallMode, registryVars, logVars, history
<1>4. ASSUME NEW w \in Watcher, NEW a \in Appointment, Respond(w, a) PROVE IInv'
  BY <1>4, RespondStep
<1>5. ASSUME NEW a \in Appointment, Recourse(a) PROVE IInv'
  BY <1>5, RecourseStep
<1>6. ASSUME NEW a \in Appointment, CancelledAppointment(a) PROVE IInv'
  <2>1. a.id \in Id /\ a.nonce \in Nat /\ a.nonce > cheated[a.id].nonce
    BY <1>6 DEF CancelledAppointment, Id
  <2>2. [Cleared(cheated[a.id]) EXCEPT !.nonce = a.nonce] \in Log
    BY <1>0, <2>1 DEF Cleared, Log
  <2>3. /\ cheated' = [cheated EXCEPT ![a.id] = [Cleared(cheated[a.id]) EXCEPT !.nonce = a.nonce]]
        /\ UNCHANGED <<block, shards, responses, recourses>>
    BY <1>6 DEF CancelledAppointment, registryVars
  <2>4. cheated'[a.id].nonce = a.nonce
    BY <1>0, <2>1, <2>3 DEF Cleared, Log
  <2>5. cheated' \in [Id -> Log] /\ \A id \in Id : cheated[id].nonce <= cheated'[id].nonce
    BY <1>0, <2>1, <2>2, <2>3, <2>4
  <2> QED  BY <1>0, <2>3, <2>5, OtherSteps
<1>7. ASSUME NEW id \in Id, RefundCustomer(id) \/ Forfeit(id) PROVE IInv'
  <2>1. Cleared(cheated[id]) \in Log /\ Cleared(cheated[id]).nonce = cheated[id].nonce
    BY <1>0 DEF Cleared, Log
  <2>2. /\ cheated' = [cheated EXCEPT ![id] = Cleared(cheated[id])]
        /\ UNCHANGED <<block, shards, responses, recourses>>
    BY <1>7 DEF RefundCustomer, Forfeit, registryVars, history
  <2>3. cheated' \in [Id -> Log] /\ \A x \in Id : cheated[x].nonce <= cheated'[x].nonce
    BY <1>0, <2>1, <2>2
  <2> QED  BY <1>0, <2>2, <2>3, OtherSteps
<1>8. ASSUME NEW p \in Party, Withdraw(p) PROVE IInv'
  BY <1>8, <1>0, OtherSteps DEF Withdraw, registryVars, logVars, history
<1>9. CASE FailSafe
  BY <1>9, <1>0, OtherSteps DEF FailSafe, registryVars, history
<1> QED
  BY <1>1, <1>2, <1>3, <1>4, <1>5, <1>6, <1>7, <1>8, <1>9 DEF Next

(* An appointment is recoursed with success at most once, whatever was      *)
(* refunded, cancelled or forfeited in between (recourse,                   *)
(* cancelledAppointment).                                                   *)
THEOREM RecourseOnce == Spec => []RecoursedOnce
<1>1. IInv => RecoursedOnce  BY DEF IInv
<1> QED  BY InitIInv, NextIInv, <1>1, PTL DEF Spec

(* A response protects from recourse for its and every lower nonce until    *)
(* its shard is two intervals old (didPISARespond, resetDataShard).         *)
THEOREM AnsweredAppointmentsAreSafe == Spec => []AnsweredIsSafe
<1>1. IInv => AnsweredIsSafe  BY DEF IInv
<1> QED  BY InitIInv, NextIInv, <1>1, PTL DEF Spec

-----------------------------------------------------------------------------
(* The types *)

Logs == [Id -> Log]

LogShape ==
    \A id \in Id : IF cheated[id].triggered
                   THEN cheated[id].refund >= ChallengeBond /\ cheated[id].refundby > 0
                   ELSE cheated[id].refund = 0 /\ cheated[id].refundby = 0

Counters ==
    /\ pendingrefunds \in 0 .. MaxUint /\ balance \in Nat
    /\ refunds \in [Party -> Nat]

TInv == TypeOK /\ block \in Nat /\ cheated \in Logs /\ LogShape /\ Counters

(* uint arithmetic stays in range, also where it wraps. *)
LEMMA UintRange ==
    \A n \in 0 .. MaxUint : Plus1(n) \in 0 .. MaxUint /\ Minus1(n) \in 0 .. MaxUint
BY DEF Plus1, Minus1

LEMMA NextTInv == TInv /\ [Next]_vars => TInv'
<1> SUFFICES ASSUME TInv, [Next]_vars PROVE TInv'
  OBVIOUS
<1> USE DEF TInv, TypeOK, LogShape, Counters, vars, registryVars, logVars, moneyVars, history
<1>1. CASE NextBlock
  <2>1. block' \in DeployBlock .. MaxBlock /\ block' \in Nat
    BY <1>1 DEF NextBlock, Mine
  <2> QED  BY <1>1, <2>1 DEF NextBlock
<1>9. CASE FailSafe
  BY <1>9 DEF FailSafe
<1>10. CASE UNCHANGED vars
  BY <1>10
<1>2. ASSUME NEW w \in Watcher, InstallWatcher(w) PROVE TInv'
  BY <1>2 DEF InstallWatcher
<1>3. ASSUME NEW m \in Mode, InstallMode(m) PROVE TInv'
  BY <1>3 DEF InstallMode
<1>4. ASSUME NEW w \in Watcher, NEW a \in Appointment, Respond(w, a) PROVE TInv'
  BY <1>4 DEF Respond
<1>5. ASSUME NEW a \in Appointment, Recourse(a) PROVE TInv'
  <2> DEFINE new == [nonce |-> a.nonce, refund |-> a.refund + ChallengeBond,
                     refundby |-> block + CheatedTimer, triggered |-> TRUE]
  <2>1. a.id \in Id /\ new \in Log /\ new.refund >= ChallengeBond /\ new.triggered
    BY DEF Id, Log
  <2>2. block > 0
    <3>1. PICK w \in TimeWindows(a) : w[1] > 0 /\ w[2] > 0
      BY <1>5 DEF Recourse
    <3>2. CASE ~a.mode.decoder
      BY <1>5, <3>1, <3>2 DEF Recourse, TimeWindows
    <3>3. CASE a.mode.decoder
      <4>1. w[1] \in a.start .. a.finish - 1
        BY <3>1, <3>3 DEF TimeWindows
      <4> QED  BY <1>5, <3>1, <4>1 DEF Recourse
    <3> QED  BY <3>2, <3>3
  <2>3. new.refundby > 0
    BY <2>2
  <2>4. /\ cheated' = [cheated EXCEPT ![a.id] = new] /\ balance' = balance + ChallengeBond
        /\ pendingrefunds' \in 0 .. MaxUint
        /\ UNCHANGED <<block, watchers, modes, flag, frozen, refunds, disorder>>
    BY <1>5, UintRange DEF Recourse, CountOnce
  <2> HIDE DEF new
  <2> QED  BY <2>1, <2>3, <2>4 DEF Logs
<1>6. ASSUME NEW a \in Appointment, CancelledAppointment(a) PROVE TInv'
  <2> DEFINE new == [Cleared(cheated[a.id]) EXCEPT !.nonce = a.nonce]
  <2>0. a.id \in Id /\ cheated[a.id] \in Log /\ a.nonce \in Nat
    BY DEF Id, Logs
  <2>1. new \in Log /\ new.refund = 0 /\ new.refundby = 0 /\ ~new.triggered
    BY <2>0 DEF Log, Cleared
  <2>3. Admin \in Party
    BY DEF Party
  <2>4. refunds' \in [Party -> Nat]
    BY <1>6, <2>3 DEF CancelledAppointment
  <2>5. pendingrefunds' \in 0 .. MaxUint
    BY <1>6, UintRange DEF CancelledAppointment
  <2>6. disorder' \in BOOLEAN
    BY <1>6, <2>0 DEF CancelledAppointment, Log
  <2>2. /\ cheated' = [cheated EXCEPT ![a.id] = new]
        /\ UNCHANGED <<block, watchers, modes, flag, frozen, balance>>
    BY <1>6 DEF CancelledAppointment
  <2> HIDE DEF new
  <2> QED  BY <2>0, <2>1, <2>2, <2>4, <2>5, <2>6 DEF Logs
<1>7. ASSUME NEW id \in Id, RefundCustomer(id) \/ Forfeit(id) PROVE TInv'
  <2> DEFINE new == Cleared(cheated[id])
  <2>0. cheated[id] \in Log
    BY DEF Logs
  <2>1. new \in Log /\ new.refund = 0 /\ new.refundby = 0 /\ ~new.triggered
    BY <2>0 DEF Log, Cleared
  <2>2. CusOf(id) \in Party
    BY DEF CusOf, Party, Id
  <2>3. cheated' = [cheated EXCEPT ![id] = new] /\ UNCHANGED <<block, watchers, modes, frozen>>
    BY <1>7 DEF RefundCustomer, Forfeit
  <2>4. refunds' \in [Party -> Nat] /\ balance' \in Nat
    <3>1. cheated[id].refund \in Nat
      BY <2>0 DEF Log
    <3> QED  BY <1>7, <2>2, <3>1 DEF RefundCustomer, Forfeit
  <2>5. pendingrefunds' \in 0 .. MaxUint
    BY <1>7, UintRange DEF RefundCustomer, Forfeit
  <2>6. flag' \in {"OK", "CHEATED"} /\ disorder' \in BOOLEAN
    BY <1>7 DEF RefundCustomer, Forfeit
  <2> HIDE DEF new
  <2> QED  BY <2>0, <2>1, <2>3, <2>4, <2>5, <2>6 DEF Logs
<1>8. ASSUME NEW p \in Party, Withdraw(p) PROVE TInv'
  BY <1>8 DEF Withdraw
<1> QED
  BY <1>1, <1>2, <1>3, <1>4, <1>5, <1>6, <1>7, <1>8, <1>9, <1>10 DEF Next

LEMMA InitTInv == Init => TInv
<1> SUFFICES ASSUME Init PROVE TInv
  OBVIOUS
<1>1. cheated \in Logs /\ LogShape /\ block \in Nat
  BY DEF Init, RegistryInit, LogShape, Logs, Log, NoLog
<1>2. Counters
  BY DEF Init, Counters
<1>3. /\ block \in DeployBlock .. MaxBlock
      /\ watchers \subseteq Watcher /\ modes \subseteq Mode /\ flag \in {"OK", "CHEATED"}
  BY DEF Init, RegistryInit
<1>4. {frozen, disorder} \subseteq BOOLEAN
  BY ZenonT(20) DEF Init
<1> QED  BY <1>1, <1>2, <1>3, <1>4 DEF TInv, TypeOK, Counters, LogShape

(* Every field of the contract keeps its type: in particular balance never  *)
(* goes below zero, and only a triggered log has an amount and a deadline   *)
(* (recourse, cancelledAppointment, refundCustomer, forfeit).               *)
THEOREM ContractTypeOK == Spec => []TypeOK
<1>1. TInv => TypeOK  BY DEF TInv
<1> QED  BY InitTInv, NextTInv, <1>1, PTL DEF Spec
-----------------------------------------------------------------------------
(* The books *)

(* MapThenSumSet takes the members of a set one by one, in the order in    *)
(* which CHOOSE finds them.                                                 *)
First(s) == CHOOSE x \in s : TRUE

Sums(f, T) ==
    CHOOSE g : g = [s \in SUBSET T |-> IF s = {} THEN 0 ELSE f[First(s)] + g[s \ {First(s)}]]

LEMMA OwedIsSum == Owed = Sums(refunds, Party)[Party]
BY DEF Owed, MapThenSumSet, MapThenFoldSet, Sums, First
LEMMA SmallestNumber ==
    ASSUME NEW N \in SUBSET Nat, N # {}
    PROVE  \E n \in N : \A m \in N : n <= m
<1>1. PICK n \in N : \A m \in N : ~(<<m, n>> \in OpToRel(<, Nat))
  BY NatLessThanWellFounded, WFMin
<1>2. ASSUME NEW m \in N PROVE n <= m
  <2>1. ~(m < n)  BY <1>1 DEF OpToRel
  <2> QED  BY <2>1
<1> QED  BY <1>2

(* A function that is the sum of every subset of at most n members *)
Fits(g, f, T, n) ==
    \A s \in SUBSET T : Cardinality(s) <= n =>
        g[s] = IF s = {} THEN 0 ELSE f[First(s)] + g[s \ {First(s)}]

LEMMA WithoutFirst ==
    ASSUME NEW T, IsFiniteSet(T), NEW s \in SUBSET T, s # {}
    PROVE  /\ First(s) \in s /\ s \ {First(s)} \in SUBSET T
           /\ IsFiniteSet(s) /\ Cardinality(s) \in Nat
           /\ Cardinality(s \ {First(s)}) = Cardinality(s) - 1
<1>1. First(s) \in s  BY DEF First
<1>2. IsFiniteSet(s)  BY FS_Subset
<1>3. Cardinality(s) \in Nat  BY <1>2, FS_CardinalityType
<1>4. Cardinality(s \ {First(s)}) = Cardinality(s) - 1
  BY <1>1, <1>2, FS_RemoveElement
<1> QED  BY <1>1, <1>2, <1>3, <1>4

(* What fits for n members gives what fits for one more. *)
LEMMA FitsOneMore ==
    ASSUME NEW T, IsFiniteSet(T), NEW f, NEW n \in Nat, NEW g, Fits(g, f, T, n)
    PROVE  \E h : Fits(h, f, T, n + 1)
<1> DEFINE h == [s \in SUBSET T |->
                    IF s = {} THEN 0 ELSE f[First(s)] + g[s \ {First(s)}]]
<1>1. \A s \in SUBSET T :
         h[s] = IF s = {} THEN 0 ELSE f[First(s)] + g[s \ {First(s)}]
  OBVIOUS
<1> HIDE DEF h
<1>2. ASSUME NEW s \in SUBSET T, Cardinality(s) <= n PROVE g[s] = h[s]
  BY <1>1, <1>2 DEF Fits
<1>3. ASSUME NEW s \in SUBSET T, Cardinality(s) <= n + 1, s # {}
      PROVE  h[s] = f[First(s)] + h[s \ {First(s)}]
  <2>1. s \ {First(s)} \in SUBSET T /\ Cardinality(s \ {First(s)}) <= n
    BY <1>3, WithoutFirst
  <2>2. g[s \ {First(s)}] = h[s \ {First(s)}]
    BY <1>2, <2>1
  <2> QED  BY <1>1, <1>3, <2>2
<1>4. Fits(h, f, T, n + 1)
  BY <1>1, <1>3 DEF Fits
<1> QED  BY <1>4

LEMMA SumsExist ==
    ASSUME NEW T, IsFiniteSet(T), NEW f, NEW n \in Nat
    PROVE  \E g : Fits(g, f, T, n)
<1> DEFINE N == {m \in Nat : ~\E g : Fits(g, f, T, m)}
<1>1. CASE N = {}
  BY <1>1
<1>2. CASE N # {}
  <2>1. PICK m \in N : \A k \in N : m <= k
    BY <1>2, SmallestNumber
  <2>2. m \in Nat /\ ~\E g : Fits(g, f, T, m)
    OBVIOUS
  <2>3. CASE m = 0
    <3> DEFINE g == [s \in SUBSET T |-> 0]
    <3>1. \A s \in SUBSET T : Cardinality(s) <= 0 => s = {}
      BY FS_Subset, FS_CardinalityType, FS_EmptySet
    <3>2. \A s \in SUBSET T : g[s] = 0
      OBVIOUS
    <3> HIDE DEF g
    <3>3. Fits(g, f, T, 0)
      BY <3>1, <3>2 DEF Fits
    <3> QED  BY <2>2, <2>3, <3>3
  <2>4. CASE m > 0
    <3>1. m - 1 \in Nat /\ m - 1 \notin N /\ (m - 1) + 1 = m
      BY <2>1, <2>2, <2>4
    <3>2. PICK g : Fits(g, f, T, m - 1)
      BY <3>1
    <3> HIDE DEF N
    <3>3. \E h : Fits(h, f, T, (m - 1) + 1)
      BY <3>1, <3>2, FitsOneMore
    <3> QED  BY <2>2, <3>1, <3>3
  <2> QED  BY <2>2, <2>3, <2>4
<1> QED  BY <1>1, <1>2

LEMMA SumsDef ==
    ASSUME NEW T, IsFiniteSet(T), NEW f, NEW s \in SUBSET T
    PROVE  Sums(f, T)[s] =
               IF s = {} THEN 0 ELSE f[First(s)] + Sums(f, T)[s \ {First(s)}]
<1>1. Cardinality(T) \in Nat
  BY FS_CardinalityType
<1>2. PICK g : Fits(g, f, T, Cardinality(T))
  BY <1>1, SumsExist
<1> DEFINE h == [u \in SUBSET T |-> g[u]]
<1>3. \A u \in SUBSET T : h[u] = g[u]
  OBVIOUS
<1>4. \A u \in SUBSET T :
         g[u] = IF u = {} THEN 0 ELSE f[First(u)] + g[u \ {First(u)}]
  BY <1>2, FS_Subset DEF Fits
<1>5. ASSUME NEW u \in SUBSET T
      PROVE  g[u] = IF u = {} THEN 0 ELSE f[First(u)] + h[u \ {First(u)}]
  BY <1>3, <1>4
<1>6. h = [u \in SUBSET T |-> IF u = {} THEN 0 ELSE f[First(u)] + h[u \ {First(u)}]]
  <2> DEFINE H == h
  <2>1. H = [u \in SUBSET T |-> g[u]]
    OBVIOUS
  <2>2. \A u \in SUBSET T : g[u] = IF u = {} THEN 0 ELSE f[First(u)] + H[u \ {First(u)}]
    BY <1>5
  <2> HIDE DEF H
  <2>3. H = [u \in SUBSET T |-> IF u = {} THEN 0 ELSE f[First(u)] + H[u \ {First(u)}]]
    BY <2>1, <2>2, Zenon
  <2> QED  BY <2>3 DEF H
<1> HIDE DEF h
<1>7. Sums(f, T) = [u \in SUBSET T |->
                       IF u = {} THEN 0 ELSE f[First(u)] + Sums(f, T)[u \ {First(u)}]]
  BY <1>6, Zenon DEF Sums
<1> QED  BY <1>7
LEMMA SmallestSubset ==
    ASSUME NEW T, IsFiniteSet(T), NEW B \in SUBSET (SUBSET T), B # {}
    PROVE  \E s \in B : s = {} \/ s \ {First(s)} \notin B
<1> DEFINE N == {Cardinality(s) : s \in B}
<1>1. \A s \in B : s \in SUBSET T /\ Cardinality(s) \in Nat
  BY FS_Subset, FS_CardinalityType
<1>2. N \in SUBSET Nat /\ N # {}
  BY <1>1
<1>3. PICK n \in N : \A m \in N : n <= m
  <2> HIDE DEF N
  <2> QED  BY <1>2, SmallestNumber
<1>4. PICK s \in B : Cardinality(s) = n
  OBVIOUS
<1>5. CASE s # {}
  <2>1. Cardinality(s \ {First(s)}) = Cardinality(s) - 1
    BY <1>1, <1>5, WithoutFirst
  <2>2. ASSUME s \ {First(s)} \in B PROVE FALSE
    <3>1. Cardinality(s \ {First(s)}) \in N
      BY <2>2
    <3>2. n <= Cardinality(s \ {First(s)})
      BY <1>3, <3>1
    <3> HIDE DEF N
    <3>3. n \in Nat
      BY <1>1, <1>4
    <3> QED  BY <1>4, <2>1, <3>2, <3>3
  <2> QED  BY <2>2
<1> QED  BY <1>5

(* The sum follows a change of one of the values. *)
LEMMA SumChanges ==
    ASSUME NEW T, IsFiniteSet(T), NEW f \in [T -> Nat], NEW p \in T, NEW v \in Nat,
           NEW h, h[p] = v, \A x \in T \ {p} : h[x] = f[x]
    PROVE  /\ Sums(f, T)[T] \in Nat
           /\ Sums(h, T)[T] = Sums(f, T)[T] + v - f[p]
<1> DEFINE F == Sums(f, T)
           H == Sums(h, T)
           Claim(s) == /\ F[s] \in Nat
                       /\ H[s] = F[s] + (IF p \in s THEN v - f[p] ELSE 0)
           B == {s \in SUBSET T : ~Claim(s)}
<1>1. \A s \in SUBSET T : F[s] = IF s = {} THEN 0 ELSE f[First(s)] + F[s \ {First(s)}]
  BY SumsDef
<1>2. \A s \in SUBSET T : H[s] = IF s = {} THEN 0 ELSE h[First(s)] + H[s \ {First(s)}]
  BY SumsDef, Zenon
<1>3. \A x \in T : f[x] \in Nat
  OBVIOUS
<1> HIDE DEF F, H
<1>4. CASE B # {}
  <2> HIDE DEF B, Claim
  <2>1. PICK s \in B : s = {} \/ s \ {First(s)} \notin B
    <3>1. B \in SUBSET (SUBSET T)  BY DEF B
    <3> QED  BY <1>4, <3>1, SmallestSubset
  <2>2. s \in SUBSET T /\ ~Claim(s)  BY DEF B
  <2>3. CASE s = {}
    <3>1. F[s] = 0 /\ H[s] = 0
      BY <1>1, <1>2, <2>2, <2>3
    <3>2. p \notin s
      BY <2>3
    <3> QED  BY <2>2, <3>1, <3>2 DEF Claim
  <2>4. CASE s # {}
    <3> DEFINE x == First(s)
               u == s \ {x}
    <3>1. x \in s /\ x \in T /\ u \in SUBSET T
      BY <2>2, <2>4, WithoutFirst
    <3>2. F[s] = f[x] + F[u] /\ H[s] = h[x] + H[u]
      BY <1>1, <1>2, <2>2, <2>4
    <3>3. Claim(u)
      BY <2>1, <2>4, <3>1 DEF B
    <3>4. x \notin u /\ (x # p => (p \in u <=> p \in s))
      BY <3>1
    <3> HIDE DEF x, u
    <3>5. CASE x = p
      BY <1>3, <2>2, <3>1, <3>2, <3>3, <3>4, <3>5 DEF Claim
    <3>6. CASE x # p
      BY <1>3, <2>2, <3>1, <3>2, <3>3, <3>4, <3>6 DEF Claim
    <3> QED  BY <3>5, <3>6
  <2> QED  BY <2>3, <2>4
<1>5. CASE B = {}
  <2>1. Claim(T)  BY <1>5
  <2>2. f[p] \in Nat  BY <1>3
  <2> QED  BY <2>1, <2>2 DEF F, H
<1> QED  BY <1>4, <1>5

LEMMA FiniteParties ==
    IsFiniteSet(Party) /\ Admin \in Party /\ IsFiniteSet(Id) /\ Cardinality(Id) <= MaxUint
<1>1. IsFiniteSet({a.cus : a \in Appointment})
  <2> DEFINE f == [a \in Appointment |-> a.cus]
  <2>1. f \in Surjection(Appointment, {a.cus : a \in Appointment})
    BY DEF Surjection
  <2> HIDE DEF f
  <2> QED  BY <2>1, UintAssumption, FS_Surjection
<1>2. IsFiniteSet({a.id : a \in Appointment})
  <2> DEFINE f == [a \in Appointment |-> a.id]
  <2>1. f \in Surjection(Appointment, {a.id : a \in Appointment})
    BY DEF Surjection
  <2> HIDE DEF f
  <2> QED  BY <2>1, UintAssumption, FS_Surjection
<1>3. IsFiniteSet(Party)
  BY <1>1, FS_Singleton, FS_Union DEF Party
<1> QED  BY <1>2, <1>3, UintAssumption DEF Party, Id
LEMMA SomeIds ==
    ASSUME NEW S \in SUBSET Id, NEW id \in Id
    PROVE  /\ IsFiniteSet(S) /\ Cardinality(S) \in 0 .. MaxUint
           /\ Cardinality(S \cup {id}) = IF id \in S THEN Cardinality(S) ELSE Cardinality(S) + 1
           /\ Cardinality(S \ {id}) = IF id \in S THEN Cardinality(S) - 1 ELSE Cardinality(S)
           /\ id \in S => Cardinality(S) >= 1
           /\ id \notin S => Cardinality(S) + 1 <= MaxUint
<1>1. IsFiniteSet(S) /\ Cardinality(S) <= Cardinality(Id)
  BY FiniteParties, FS_Subset
<1>2. S \cup {id} \in SUBSET Id
  OBVIOUS
<1>3. IsFiniteSet(S \cup {id}) /\ Cardinality(S \cup {id}) <= Cardinality(Id)
  BY <1>2, FiniteParties, FS_Subset
<1>4. Cardinality(S \cup {id}) = IF id \in S THEN Cardinality(S) ELSE Cardinality(S) + 1
  BY <1>1, FS_AddElement
<1>5. Cardinality(S \ {id}) = IF id \in S THEN Cardinality(S) - 1 ELSE Cardinality(S)
  BY <1>1, FS_RemoveElement
<1>6. IsFiniteSet(S \ {id})
  BY <1>1, FS_RemoveElement
<1>7. Cardinality(S) \in Nat /\ Cardinality(S \ {id}) \in Nat /\ Cardinality(Id) \in Nat
  BY <1>1, <1>6, FiniteParties, FS_CardinalityType
<1> QED  BY <1>1, <1>3, <1>4, <1>5, <1>7, FiniteParties

(* uint arithmetic away from its ends *)
LEMMA UintPlus == \A n \in Nat : n + 1 <= MaxUint => Plus1(n) = n + 1
BY DEF Plus1

LEMMA UintMinus == \A n \in 1 .. MaxUint : Minus1(n) = n - 1
<1> SUFFICES ASSUME NEW n \in 1 .. MaxUint PROVE (n + MaxUint) % (MaxUint + 1) = n - 1
  BY DEF Minus1
<1> DEFINE m == MaxUint + 1
           d == (n + MaxUint) \div m
           r == (n + MaxUint) % m
<1>1. m \in Nat /\ m > 0 /\ n + MaxUint = m + (n - 1) /\ n - 1 \in 0 .. m - 1
  OBVIOUS
<1>2. d \in Int /\ r \in 0 .. m - 1 /\ n + MaxUint = m * d + r
  BY <1>1
<1> HIDE DEF m, d
<1>3. d <= 0 => m * d <= 0
  BY <1>1, <1>2
<1>4. d >= 2 => m * d >= 2 * m
  BY <1>1, <1>2
<1>5. d = 1
  BY <1>1, <1>2, <1>3, <1>4
<1>6. r = n - 1
  BY <1>1, <1>2, <1>5
<1> QED  BY <1>6, Zenon DEF m

LEMMA CountsOnce ==
    \A id \in Id : CountOnce(id) = IF id \in Triggered THEN pendingrefunds
                                                     ELSE Plus1(pendingrefunds)
<1> SUFFICES ASSUME NEW id \in Id
             PROVE  CountOnce(id) = IF id \in Triggered THEN pendingrefunds
                                                        ELSE Plus1(pendingrefunds)
  OBVIOUS
<1> QED  BY DEF CountOnce, Triggered

(* Writing a log moves its id into or out of those triggered. *)
LEMMA LogChanges ==
    ASSUME cheated \in Logs, NEW id \in Id, NEW log \in Log,
           cheated' = [cheated EXCEPT ![id] = log]
    PROVE  /\ Triggered \in SUBSET Id
           /\ Triggered' = IF log.triggered THEN Triggered \cup {id} ELSE Triggered \ {id}
<1>1. \A x \in Id : cheated'[x] = IF x = id THEN log ELSE cheated[x]
  BY DEF Logs
<1> QED  BY <1>1 DEF Triggered

LEMMA OwedChanges ==
    ASSUME refunds \in [Party -> Nat], NEW p \in Party, NEW v \in Nat,
           refunds' = [refunds EXCEPT ![p] = v]
    PROVE  Owed \in Nat /\ Owed' = Owed + v - refunds[p]
<1>1. Owed = Sums(refunds, Party)[Party]
  BY OwedIsSum
<1>2. Owed' = Sums(refunds', Party)[Party]
  BY DEF Owed, MapThenSumSet, MapThenFoldSet, Sums, First
<1>3. refunds'[p] = v /\ \A x \in Party \ {p} : refunds'[x] = refunds[x]
  OBVIOUS
<1>4. IsFiniteSet(Party)
  BY FiniteParties
<1>5. ASSUME NEW h, h[p] = v, \A x \in Party \ {p} : h[x] = refunds[x]
      PROVE  /\ Sums(refunds, Party)[Party] \in Nat
             /\ Sums(h, Party)[Party] = Sums(refunds, Party)[Party] + v - refunds[p]
  BY <1>4, <1>5, SumChanges
<1> QED  BY <1>1, <1>2, <1>3, <1>5

LEMMA OwedStays == ASSUME refunds' = refunds PROVE Owed' = Owed
<1>1. Owed = Sums(refunds, Party)[Party]
  BY OwedIsSum
<1>2. Owed' = Sums(refunds', Party)[Party]
  BY DEF Owed, MapThenSumSet, MapThenFoldSet, Sums, First
<1>3. \A f, g : f = g => Sums(f, Party)[Party] = Sums(g, Party)[Party]
  OBVIOUS
<1> QED  BY <1>1, <1>2, <1>3

LEMMA OwedIsNat == ASSUME refunds \in [Party -> Nat] PROVE Owed \in Nat
<1>1. Admin \in Party /\ refunds[Admin] \in Nat /\ IsFiniteSet(Party)
  BY FiniteParties
<1> QED  BY <1>1, OwedIsSum, SumChanges
-----------------------------------------------------------------------------
BInv == TInv /\ BooksBalance

(* One lemma per action that touches the books *)
LEMMA RecourseBooks ==
    ASSUME BInv, NEW a \in Appointment, Recourse(a)
    PROVE  BooksBalance'
<1> DEFINE k   == Cardinality(Triggered)
           log == [nonce |-> a.nonce, refund |-> a.refund + ChallengeBond,
                   refundby |-> block + CheatedTimer, triggered |-> TRUE]
<1>1. /\ cheated' = [cheated EXCEPT ![a.id] = log]
      /\ balance' = balance + ChallengeBond /\ pendingrefunds' = CountOnce(a.id)
      /\ refunds' = refunds /\ disorder' = disorder
  BY DEF Recourse
<1>2. a.id \in Id /\ log \in Log /\ log.triggered
  BY DEF Id, Log, BInv, TInv
<1>3. /\ cheated \in Logs /\ refunds \in [Party -> Nat] /\ balance \in Nat
      /\ ~disorder => pendingrefunds = k /\ balance >= Owed + ChallengeBond * k
  BY DEF BInv, TInv, Counters, BooksBalance
<1> HIDE DEF log
<1>4. Triggered \in SUBSET Id /\ Triggered' = Triggered \cup {a.id}
  BY <1>1, <1>2, <1>3, LogChanges
<1>5. /\ k \in Nat
      /\ Cardinality(Triggered') = IF a.id \in Triggered THEN k ELSE k + 1
      /\ a.id \notin Triggered => k + 1 <= MaxUint
  <2>1. ASSUME NEW S \in SUBSET Id, NEW id \in Id
        PROVE  /\ Cardinality(S) \in 0 .. MaxUint
               /\ Cardinality(S \cup {id}) = IF id \in S THEN Cardinality(S) ELSE Cardinality(S) + 1
               /\ id \notin S => Cardinality(S) + 1 <= MaxUint
    BY SomeIds
  <2>2. /\ Cardinality(Triggered) \in 0 .. MaxUint
        /\ Cardinality(Triggered \cup {a.id}) =
              IF a.id \in Triggered THEN Cardinality(Triggered) ELSE Cardinality(Triggered) + 1
        /\ a.id \notin Triggered => Cardinality(Triggered) + 1 <= MaxUint
    <3> HIDE DEF k
    <3> QED  BY <1>2, <1>4, <2>1, Zenon
  <2> QED  BY <1>4, <2>2
<1>6. Owed \in Nat /\ Owed' = Owed
  BY <1>1, <1>3, OwedIsNat, OwedStays
<1>7. pendingrefunds' = IF a.id \in Triggered THEN pendingrefunds ELSE Plus1(pendingrefunds)
  BY <1>1, <1>2, CountsOnce
<1> SUFFICES ASSUME ~disorder
             PROVE  /\ pendingrefunds' = Cardinality(Triggered')
                    /\ balance' >= Owed' + ChallengeBond * Cardinality(Triggered')
  BY <1>1 DEF BooksBalance
<1> HIDE DEF k
<1>8. CASE a.id \in Triggered
  BY <1>1, <1>3, <1>5, <1>6, <1>7, <1>8
<1>9. CASE a.id \notin Triggered
  <2>1. pendingrefunds' = k + 1
    BY <1>3, <1>5, <1>7, <1>9, UintPlus
  <2>2. ChallengeBond * (k + 1) = ChallengeBond * k + ChallengeBond
    BY <1>5
  <2> QED  BY <1>1, <1>3, <1>5, <1>6, <1>9, <2>1, <2>2
<1> QED  BY <1>8, <1>9

(* Clearing a log that was triggered, and paying its bond and as much more *)
(* as came in to somebody.                                                  *)
LEMMA ClearBooks ==
    ASSUME BInv, NEW id \in Id, NEW p \in Party, NEW log \in Log, NEW paid \in Nat, NEW in \in Nat,
           cheated' = [cheated EXCEPT ![id] = log], ~log.triggered,
           refunds' = [refunds EXCEPT ![p] = @ + paid],
           balance' = balance + in, paid <= in + ChallengeBond,
           pendingrefunds' = Minus1(pendingrefunds),
           ~disorder' => ~disorder /\ cheated[id].triggered
    PROVE  BooksBalance'
<1> DEFINE k == Cardinality(Triggered)
<1>1. /\ cheated \in Logs /\ refunds \in [Party -> Nat] /\ balance \in Nat
      /\ ~disorder => pendingrefunds = k /\ balance >= Owed + ChallengeBond * k
  BY DEF BInv, TInv, Counters, BooksBalance
<1> SUFFICES ASSUME ~disorder'
             PROVE  /\ pendingrefunds' = Cardinality(Triggered')
                    /\ balance' >= Owed' + ChallengeBond * Cardinality(Triggered')
  BY DEF BooksBalance
<1>2. id \in Triggered
  BY DEF Triggered
<1>3. Triggered \in SUBSET Id /\ Triggered' = Triggered \ {id}
  BY <1>1, LogChanges
<1>4. k \in 1 .. MaxUint /\ Cardinality(Triggered') = k - 1
  BY <1>2, <1>3, SomeIds
<1>5. Owed \in Nat /\ Owed' = Owed + paid
  <2>1. refunds[p] \in Nat /\ refunds[p] + paid \in Nat
    BY <1>1
  <2>2. refunds' = [refunds EXCEPT ![p] = refunds[p] + paid]
    BY <1>1
  <2>3. Owed \in Nat /\ Owed' = Owed + (refunds[p] + paid) - refunds[p]
    BY <1>1, <2>1, <2>2, OwedChanges
  <2> QED  BY <2>1, <2>3
<1> HIDE DEF k
<1>6. pendingrefunds' = k - 1
  BY <1>1, <1>4, UintMinus
<1>7. ChallengeBond * k = ChallengeBond * (k - 1) + ChallengeBond
  BY <1>4
<1> QED  BY <1>1, <1>4, <1>5, <1>6, <1>7

LEMMA WithdrawBooks ==
    ASSUME BInv, NEW p \in Party, Withdraw(p)
    PROVE  BooksBalance'
<1>1. /\ refunds' = [refunds EXCEPT ![p] = 0] /\ balance' = balance - refunds[p]
      /\ UNCHANGED <<cheated, pendingrefunds, disorder>>
  BY DEF Withdraw, logVars, history
<1>2. refunds \in [Party -> Nat] /\ balance \in Nat /\ refunds[p] \in Nat /\ cheated \in Logs
  BY DEF BInv, TInv, Counters
<1>3. Owed \in Nat /\ Owed' = Owed + 0 - refunds[p]
  BY <1>1, <1>2, OwedChanges
<1>4. Triggered' = Triggered
  BY <1>1 DEF Triggered
<1>5. ChallengeBond * Cardinality(Triggered) \in Int \/ disorder
  BY SomeIds, FiniteParties, FS_Subset, FS_CardinalityType DEF Triggered
<1> QED  BY <1>1, <1>2, <1>3, <1>4, <1>5 DEF BInv, BooksBalance

THEOREM NextBooks == BInv /\ [Next]_vars => BInv'
<1> SUFFICES ASSUME BInv, [Next]_vars PROVE BooksBalance'
  BY NextTInv DEF BInv
<1>0. refunds \in [Party -> Nat] /\ cheated \in Logs /\ pendingrefunds \in 0 .. MaxUint
  BY DEF BInv, TInv, Counters
<1>1. CASE UNCHANGED <<cheated, refunds, pendingrefunds, balance, disorder>>
  <2>1. Triggered' = Triggered  BY <1>1 DEF Triggered
  <2>2. Owed' = Owed  BY <1>1, OwedStays
  <2> QED  BY <1>1, <2>1, <2>2 DEF BInv, BooksBalance
<1>2. ASSUME NEW a \in Appointment, CancelledAppointment(a) PROVE BooksBalance'
  <2> DEFINE log == [Cleared(cheated[a.id]) EXCEPT !.nonce = a.nonce]
  <2>1. a.id \in Id /\ Admin \in Party
    BY FiniteParties DEF Id
  <2>2. log \in Log /\ ~log.triggered
    BY <1>0, <2>1 DEF Logs, Log, Cleared
  <2>3. /\ cheated' = [cheated EXCEPT ![a.id] = log]
        /\ refunds' = [refunds EXCEPT ![Admin] = @ + ChallengeBond]
        /\ balance' = balance /\ pendingrefunds' = Minus1(pendingrefunds)
        /\ ~disorder' => ~disorder /\ cheated[a.id].triggered
    BY <1>2 DEF CancelledAppointment
  <2> HIDE DEF log
  <2>4. balance' = balance + 0 /\ ChallengeBond <= 0 + ChallengeBond /\ ChallengeBond \in Nat
    BY <2>3 DEF BInv, TInv, Counters
  <2> QED  BY <2>1, <2>2, <2>3, <2>4, ClearBooks
<1>3. ASSUME NEW id \in Id, RefundCustomer(id) PROVE BooksBalance'
  <2> DEFINE log == Cleared(cheated[id])
             paid == cheated[id].refund
  <2>1. log \in Log /\ ~log.triggered /\ paid \in Nat
    BY <1>0 DEF Logs, Log, Cleared
  <2>2. CusOf(id) \in Party
    BY DEF CusOf, Party, Id
  <2>3. /\ cheated' = [cheated EXCEPT ![id] = log]
        /\ refunds' = [refunds EXCEPT ![CusOf(id)] = @ + paid]
        /\ balance' = balance + paid /\ pendingrefunds' = Minus1(pendingrefunds)
        /\ ~disorder' => ~disorder /\ cheated[id].triggered
    BY <1>3 DEF RefundCustomer, history
  <2> HIDE DEF log, paid
  <2>4. paid <= paid + ChallengeBond
    BY <2>1
  <2> QED  BY <2>1, <2>2, <2>3, <2>4, ClearBooks
<1>4. ASSUME NEW id \in Id, Forfeit(id) PROVE BooksBalance'
  BY <1>4 DEF Forfeit, BooksBalance
<1>5. ASSUME NEW w \in Watcher,
             InstallWatcher(w) \/ \E a \in Appointment : Respond(w, a)
      PROVE  BooksBalance'
  BY <1>1, <1>5 DEF InstallWatcher, Respond, logVars, moneyVars, history
<1>6. ASSUME NextBlock \/ (\E m \in Mode : InstallMode(m)) \/ FailSafe \/ UNCHANGED vars
      PROVE  BooksBalance'
  BY <1>1, <1>6 DEF NextBlock, InstallMode, FailSafe, vars, logVars, moneyVars, history
<1> QED
  BY <1>2, <1>3, <1>4, <1>5, <1>6, RecourseBooks, WithdrawBooks DEF Next

LEMMA InitOwed == Init => Owed = 0
<1> SUFFICES ASSUME Init PROVE Owed = 0
  OBVIOUS
<1>1. refunds = [p \in Party |-> 0]
  BY DEF Init
<1> DEFINE B == {s \in SUBSET Party : Sums(refunds, Party)[s] # 0}
<1>2. CASE B # {}
  <2>1. B \in SUBSET (SUBSET Party)
    OBVIOUS
  <2> HIDE DEF B
  <2>2. PICK s \in B : s = {} \/ s \ {First(s)} \notin B
    BY <1>2, <2>1, FiniteParties, SmallestSubset
  <2>3. s \in SUBSET Party /\ Sums(refunds, Party)[s] # 0
    BY <2>2 DEF B
  <2>4. s # {} /\ Sums(refunds, Party)[s] =
                      refunds[First(s)] + Sums(refunds, Party)[s \ {First(s)}]
    BY <2>3, FiniteParties, SumsDef
  <2>5. First(s) \in Party /\ s \ {First(s)} \in SUBSET Party
    BY <2>3, <2>4, FiniteParties, WithoutFirst
  <2>6. Sums(refunds, Party)[s \ {First(s)}] = 0
    BY <2>2, <2>4, <2>5 DEF B
  <2> QED  BY <1>1, <2>3, <2>4, <2>5, <2>6
<1>3. CASE B = {}
  BY <1>3, OwedIsSum
<1> QED  BY <1>2, <1>3

(* While nothing was forfeited and only triggered logs were cancelled,      *)
(* pendingrefunds is the number of triggered logs, and the ether of the     *)
(* contract covers all refunds and a bond for each of these logs (recourse, *)
(* cancelledAppointment, refundCustomer, withdraw).                         *)
THEOREM BooksAlwaysBalance == Spec => []BooksBalance
<1>1. Init => BInv
  <2> SUFFICES ASSUME Init PROVE BInv
    OBVIOUS
  <2>1. TInv  BY InitTInv
  <2>2. Triggered = {}
    BY DEF Init, NoLog, Triggered
  <2>3. Cardinality(Triggered) = 0 /\ Owed = 0
    BY <2>2, InitOwed, FS_EmptySet
  <2> QED  BY <2>1, <2>3 DEF Init, BInv, BooksBalance
<1>2. BInv => BooksBalance  BY DEF BInv
<1> QED  BY <1>1, <1>2, NextBooks, PTL DEF Spec
=============================================================================

------------------------------ MODULE PISAHash ------------------------------
(***************************************************************************)
(* The arbitration contract (src/sol/contracts/PISAHash.sol): a watcher    *)
(* records its responses in the data registry; a customer whose            *)
(* appointment was not answered seeks recourse for a bond, PISA refunds or *)
(* shows a later appointment, and who is not refunded in time has PISA's   *)
(* deposit forfeited.  Whoever calls, in whatever order; a call whose      *)
(* requirements fail changes nothing.  Signatures are taken as given.      *)
(***************************************************************************)
EXTENDS DataRegistry, FiniteSets, FiniteSetsExt

CONSTANTS
    Appointment,     \* signed by both: [id, cus, nonce, start, finish, challenge, mode, refund]
    Watcher, Admin,
    Mode,            \* [name, decoder]: whether it has a decoder of challenge times
    ChallengeBond, CheatedTimer,
    MaxUint,         \* the largest uint
    MaxBlock,        \* bound: of the chain
    MaxResponses     \* bound: how many are recorded

ASSUME PISAAssumption ==
    /\ MaxBlock \in Nat /\ DeployBlock <= MaxBlock
    /\ ChallengeBond \in Nat /\ CheatedTimer \in Nat /\ MaxUint \in Nat \ {0}
    /\ \A a, b \in Appointment : a.id = b.id => a.cus = b.cus
    /\ \A a \in Appointment : /\ a.nonce \in Nat \ {0} /\ a.refund \in Nat
                             /\ a.start \in Nat /\ a.finish \in Nat

(* pendingrefunds counts logs in a uint, and there is one log for each id.  *)
ASSUME UintAssumption ==
    /\ IsFiniteSet(Appointment)
    /\ Cardinality({a.id : a \in Appointment}) <= MaxUint

VARIABLES
    watchers, modes,   \* those installed
    cheated,           \* the cheat log of each appointment id
    refunds,           \* what each party may withdraw
    pendingrefunds,
    flag, frozen,
    balance,           \* the ether of the contract
    responses,         \* history: the responses ever recorded, with their shard's creation
    recourses,         \* history: the successful calls of recourse
    disorder           \* history: forfeit, or cancelledAppointment without a triggered log

logVars   == <<cheated, pendingrefunds, flag, frozen>>
moneyVars == <<refunds, balance>>
history   == <<responses, recourses, disorder>>
vars == <<registryVars, watchers, modes, logVars, moneyVars, history>>

Id        == {a.id : a \in Appointment}
Party     == {a.cus : a \in Appointment} \cup {Admin}
CusOf(id) == (CHOOSE a \in Appointment : a.id = id).cus

Plus1(n)  == (n + 1) % (MaxUint + 1)
(* Mutation: below zero. *)
Less1(n)  == n - 1

Minus1(n) == (n + MaxUint) % (MaxUint + 1)

(* Mutation: the nonce is forgotten as well. *)
ClearedAll(log) == [log EXCEPT !.nonce = 0, !.triggered = FALSE, !.refund = 0, !.refundby = 0]

Cleared(log) == [log EXCEPT !.triggered = FALSE, !.refund = 0, !.refundby = 0]
Triggered == {id \in Id : cheated[id].triggered}

-----------------------------------------------------------------------------
InstallWatcher(w) ==
    /\ w \notin watchers
    /\ watchers' = watchers \cup {w}
    /\ UNCHANGED <<registryVars, modes, logVars, moneyVars, history>>

InstallMode(m) ==
    /\ m \notin modes
    /\ modes' = modes \cup {m}
    /\ UNCHANGED <<registryVars, watchers, logVars, moneyVars, history>>

(* The customer's call is made after the record; its failure is ignored.    *)
Respond(w, a) ==
    /\ w \in watchers /\ Cardinality(responses) < MaxResponses
    /\ SetRecord([time |-> block, app |-> a])
    /\ responses' = responses \cup
           {[app |-> a, at |-> block, born |-> shards'[GetDataShardIndex(block)].created]}
    /\ UNCHANGED <<block, watchers, modes, logVars, moneyVars, recourses, disorder>>

(* The window comes from the appointment or, if its mode says so, from the  *)
(* decoded dispute; the difference of its ends is a uint.                   *)
TimeWindows(a) ==
    IF ~a.mode.decoder THEN {<<a.start, a.finish>>}
    ELSE {w \in (a.start .. a.finish - 1) \X (0 .. MaxBlock) :
             w[2] < w[1] \/ w[2] - w[1] >= a.challenge}

DidPISARespond(a, w) ==
    \E r \in FetchRecords :
        /\ r.app.id = a.id
        /\ \/ r.app.nonce >= a.nonce
           \/ r.app = a /\ w[1] <= r.time /\ r.time <= w[2]

(* Mutation: a later recourse for the same appointment counts again. *)
CountAgain(id) == Plus1(pendingrefunds)

CountOnce(id) == IF cheated[id].triggered THEN pendingrefunds ELSE Plus1(pendingrefunds)

(* The postcondition handler, if the mode has one, may find either; one     *)
(* that finds PISA has not failed makes the call fail.                      *)
Recourse(a) ==
    /\ ~frozen /\ a.mode \in modes /\ watchers # {}
    /\ a.start + Interval > block /\ block > a.finish
    /\ a.nonce > cheated[a.id].nonce
    /\ \E w \in TimeWindows(a) : w[1] > 0 /\ w[2] > 0 /\ ~DidPISARespond(a, w)
    /\ shards' = Refreshed
    /\ pendingrefunds' = CountOnce(a.id)
    /\ cheated' = [cheated EXCEPT ![a.id] =
                      [nonce |-> a.nonce, refund |-> a.refund + ChallengeBond,
                       refundby |-> block + CheatedTimer, triggered |-> TRUE]]
    /\ balance' = balance + ChallengeBond
    /\ recourses' = recourses \cup {[app |-> a, at |-> block]}
    /\ UNCHANGED <<block, watchers, modes, flag, frozen, refunds, responses, disorder>>

(* PISA shows a later appointment of the customer: the log is cleared, if   *)
(* there is one, and the bond goes to the admin.                            *)
CancelledAppointment(a) ==
    /\ a.nonce > cheated[a.id].nonce
    /\ refunds' = [refunds EXCEPT ![Admin] = @ + ChallengeBond]
    /\ cheated' = [cheated EXCEPT ![a.id] = [Cleared(@) EXCEPT !.nonce = a.nonce]]
    /\ pendingrefunds' = Minus1(pendingrefunds)
    /\ disorder' = (disorder \/ ~cheated[a.id].triggered)
    /\ UNCHANGED <<registryVars, watchers, modes, flag, frozen, balance, responses, recourses>>

(* The caller pays the refund and the bond of the log. *)
RefundCustomer(id) ==
    /\ pendingrefunds > 0
    /\ cheated[id].triggered
    /\ cheated' = [cheated EXCEPT ![id] = Cleared(@)]
    /\ refunds' = [refunds EXCEPT ![CusOf(id)] = @ + cheated[id].refund]
    /\ balance' = balance + cheated[id].refund
    /\ pendingrefunds' = Minus1(pendingrefunds)
    /\ UNCHANGED <<registryVars, watchers, modes, flag, frozen, history>>

(* All at once; a transfer the contract has no ether for fails. *)
Withdraw(p) ==
    /\ balance >= refunds[p]
    /\ refunds' = [refunds EXCEPT ![p] = 0]
    /\ balance' = balance - refunds[p]
    /\ UNCHANGED <<registryVars, watchers, modes, logVars, history>>

Forfeit(id) ==
    /\ ~frozen /\ pendingrefunds > 0
    /\ cheated[id].triggered /\ cheated[id].refund # 0 /\ cheated[id].refundby # 0
    /\ block > cheated[id].refundby
    /\ cheated' = [cheated EXCEPT ![id] = Cleared(@)]
    /\ flag' = "CHEATED"
    /\ disorder' = TRUE
    /\ UNCHANGED <<registryVars, watchers, modes, pendingrefunds, frozen, moneyVars,
                   responses, recourses>>

(* k of the n defenders signed. *)
FailSafe ==
    /\ frozen' = TRUE
    /\ flag' = "OK"
    /\ UNCHANGED <<registryVars, watchers, modes, cheated, pendingrefunds, moneyVars, history>>

NextBlock ==
    /\ block < MaxBlock
    /\ Mine
    /\ UNCHANGED <<watchers, modes, logVars, moneyVars, history>>

-----------------------------------------------------------------------------
NoLog == [nonce |-> 0, refund |-> 0, refundby |-> 0, triggered |-> FALSE]

Init ==
    /\ RegistryInit
    /\ watchers = {} /\ modes = {}
    /\ cheated = [id \in Id |-> NoLog]
    /\ refunds = [p \in Party |-> 0]
    /\ pendingrefunds = 0 /\ flag = "OK" /\ frozen = FALSE
    /\ balance = 0
    /\ responses = {} /\ recourses = {} /\ disorder = FALSE

Next ==
    \/ NextBlock
    \/ \E w \in Watcher : InstallWatcher(w) \/ \E a \in Appointment : Respond(w, a)
    \/ \E m \in Mode : InstallMode(m)
    \/ \E a \in Appointment : Recourse(a) \/ CancelledAppointment(a)
    \/ \E id \in Id : RefundCustomer(id) \/ Forfeit(id)
    \/ \E p \in Party : Withdraw(p)
    \/ FailSafe

Spec == Init /\ [][Next]_vars

-----------------------------------------------------------------------------
(* Properties *)

(* Types; a log that is triggered has a deadline and at least the bond as   *)
(* its amount, whatever the appointment promised (the service only signs a  *)
(* refund of 0), and one that is not has neither.                           *)
TypeOK ==
    /\ block \in DeployBlock .. MaxBlock
    /\ watchers \subseteq Watcher /\ modes \subseteq Mode
    /\ pendingrefunds \in 0 .. MaxUint
    /\ flag \in {"OK", "CHEATED"} /\ {frozen, disorder} \subseteq BOOLEAN
    /\ balance \in Nat /\ \A p \in Party : refunds[p] \in Nat
    /\ \A id \in Id : IF cheated[id].triggered
                      THEN cheated[id].refund >= ChallengeBond /\ cheated[id].refundby > 0
                      ELSE cheated[id].refund = 0 /\ cheated[id].refundby = 0

Owed == MapThenSumSet(LAMBDA p : refunds[p], Party)

(* While nobody was forfeited and only triggered logs were cancelled,       *)
(* pendingrefunds counts the triggered logs, whatever is recoursed again,   *)
(* refunded and cancelled in between, and the contract holds all that may   *)
(* be withdrawn and a bond for every triggered log.                         *)
BooksBalance ==
    ~disorder =>
        /\ pendingrefunds = Cardinality(Triggered)
        /\ balance >= Owed + ChallengeBond * Cardinality(Triggered)

(* An appointment is recoursed with success at most once, also after the    *)
(* log was refunded, cancelled or forfeited.                                *)
RecoursedOnce == \A r, s \in recourses : r.app = s.app => r.at = s.at

(* Recourse never succeeds against a response of the same or a later nonce, *)
(* until two intervals after the creation of the shard that has it: whoever *)
(* reads the shards does not discard it earlier.                            *)
AnsweredIsSafe ==
    \A c \in recourses, r \in responses :
        r.app.id = c.app.id /\ r.app.nonce >= c.app.nonce /\ r.at < c.at =>
            c.at - r.born >= 2 * Interval
=============================================================================

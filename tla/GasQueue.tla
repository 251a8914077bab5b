------------------------------ MODULE GasQueue ------------------------------
(***************************************************************************)
(* The gas queue (src/src/responder/gasQueue.ts): the responses that wait  *)
(* to be mined, in the order of their ideal gas price and of their nonce.  *)
(* A queue is an immutable value of the code, so every operation is an     *)
(* operator here: it returns the items of the queue the code constructs,   *)
(* and the constructor, which throws, is WellFormed.                       *)
(*                                                                         *)
(* A request is a record with an id, which stands for the identifier of    *)
(* its transaction too, an ideal price, and whatever else the responder    *)
(* keeps of it.  An item is a request with the nonce and the gas price it  *)
(* is sent for.                                                             *)
(***************************************************************************)
EXTENDS Integers, Sequences, FiniteSets

CONSTANTS
    ReplacementRate,  \* the percentage a replaced transaction has to be topped by
    MaxQueueDepth     \* maxQueueDepth

ASSUME QueueAssumption ==
    /\ ReplacementRate \in Nat /\ ReplacementRate >= 1
    /\ MaxQueueDepth \in Nat /\ MaxQueueDepth >= 1

-----------------------------------------------------------------------------
(* Items *)

(* Mutation: the price of the replaced transaction is not topped. *)
SamePrice(price) == price

(* getReplacementGasPrice, rounded up *)
ReplacementPrice(price) == (price * (100 + ReplacementRate) + 99) \div 100

(* append: a request at the empty nonce, for its ideal price *)
ItemAt(request, nonce) ==
    [request |-> request, price |-> request.ideal, nonce |-> nonce]

(* replace: another request at the nonce of an item *)
Replace(item, request) ==
    LET topped == ReplacementPrice(item.price) IN
    [request |-> request, nonce |-> item.nonce,
     price |-> IF topped > request.ideal THEN topped ELSE request.ideal]

-----------------------------------------------------------------------------
(* Queues: a sequence of items and the next empty nonce *)

Ids(items) == {items[i].request.id : i \in DOMAIN items}

(* contains *)
Contains(items, id) == id \in Ids(items)

Position(items, id) == CHOOSE i \in DOMAIN items : items[i].request.id = id

DepthReached(items) == Len(items) >= MaxQueueDepth

OrderedByPrice(items) ==
    \A i \in DOMAIN items : i > 1 => items[i].request.ideal <= items[i-1].request.ideal

ConsecutiveNonces(items, emptyNonce) ==
    \A i \in DOMAIN items : items[i].nonce = emptyNonce - Len(items) + i - 1

NothingTwice(items) ==
    \A i, j \in DOMAIN items : items[i].request.id = items[j].request.id => i = j

(* The constructor returns; otherwise it throws. *)
WellFormed(items, emptyNonce) ==
    /\ OrderedByPrice(items)
    /\ ConsecutiveNonces(items, emptyNonce)
    /\ NothingTwice(items)
    /\ Len(items) <= MaxQueueDepth

(* shiftRight: the requests at first..last move one nonce up, and the one at *)
(* last + 1, if there is one, is overwritten.                               *)
ShiftRight(items, first, last, emptyNonce) ==
    [i \in 1..(IF last = Len(items) THEN last + 1 ELSE Len(items)) |->
        IF i <= first \/ i > last + 1 THEN items[i]
        ELSE IF i <= Len(items) THEN Replace(items[i], items[i-1].request)
                                ELSE ItemAt(items[i-1].request, emptyNonce)]

(* The items the request is to be mined before *)
Cheaper(items, request) == {i \in DOMAIN items : request.ideal > items[i].request.ideal}

(* add: at the end, or before the first item with a lower ideal price *)
Add(items, emptyNonce, request) ==
    LET cheaper == Cheaper(items, request) IN
    IF cheaper = {} THEN Append(items, ItemAt(request, emptyNonce))
    ELSE LET at == CHOOSE i \in cheaper : \A j \in cheaper : i <= j IN
         [ShiftRight(items, at, Len(items), emptyNonce)
             EXCEPT ![at] = Replace(items[at], request)]

(* dequeue: the front item was mined. *)
Dequeue(items) == Tail(items)

(* Mutation: the others keep their nonces. *)
ConsumeInPlace(items, id) == SelectSeq(items, LAMBDA item : item.request.id # id)

(* Mutation: the front item is dropped, whichever was mined. *)
ConsumeFront(items, id) == Tail(items)

(* consume: an item behind the front was mined at the nonce of the front.  *)
Consume(items, id) ==
    Tail(ShiftRight(items, 1, Position(items, id) - 1, 0))

(* Array.sort, by the keys of the items: stable, as it is up to 10 items. *)
Rank(keys, i) ==
    Cardinality({j \in DOMAIN keys :
                    keys[j] < keys[i] \/ (keys[j] = keys[i] /\ j <= i)})

Sorted(items, keys) ==
    [k \in DOMAIN items |-> items[CHOOSE i \in DOMAIN items : Rank(keys, i) = k]]

(* prepend: the items and the missing ones by nonce, and at each nonce the *)
(* one that comes there by its ideal price.                                 *)
Prepend(items, missing) ==
    LET all     == missing \o items
        byNonce == Sorted(all, [i \in DOMAIN all |-> all[i].nonce])
        byIdeal == Sorted(byNonce, [i \in DOMAIN all |-> -byNonce[i].request.ideal])
    IN  [k \in DOMAIN all |-> IF byIdeal[k] = byNonce[k] THEN byNonce[k]
                            ELSE Replace(byNonce[k], byIdeal[k].request)]

(* Mutation: an item whose response was in the other queue is not new. *)
DifferenceOfIds(items, others) ==
    {items[i] : i \in {j \in DOMAIN items : ~Contains(others, items[j].request.id)}}

(* difference: the items of a queue that are not in another *)
Difference(items, others) ==
    {items[i] : i \in DOMAIN items} \ {others[i] : i \in DOMAIN others}
=============================================================================

--------------------------- MODULE GasQueueProofs ---------------------------
(***************************************************************************)
(* What the operations of the gas queue make of a well formed queue, for   *)
(* every replacement rate, every depth and every set of requests: a queue  *)
(* its constructor accepts, that holds exactly the responses it should.    *)
(*                                                                         *)
(* The queue is an array that is shifted by one: each operation is first   *)
(* described place by place, and all facts about the whole queue follow    *)
(* from these descriptions.                                                *)
(***************************************************************************)
EXTENDS GasQueue, FiniteSetTheorems, TLAPS

Priced(R) == \A r \in R : r.ideal \in Nat

ItemOf(R) == [request : R, price : Nat, nonce : Int]

(* What a node asks of a transaction that replaces another *)
Tops(new, old) == 100 * new.price >= (100 + ReplacementRate) * old.price

(* An item that was left as it was, or replaced at its nonce *)
Reissued(new, old) == new.nonce = old.nonce /\ (new = old \/ Tops(new, old))

-----------------------------------------------------------------------------
(* The first of a set of places *)
LEMMA LeastPlace ==
    ASSUME NEW S, S \subseteq Nat, S # {}
    PROVE  \E i \in S : \A j \in S : i <= j
<1>1. \E i \in S : \A j \in S : ~(<<j, i>> \in OpToRel(<, Nat))
  BY WFMin, NatLessThanWellFounded
<1>2. PICK i \in S : \A j \in S : ~(<<j, i>> \in OpToRel(<, Nat))
  BY <1>1
<1>3. ASSUME NEW j \in S PROVE i <= j
  <2>1. ~(j < i)
    BY <1>2 DEF OpToRel
  <2> QED
    BY <2>1
<1> QED
  BY <1>3

(* gasQueue.ts:206-211, replace: another request at the nonce of an item,  *)
(* at no less than its ideal price, and topping the item by the rate.       *)
THEOREM ReplaceTops ==
    ASSUME NEW R, Priced(R), NEW item \in ItemOf(R), NEW request \in R
    PROVE  LET new == Replace(item, request) IN
           /\ new \in ItemOf(R)
           /\ new.request = request /\ new.nonce = item.nonce
           /\ new.price >= request.ideal
           /\ Tops(new, item)
<1> DEFINE x == item.price * (100 + ReplacementRate)
<1>1. item.price \in Nat /\ item.nonce \in Int /\ request.ideal \in Nat
  BY DEF ItemOf, Priced
<1>2. ReplacementRate \in Nat
  BY QueueAssumption
<1>3. x \in Nat /\ x = (100 + ReplacementRate) * item.price
  BY <1>1, <1>2
<1> HIDE DEF x
<1>4. (x + 99) \div 100 \in Nat /\ 100 * ((x + 99) \div 100) >= x
  BY <1>3
<1>5. ReplacementPrice(item.price) = (x + 99) \div 100
  BY DEF ReplacementPrice, x
<1> QED
  BY <1>1, <1>3, <1>4, <1>5 DEF Replace, ItemOf, Tops

(* append: a request at the empty nonce *)
LEMMA AppendedItem ==
    ASSUME NEW R, Priced(R), NEW request \in R, NEW n \in Int
    PROVE  LET new == ItemAt(request, n) IN
           new \in ItemOf(R) /\ new.request = request /\ new.nonce = n
<1>1. request.ideal \in Nat
  BY DEF Priced
<1> QED
  BY <1>1 DEF ItemAt, ItemOf

-----------------------------------------------------------------------------
(* The operations place by place *)

(* A queue that its constructor accepts, of requests in R *)
QueueOf(R, items, emptyNonce) ==
    /\ items \in Seq(ItemOf(R))
    /\ emptyNonce \in Int
    /\ WellFormed(items, emptyNonce)

(* shiftRight of everything from a place on: one item more at the end *)
LEMMA ShiftToEnd ==
    ASSUME NEW R, Priced(R), NEW items \in Seq(ItemOf(R)), NEW n \in Int,
           NEW first \in 1..Len(items)
    PROVE  LET new == ShiftRight(items, first, Len(items), n) IN
           /\ new \in Seq(ItemOf(R)) /\ Len(new) = Len(items) + 1
           /\ \A i \in 1..first : new[i] = items[i]
           /\ \A i \in (first + 1)..(Len(items) + 1) : new[i].request = items[i-1].request
           /\ \A i \in 1..Len(items) : Reissued(new[i], items[i])
           /\ new[Len(items) + 1].nonce = n
<1> DEFINE new == ShiftRight(items, first, Len(items), n)
           at(i) == IF i <= first \/ i > Len(items) + 1 THEN items[i]
                    ELSE IF i <= Len(items) THEN Replace(items[i], items[i-1].request)
                                            ELSE ItemAt(items[i-1].request, n)
<1>1. Len(items) \in Nat /\ DOMAIN items = 1..Len(items)
  OBVIOUS
<1>2. new = [i \in 1..(Len(items) + 1) |-> at(i)]
  BY <1>1 DEF ShiftRight
<1>3. ASSUME NEW i \in 1..(Len(items) + 1)
      PROVE  /\ at(i) \in ItemOf(R)
             /\ i <= first => at(i) = items[i]
             /\ i > first => at(i).request = items[i-1].request
             /\ i <= Len(items) => Reissued(at(i), items[i])
             /\ i > Len(items) => at(i).nonce = n
  <2>1. CASE i <= first
    <3>1. at(i) = items[i] /\ i \in 1..Len(items)
      BY <2>1, <1>1
    <3> QED
      BY <2>1, <3>1, <1>1 DEF Reissued
  <2>2. CASE i > first /\ i <= Len(items)
    <3>1. at(i) = Replace(items[i], items[i-1].request)
      BY <2>2, <1>1
    <3>2. i \in 1..Len(items) /\ i - 1 \in 1..Len(items)
      BY <2>2, <1>1
    <3>3. items[i] \in ItemOf(R) /\ items[i-1] \in ItemOf(R)
      BY <3>2
    <3>4. items[i-1].request \in R
      BY <3>3 DEF ItemOf
    <3>5. /\ at(i) \in ItemOf(R) /\ at(i).request = items[i-1].request
          /\ Reissued(at(i), items[i])
      BY <3>1, <3>3, <3>4, ReplaceTops DEF Reissued
    <3> QED
      BY <3>5, <2>2, <1>1
  <2>3. CASE i > Len(items)
    <3>1. at(i) = ItemAt(items[i-1].request, n)
      BY <2>3, <1>1
    <3>2. i - 1 \in 1..Len(items)
      BY <2>3, <1>1
    <3>3. items[i-1] \in ItemOf(R)
      BY <3>2
    <3>4. items[i-1].request \in R
      BY <3>3 DEF ItemOf
    <3>5. /\ at(i) \in ItemOf(R) /\ at(i).request = items[i-1].request
          /\ at(i).nonce = n
      BY <3>1, <3>4, AppendedItem
    <3> QED
      BY <3>5, <2>3, <1>1
  <2> QED
    BY <2>1, <2>2, <2>3, <1>1
<1> HIDE DEF at
<1>4. new \in Seq(ItemOf(R)) /\ Len(new) = Len(items) + 1
  BY <1>1, <1>2, <1>3
<1>5. \A i \in 1..(Len(items) + 1) : new[i] = at(i)
  BY <1>2
<1> HIDE DEF new
<1>6. \A i \in 1..first : new[i] = items[i]
  BY <1>1, <1>3, <1>5
<1>7. \A i \in (first + 1)..(Len(items) + 1) : new[i].request = items[i-1].request
  BY <1>1, <1>3, <1>5
<1>8. \A i \in 1..Len(items) : Reissued(new[i], items[i])
  BY <1>1, <1>3, <1>5
<1>9. new[Len(items) + 1].nonce = n
  BY <1>1, <1>3, <1>5
<1> QED
  BY <1>4, <1>6, <1>7, <1>8, <1>9 DEF new

(* The requests of new are those of items with one more at a place; the    *)
(* nonces are those of items and the empty one.                             *)
InsertedAt(new, items, n, request, place) ==
    /\ Len(new) = Len(items) + 1
    /\ \A i \in 1..(place - 1) : new[i].request = items[i].request
    /\ new[place].request = request
    /\ \A i \in (place + 1)..(Len(items) + 1) : new[i].request = items[i-1].request
    /\ \A i \in 1..Len(items) : Reissued(new[i], items[i])
    /\ new[Len(items) + 1].nonce = n

(* add puts a request behind those that are not cheaper. *)
LEMMA AddInserts ==
    ASSUME NEW R, Priced(R), NEW items, NEW n, QueueOf(R, items, n), NEW request \in R
    PROVE  /\ Add(items, n, request) \in Seq(ItemOf(R))
           /\ \E place \in 1..(Len(items) + 1) :
                /\ InsertedAt(Add(items, n, request), items, n, request, place)
                /\ \A i \in 1..(place - 1) : items[i].request.ideal >= request.ideal
                /\ place <= Len(items) => items[place].request.ideal < request.ideal
<1> DEFINE new     == Add(items, n, request)
           cheaper == Cheaper(items, request)
<1>1. /\ items \in Seq(ItemOf(R)) /\ n \in Int
      /\ Len(items) \in Nat /\ DOMAIN items = 1..Len(items)
  BY DEF QueueOf
<1>2. \A i \in 1..Len(items) : items[i] \in ItemOf(R)
  BY <1>1
<1>3. /\ \A i \in 1..Len(items) : items[i].request.ideal \in Int
      /\ request.ideal \in Int
  BY <1>2 DEF ItemOf, Priced
<1>4. cheaper = {i \in 1..Len(items) : request.ideal > items[i].request.ideal}
  BY <1>1 DEF Cheaper
<1>5. CASE cheaper = {}
  <2> DEFINE item == ItemAt(request, n)
  <2>1. new = Append(items, item)
    BY <1>5 DEF Add
  <2>2. item \in ItemOf(R) /\ item.request = request /\ item.nonce = n
    BY <1>1, AppendedItem
  <2> HIDE DEF item, new
  <2>3. /\ new \in Seq(ItemOf(R)) /\ Len(new) = Len(items) + 1
        /\ new[Len(items) + 1] = item
        /\ \A i \in 1..Len(items) : new[i] = items[i]
    BY <1>1, <2>1, <2>2
  <2>4. InsertedAt(new, items, n, request, Len(items) + 1)
    BY <1>1, <2>2, <2>3 DEF InsertedAt, Reissued
  <2>5. \A i \in 1..Len(items) : items[i].request.ideal >= request.ideal
    BY <1>3, <1>4, <1>5
  <2> QED
    BY <1>1, <2>3, <2>4, <2>5 DEF new
<1>6. CASE cheaper # {}
  <2> DEFINE at == CHOOSE i \in cheaper : \A j \in cheaper : i <= j
             shifted == ShiftRight(items, at, Len(items), n)
             placed  == Replace(items[at], request)
  <2>1. at \in cheaper /\ \A j \in cheaper : at <= j
    <3>1. cheaper \subseteq Nat
      BY <1>1, <1>4
    <3>2. \E i \in cheaper : \A j \in cheaper : i <= j
      BY <1>6, <3>1, LeastPlace
    <3> QED
      BY <3>2
  <2>2. new = [shifted EXCEPT ![at] = placed]
    BY <1>6 DEF Add
  <2> HIDE DEF at, new
  <2>3. at \in 1..Len(items) /\ items[at].request.ideal < request.ideal
    BY <1>3, <1>4, <2>1
  <2>4. \A i \in 1..(at - 1) : items[i].request.ideal >= request.ideal
    BY <1>1, <1>3, <1>4, <2>1, <2>3
  <2>5. placed \in ItemOf(R) /\ placed.request = request /\ Reissued(placed, items[at])
    BY <1>2, <2>3, ReplaceTops DEF Reissued
  <2>6. /\ shifted \in Seq(ItemOf(R)) /\ Len(shifted) = Len(items) + 1
        /\ \A i \in 1..at : shifted[i] = items[i]
        /\ \A i \in (at + 1)..(Len(items) + 1) : shifted[i].request = items[i-1].request
        /\ \A i \in 1..Len(items) : Reissued(shifted[i], items[i])
        /\ shifted[Len(items) + 1].nonce = n
    <3>1. items \in Seq(ItemOf(R)) /\ n \in Int /\ at \in 1..Len(items)
      BY <1>1, <2>3
    <3> QED
      BY <3>1, ShiftToEnd, Zenon
  <2> HIDE DEF shifted, placed
  <2>7. /\ new \in Seq(ItemOf(R)) /\ Len(new) = Len(items) + 1
        /\ new[at] = placed
        /\ \A i \in 1..(Len(items) + 1) : i # at => new[i] = shifted[i]
    BY <1>1, <2>2, <2>3, <2>5, <2>6
  <2>8. InsertedAt(new, items, n, request, at)
    <3>1. \A i \in 1..(at - 1) : new[i].request = items[i].request
      BY <1>1, <2>3, <2>6, <2>7
    <3>2. \A i \in (at + 1)..(Len(items) + 1) : new[i].request = items[i-1].request
      BY <1>1, <2>3, <2>6, <2>7
    <3>3. \A i \in 1..Len(items) : Reissued(new[i], items[i])
      BY <1>1, <2>3, <2>5, <2>6, <2>7
    <3>4. new[Len(items) + 1].nonce = n
      BY <1>1, <2>3, <2>6, <2>7
    <3> QED
      BY <2>5, <2>7, <3>1, <3>2, <3>3, <3>4 DEF InsertedAt
  <2> QED
    BY <1>1, <2>3, <2>4, <2>7, <2>8 DEF new
<1> QED
  BY <1>5, <1>6

(* The requests of new are those of items but the one at a place; the      *)
(* nonces are those of items but the first.                                 *)
RemovedAt(new, items, place) ==
    /\ Len(new) = Len(items) - 1
    /\ \A i \in 1..(place - 1) : new[i].request = items[i].request
    /\ \A i \in place..(Len(items) - 1) : new[i].request = items[i+1].request
    /\ \A i \in 1..(Len(items) - 1) : Reissued(new[i], items[i+1])

(* dequeue removes the item at the front. *)
LEMMA DequeueRemoves ==
    ASSUME NEW R, NEW items \in Seq(ItemOf(R)), items # <<>>
    PROVE  Dequeue(items) \in Seq(ItemOf(R)) /\ RemovedAt(Dequeue(items), items, 1)
<1>1. /\ Tail(items) \in Seq(ItemOf(R)) /\ Len(Tail(items)) = Len(items) - 1
      /\ \A i \in 1..(Len(items) - 1) : Tail(items)[i] = items[i+1]
  OBVIOUS
<1> QED
  BY <1>1 DEF Dequeue, RemovedAt, Reissued

(* consume removes the item that was mined, which is behind the front. *)
LEMMA ConsumeRemoves ==
    ASSUME NEW R, Priced(R), NEW items \in Seq(ItemOf(R)), NEW id,
           NEW place \in 2..Len(items), place = Position(items, id)
    PROVE  Consume(items, id) \in Seq(ItemOf(R)) /\ RemovedAt(Consume(items, id), items, place)
<1> DEFINE at(i) == IF i <= 1 \/ i > place THEN items[i]
                    ELSE Replace(items[i], items[i-1].request)
           shifted == ShiftRight(items, 1, place - 1, 0)
<1>1. Len(items) \in Nat /\ DOMAIN items = 1..Len(items)
  OBVIOUS
<1>2. shifted = [i \in 1..Len(items) |-> at(i)]
  BY <1>1 DEF ShiftRight
<1>3. ASSUME NEW i \in 1..Len(items)
      PROVE  /\ at(i) \in ItemOf(R) /\ Reissued(at(i), items[i])
             /\ i > place => at(i).request = items[i].request
             /\ i > 1 /\ i <= place => at(i).request = items[i-1].request
  <2>1. CASE i <= 1 \/ i > place
    BY <2>1, <1>1 DEF Reissued
  <2>2. CASE i > 1 /\ i <= place
    <3>1. i - 1 \in 1..Len(items)
      BY <2>2, <1>1
    <3>2. items[i] \in ItemOf(R) /\ items[i-1] \in ItemOf(R)
      BY <3>1
    <3>3. items[i-1].request \in R
      BY <3>2 DEF ItemOf
    <3>4. /\ Replace(items[i], items[i-1].request) \in ItemOf(R)
          /\ Replace(items[i], items[i-1].request).request = items[i-1].request
          /\ Reissued(Replace(items[i], items[i-1].request), items[i])
      BY <3>2, <3>3, ReplaceTops DEF Reissued
    <3>5. at(i) = Replace(items[i], items[i-1].request)
      BY <2>2
    <3> QED
      BY <2>2, <3>4, <3>5
  <2> QED
    BY <2>1, <2>2, <1>1
<1> HIDE DEF at
<1>4. /\ shifted \in Seq(ItemOf(R)) /\ Len(shifted) = Len(items)
      /\ \A i \in 1..Len(items) : shifted[i] = at(i)
  BY <1>1, <1>2, <1>3
<1>5. Consume(items, id) = Tail(shifted)
  BY DEF Consume
<1> HIDE DEF shifted
<1>6. /\ Tail(shifted) \in Seq(ItemOf(R)) /\ Len(Tail(shifted)) = Len(items) - 1
      /\ \A i \in 1..(Len(items) - 1) : Tail(shifted)[i] = at(i+1)
  BY <1>1, <1>4
<1>7. \A i \in 1..(place - 1) : Tail(shifted)[i].request = items[i].request
  BY <1>1, <1>3, <1>6
<1>8. \A i \in place..(Len(items) - 1) : Tail(shifted)[i].request = items[i+1].request
  BY <1>1, <1>3, <1>6
<1>9. \A i \in 1..(Len(items) - 1) : Reissued(Tail(shifted)[i], items[i+1])
  BY <1>1, <1>3, <1>6
<1> QED
  BY <1>5, <1>6, <1>7, <1>8, <1>9 DEF RemovedAt

-----------------------------------------------------------------------------
(* What the constructor checks, kept by each operation *)

(* Without one of its items a queue is still one, one nonce further. *)
LEMMA RemovalWellFormed ==
    ASSUME NEW R, Priced(R), NEW items, NEW n, QueueOf(R, items, n),
           NEW new \in Seq(ItemOf(R)), NEW place \in 1..Len(items),
           RemovedAt(new, items, place)
    PROVE  /\ QueueOf(R, new, n)
           /\ Ids(new) = Ids(items) \ {items[place].request.id}
<1>1. /\ items \in Seq(ItemOf(R)) /\ n \in Int /\ Len(items) \in Nat
      /\ DOMAIN items = 1..Len(items) /\ DOMAIN new = 1..Len(new)
      /\ Len(new) = Len(items) - 1
  BY DEF QueueOf, RemovedAt
<1> DEFINE from(i) == IF i < place THEN i ELSE i + 1
<1>2. \A i \in 1..Len(new) : /\ from(i) \in 1..Len(items) /\ from(i) # place
                             /\ new[i].request = items[from(i)].request
  BY <1>1 DEF RemovedAt
<1>3. \A i \in 1..Len(items) : items[i].request.ideal \in Int
  <2>1. \A i \in 1..Len(items) : items[i] \in ItemOf(R)
    BY <1>1
  <2> QED
    BY <2>1 DEF ItemOf, Priced
<1>4. OrderedByPrice(new)
  <2> SUFFICES ASSUME NEW i \in 1..Len(new), i > 1
               PROVE  new[i].request.ideal <= new[i-1].request.ideal
    BY <1>1 DEF OrderedByPrice
  <2>1. \A j \in 2..Len(items) : items[j].request.ideal <= items[j-1].request.ideal
    <3>1. \A j \in DOMAIN items :
              j > 1 => items[j].request.ideal <= items[j-1].request.ideal
      BY DEF QueueOf, WellFormed, OrderedByPrice
    <3>2. \A j \in 2..Len(items) : j \in DOMAIN items /\ j > 1
      BY <1>1
    <3> QED
      BY <3>1, <3>2
  <2>2. i - 1 \in 1..Len(new)
    BY <1>1
  <2>3. CASE i # place
    <3>1. from(i) \in 2..Len(items) /\ from(i-1) = from(i) - 1
      BY <1>1, <2>3
    <3> QED
      BY <1>2, <2>1, <2>2, <3>1
  <2>4. CASE i = place
    <3>1. from(i) = i + 1 /\ from(i-1) = i - 1 /\ i \in 2..Len(items) /\ i + 1 \in 2..Len(items)
      BY <1>1, <2>4
    <3>2. /\ items[i+1].request.ideal <= items[i].request.ideal
          /\ items[i].request.ideal <= items[i-1].request.ideal
      BY <2>1, <3>1
    <3>3. /\ items[i+1].request.ideal \in Int /\ items[i].request.ideal \in Int
          /\ items[i-1].request.ideal \in Int
      BY <1>1, <1>3, <3>1
    <3>4. items[i+1].request.ideal <= items[i-1].request.ideal
      BY <3>2, <3>3
    <3> QED
      BY <1>2, <2>2, <3>1, <3>4
  <2> QED
    BY <2>3, <2>4
<1>5. ConsecutiveNonces(new, n)
  <2>1. \A i \in 1..Len(items) : items[i].nonce = n - Len(items) + i - 1
    BY <1>1 DEF QueueOf, WellFormed, ConsecutiveNonces
  <2>2. \A i \in 1..Len(new) : new[i].nonce = items[i+1].nonce /\ i + 1 \in 1..Len(items)
    BY <1>1 DEF RemovedAt, Reissued
  <2>3. \A i \in 1..Len(new) : new[i].nonce = n - Len(new) + i - 1
    <3> SUFFICES ASSUME NEW i \in 1..Len(new)
                 PROVE  new[i].nonce = n - Len(new) + i - 1
      OBVIOUS
    <3>1. new[i].nonce = n - Len(items) + (i + 1) - 1
      BY <2>1, <2>2
    <3> QED
      BY <1>1, <3>1
  <2> QED
    BY <1>1, <2>3 DEF ConsecutiveNonces
<1>6. \A i, j \in 1..Len(items) : items[i].request.id = items[j].request.id => i = j
  BY <1>1 DEF QueueOf, WellFormed, NothingTwice
<1>7. NothingTwice(new)
  <2> SUFFICES ASSUME NEW i \in 1..Len(new), NEW j \in 1..Len(new),
                      new[i].request.id = new[j].request.id
               PROVE  i = j
    BY <1>1 DEF NothingTwice
  <2>1. from(i) = from(j)
    BY <1>2, <1>6
  <2> QED
    BY <1>1, <2>1
<1>8. Len(new) <= MaxQueueDepth
  BY <1>1, QueueAssumption DEF QueueOf, WellFormed
<1>9. Ids(new) = Ids(items) \ {items[place].request.id}
  <2>1. ASSUME NEW i \in 1..Len(new)
        PROVE  new[i].request.id \in Ids(items) \ {items[place].request.id}
    BY <1>1, <1>2, <1>6 DEF Ids
  <2>2. ASSUME NEW i \in 1..Len(items), i # place
        PROVE  items[i].request.id \in Ids(new)
    <3> DEFINE k == IF i < place THEN i ELSE i - 1
    <3>1. k \in 1..Len(new) /\ from(k) = i
      BY <1>1, <2>2
    <3>2. new[k].request.id = items[i].request.id
      BY <1>2, <3>1
    <3> QED
      BY <1>1, <3>1, <3>2 DEF Ids
  <2> QED
    BY <1>1, <2>1, <2>2 DEF Ids
<1> QED
  BY <1>1, <1>4, <1>5, <1>7, <1>8, <1>9 DEF QueueOf, WellFormed

(* gasQueue.ts:206-211, add: with one request more, a queue that has room  *)
(* and lacks the request is still one, and holds that response as well.     *)
THEOREM AddMakesQueue ==
    ASSUME NEW R, Priced(R), NEW items, NEW n, QueueOf(R, items, n), NEW request \in R,
           ~DepthReached(items), ~Contains(items, request.id)
    PROVE  /\ QueueOf(R, Add(items, n, request), n + 1)
           /\ Ids(Add(items, n, request)) = Ids(items) \cup {request.id}
<1> DEFINE new == Add(items, n, request)
<1>1. PICK place \in 1..(Len(items) + 1) :
         /\ InsertedAt(new, items, n, request, place)
         /\ \A i \in 1..(place - 1) : items[i].request.ideal >= request.ideal
         /\ place <= Len(items) => items[place].request.ideal < request.ideal
  BY AddInserts
<1>2. new \in Seq(ItemOf(R))
  BY AddInserts
<1> HIDE DEF new
<1>3. /\ items \in Seq(ItemOf(R)) /\ n \in Int /\ Len(items) \in Nat
      /\ DOMAIN items = 1..Len(items) /\ DOMAIN new = 1..(Len(items) + 1)
      /\ Len(new) = Len(items) + 1
  BY <1>1, <1>2 DEF QueueOf, InsertedAt
<1> DEFINE from(i) == IF i < place THEN i ELSE i - 1
<1>4. \A i \in 1..Len(new) :
         IF i = place THEN new[i].request = request
         ELSE from(i) \in 1..Len(items) /\ new[i].request = items[from(i)].request
  BY <1>1, <1>3 DEF InsertedAt
<1>5. \A i \in 1..Len(items) : items[i].request.ideal \in Int
  <2>1. \A i \in 1..Len(items) : items[i] \in ItemOf(R)
    BY <1>3
  <2> QED
    BY <2>1 DEF ItemOf, Priced
<1>6. request.ideal \in Int
  BY DEF Priced
<1>7. OrderedByPrice(new)
  <2> SUFFICES ASSUME NEW i \in 1..Len(new), i > 1
               PROVE  new[i].request.ideal <= new[i-1].request.ideal
    BY <1>3 DEF OrderedByPrice
  <2>1. \A j \in 2..Len(items) : items[j].request.ideal <= items[j-1].request.ideal
    <3>1. \A j \in DOMAIN items :
              j > 1 => items[j].request.ideal <= items[j-1].request.ideal
      BY DEF QueueOf, WellFormed, OrderedByPrice
    <3>2. \A j \in 2..Len(items) : j \in DOMAIN items /\ j > 1
      BY <1>3
    <3> QED
      BY <3>1, <3>2
  <2>2. i - 1 \in 1..Len(new)
    BY <1>3
  <2>3. CASE i = place
    <3>1. new[i].request = request /\ new[i-1].request = items[i-1].request
      BY <1>3, <1>4, <2>2, <2>3
    <3>2. items[i-1].request.ideal >= request.ideal /\ i - 1 \in 1..Len(items)
      BY <1>1, <1>3, <2>3
    <3> QED
      BY <1>5, <1>6, <3>1, <3>2
  <2>4. CASE i - 1 = place
    <3>1. /\ new[i-1].request = request /\ new[i].request = items[place].request
          /\ place \in 1..Len(items)
      BY <1>3, <1>4, <2>2, <2>4
    <3>2. items[place].request.ideal < request.ideal
      BY <1>1, <3>1
    <3> QED
      BY <1>5, <1>6, <3>1, <3>2
  <2>5. CASE i # place /\ i - 1 # place
    <3>1. from(i) \in 2..Len(items) /\ from(i-1) = from(i) - 1
      BY <1>3, <2>5
    <3>2. /\ new[i].request = items[from(i)].request
          /\ new[i-1].request = items[from(i) - 1].request
      BY <1>4, <2>2, <2>5, <3>1
    <3> QED
      BY <2>1, <3>1, <3>2
  <2> QED
    BY <2>3, <2>4, <2>5
<1>8. ConsecutiveNonces(new, n + 1)
  <2>1. \A i \in 1..Len(items) : items[i].nonce = n - Len(items) + i - 1
    BY <1>3 DEF QueueOf, WellFormed, ConsecutiveNonces
  <2>2. /\ \A i \in 1..Len(items) : new[i].nonce = items[i].nonce
        /\ new[Len(items) + 1].nonce = n
    BY <1>1 DEF InsertedAt, Reissued
  <2>3. \A i \in 1..Len(new) : new[i].nonce = (n + 1) - Len(new) + i - 1
    <3> SUFFICES ASSUME NEW i \in 1..Len(new)
                 PROVE  new[i].nonce = (n + 1) - Len(new) + i - 1
      OBVIOUS
    <3>1. CASE i \in 1..Len(items)
      BY <1>3, <2>1, <2>2, <3>1
    <3>2. CASE i = Len(items) + 1
      BY <1>3, <2>2, <3>2
    <3> QED
      BY <1>3, <3>1, <3>2
  <2> QED
    BY <1>3, <2>3 DEF ConsecutiveNonces
<1>9. /\ \A i, j \in 1..Len(items) : items[i].request.id = items[j].request.id => i = j
      /\ \A i \in 1..Len(items) : items[i].request.id # request.id
  BY <1>3 DEF QueueOf, WellFormed, NothingTwice, Contains, Ids
<1>10. NothingTwice(new)
  <2> SUFFICES ASSUME NEW i \in 1..Len(new), NEW j \in 1..Len(new),
                      new[i].request.id = new[j].request.id
               PROVE  i = j
    BY <1>3 DEF NothingTwice
  <2>1. CASE i # place /\ j # place
    <3>1. from(i) = from(j)
      BY <1>4, <1>9, <2>1
    <3> QED
      BY <1>3, <2>1, <3>1
  <2>2. ASSUME NEW k \in 1..Len(new), k # place PROVE new[k].request.id # request.id
    <3>1. from(k) \in 1..Len(items) /\ new[k].request = items[from(k)].request
      BY <1>4, <2>2
    <3>2. items[from(k)].request.id # request.id
      BY <1>9, <3>1
    <3> QED
      BY <3>1, <3>2
  <2>3. new[place].request = request
    BY <1>3, <1>4
  <2>4. CASE i = place \/ j = place
    BY <2>2, <2>3, <2>4
  <2> QED
    BY <2>1, <2>4
<1>11. Len(new) <= MaxQueueDepth
  BY <1>3, QueueAssumption DEF DepthReached
<1>12. Ids(new) = Ids(items) \cup {request.id}
  <2>1. ASSUME NEW i \in 1..Len(new)
        PROVE  new[i].request.id \in Ids(items) \cup {request.id}
    BY <1>3, <1>4 DEF Ids
  <2>2. ASSUME NEW i \in 1..Len(items)
        PROVE  items[i].request.id \in Ids(new)
    <3> DEFINE k == IF i < place THEN i ELSE i + 1
    <3>1. k \in 1..Len(new) /\ k # place /\ from(k) = i
      BY <1>3
    <3>2. new[k].request.id = items[i].request.id
      BY <1>4, <3>1
    <3> QED
      BY <1>3, <3>1, <3>2 DEF Ids
  <2>3. request.id \in Ids(new)
    <3>1. place \in 1..Len(new) /\ new[place].request = request
      BY <1>3, <1>4
    <3> QED
      BY <1>3, <3>1 DEF Ids
  <2> QED
    BY <1>3, <2>1, <2>2, <2>3 DEF Ids
<1> QED
  BY <1>2, <1>3, <1>7, <1>8, <1>10, <1>11, <1>12 DEF QueueOf, WellFormed, new

(* multiResponder.ts:153, dequeue: when the front item was mined, what is  *)
(* left is a queue that lacks that response only.                           *)
THEOREM DequeueMakesQueue ==
    ASSUME NEW R, Priced(R), NEW items, NEW n, QueueOf(R, items, n), items # <<>>
    PROVE  /\ QueueOf(R, Dequeue(items), n)
           /\ Ids(Dequeue(items)) = Ids(items) \ {items[1].request.id}
<1>1. items \in Seq(ItemOf(R)) /\ 1 \in 1..Len(items)
  BY DEF QueueOf
<1>2. Dequeue(items) \in Seq(ItemOf(R)) /\ RemovedAt(Dequeue(items), items, 1)
  BY <1>1, DequeueRemoves
<1> QED
  BY <1>1, <1>2, RemovalWellFormed

(* multiResponder.ts:164, consume: when an item behind the front was mined *)
(* in its stead, what is left is a queue that lacks the mined response only *)
(* and goes on from the nonce after the one that was used.                  *)
THEOREM ConsumeMakesQueue ==
    ASSUME NEW R, Priced(R), NEW items, NEW n, QueueOf(R, items, n), NEW id,
           Contains(items, id), items[1].request.id # id
    PROVE  /\ QueueOf(R, Consume(items, id), n)
           /\ Ids(Consume(items, id)) = Ids(items) \ {id}
<1> DEFINE place == Position(items, id)
<1>1. items \in Seq(ItemOf(R)) /\ Len(items) \in Nat /\ DOMAIN items = 1..Len(items)
  BY DEF QueueOf
<1>2. place \in 1..Len(items) /\ items[place].request.id = id
  BY <1>1 DEF Contains, Ids, Position
<1>3. place \in 2..Len(items)
  BY <1>1, <1>2
<1>4. Consume(items, id) \in Seq(ItemOf(R)) /\ RemovedAt(Consume(items, id), items, place)
  BY <1>1, <1>3, ConsumeRemoves
<1> QED
  BY <1>2, <1>4, RemovalWellFormed

-----------------------------------------------------------------------------
(* prepend *)

(* The keys of a stable sort give each place a rank of its own. *)
LEMMA RankPermutes ==
    ASSUME NEW D \in SUBSET Nat, IsFiniteSet(D), NEW keys \in [D -> Int],
           NEW n, n = Cardinality(D)
    PROVE  /\ \A i \in D : Rank(keys, i) \in 1..n
           /\ \A i, j \in D : Rank(keys, i) = Rank(keys, j) => i = j
           /\ \A k \in 1..n : \E i \in D : Rank(keys, i) = k
<1> DEFINE upto(i) == {j \in D : keys[j] < keys[i] \/ (keys[j] = keys[i] /\ j <= i)}
           rank == [i \in D |-> Rank(keys, i)]
<1>1. \A i \in D : Rank(keys, i) = Cardinality(upto(i))
  BY DEF Rank
<1>2. n \in Nat /\ IsFiniteSet(1..n) /\ Cardinality(1..n) = n
  BY FS_CardinalityType, FS_Interval
<1>3. ASSUME NEW i \in D
      PROVE  /\ upto(i) \in SUBSET D /\ i \in upto(i)
             /\ IsFiniteSet(upto(i)) /\ Cardinality(upto(i)) \in 1..n
  <2>1. upto(i) \in SUBSET D /\ i \in upto(i)
    OBVIOUS
  <2> HIDE DEF upto
  <2>2. IsFiniteSet(upto(i)) /\ Cardinality(upto(i)) <= n
    BY <2>1, FS_Subset
  <2>3. Cardinality(upto(i)) \in Nat
    BY <2>2, FS_CardinalityType
  <2>4. Cardinality(upto(i)) # 0
    BY <2>1, <2>2, FS_EmptySet
  <2> QED
    BY <2>1, <2>2, <2>3, <2>4
<1>4. ASSUME NEW i \in D, NEW j \in D, i # j, Rank(keys, i) = Rank(keys, j)
      PROVE  FALSE
  <2>1. \/ upto(i) \in SUBSET upto(j) /\ j \notin upto(i)
        \/ upto(j) \in SUBSET upto(i) /\ i \notin upto(j)
    <3>1. \A x \in D : keys[x] \in Int /\ x \in Int
      OBVIOUS
    <3>2. CASE keys[i] < keys[j] \/ (keys[i] = keys[j] /\ i < j)
      <4>1. ASSUME NEW x \in upto(i) PROVE x \in upto(j)
        <5>1. /\ x \in D /\ keys[x] \in Int /\ x \in Int
              /\ keys[i] \in Int /\ keys[j] \in Int /\ i \in Int /\ j \in Int
          BY <3>1
        <5>2. keys[x] < keys[i] \/ (keys[x] = keys[i] /\ x <= i)
          OBVIOUS
        <5>3. keys[x] < keys[j] \/ (keys[x] = keys[j] /\ x <= j)
          BY <3>2, <5>1, <5>2
        <5> QED
          BY <5>1, <5>3
      <4>2. j \notin upto(i)
        BY <3>1, <3>2
      <4> QED
        BY <4>1, <4>2
    <3>3. CASE keys[j] < keys[i] \/ (keys[j] = keys[i] /\ j < i)
      <4>1. ASSUME NEW x \in upto(j) PROVE x \in upto(i)
        <5>1. /\ x \in D /\ keys[x] \in Int /\ x \in Int
              /\ keys[i] \in Int /\ keys[j] \in Int /\ i \in Int /\ j \in Int
          BY <3>1
        <5>2. keys[x] < keys[j] \/ (keys[x] = keys[j] /\ x <= j)
          OBVIOUS
        <5>3. keys[x] < keys[i] \/ (keys[x] = keys[i] /\ x <= i)
          BY <3>3, <5>1, <5>2
        <5> QED
          BY <5>1, <5>3
      <4>2. i \notin upto(j)
        BY <3>1, <3>3
      <4> QED
        BY <4>1, <4>2
    <3>4. \/ keys[i] < keys[j] \/ (keys[i] = keys[j] /\ i < j)
          \/ keys[j] < keys[i] \/ (keys[j] = keys[i] /\ j < i)
      BY <1>4, <3>1
    <3> QED
      BY <3>2, <3>3, <3>4
  <2>2. /\ i \in upto(i) /\ IsFiniteSet(upto(i))
        /\ j \in upto(j) /\ IsFiniteSet(upto(j))
        /\ Cardinality(upto(i)) = Cardinality(upto(j))
    BY <1>1, <1>3, <1>4
  <2> HIDE DEF upto
  <2>3. CASE upto(i) \in SUBSET upto(j) /\ j \notin upto(i)
    <3>1. upto(i) = upto(j)
      BY <2>2, <2>3, FS_Subset
    <3> QED
      BY <2>2, <2>3, <3>1
  <2>4. CASE upto(j) \in SUBSET upto(i) /\ i \notin upto(j)
    <3>1. upto(j) = upto(i)
      BY <2>2, <2>4, FS_Subset
    <3> QED
      BY <2>2, <2>4, <3>1
  <2> QED
    BY <2>1, <2>3, <2>4
<1>5. \A i \in D : Rank(keys, i) \in 1..n
  BY <1>1, <1>3
<1>6. rank \in Injection(D, 1..n)
  BY <1>4, <1>5 DEF Injection, IsInjective
<1>7. rank \in Surjection(D, 1..n)
  <2> HIDE DEF rank
  <2> QED
    BY <1>2, <1>6, FS_Injection
<1>8. \A k \in 1..n : \E i \in D : Rank(keys, i) = k
  BY <1>7 DEF Surjection
<1> QED
  BY <1>4, <1>5, <1>8

(* What has one of the numbers of an interval each is as many as they are. *)
LEMMA OneEach ==
    ASSUME NEW S, NEW a \in Int, NEW b \in Int, a <= b + 1, NEW f \in Bijection(S, a..b)
    PROVE  IsFiniteSet(S) /\ Cardinality(S) = b - a + 1
<1>1. f \in Injection(S, a..b)
  BY DEF Bijection
<1>2. f \in Surjection(S, a..b)
  BY DEF Bijection
<1>3. IsFiniteSet(a..b) /\ Cardinality(a..b) = b - a + 1
  BY FS_Interval
<1> QED
  BY <1>1, <1>2, <1>3, FS_Injection

(* So many different numbers of an interval are all of its numbers. *)
LEMMA AllNumbers ==
    ASSUME NEW a \in Int, NEW b \in Int, NEW n \in Nat, b = a + n - 1,
           NEW f \in [1..n -> a..b], \A i, j \in 1..n : f[i] = f[j] => i = j
    PROVE  f \in Surjection(1..n, a..b)
<1>1. f \in Injection(1..n, a..b)
  BY DEF Injection, IsInjective
<1>2. IsFiniteSet(1..n) /\ Cardinality(1..n) = n
  BY FS_Interval
<1>3. IsFiniteSet(a..b) /\ Cardinality(a..b) = n
  <2>1. IsFiniteSet(a..b) /\ Cardinality(a..b) = IF a > b THEN 0 ELSE b - a + 1
    BY FS_Interval
  <2> QED
    BY <2>1
<1> QED
  BY <1>1, <1>2, <1>3, FS_Injection

(* A stable sort puts the lower keys first. *)
LEMMA RankInOrder ==
    ASSUME NEW n \in Nat, NEW keys \in [1..n -> Int],
           NEW i \in 1..n, NEW j \in 1..n, Rank(keys, i) < Rank(keys, j)
    PROVE  keys[i] <= keys[j]
<1> SUFFICES ASSUME keys[j] < keys[i] PROVE FALSE
  OBVIOUS
<1> DEFINE upto(k) == {m \in 1..n : keys[m] < keys[k] \/ (keys[m] = keys[k] /\ m <= k)}
<1>1. \A k \in 1..n : Rank(keys, k) = Cardinality(upto(k))
  BY DEF Rank
<1>2. upto(j) \in SUBSET upto(i)
  <2> SUFFICES ASSUME NEW m \in 1..n, keys[m] < keys[j] \/ (keys[m] = keys[j] /\ m <= j)
               PROVE  keys[m] < keys[i]
    OBVIOUS
  <2>1. keys[m] \in Int /\ keys[i] \in Int /\ keys[j] \in Int
    OBVIOUS
  <2> QED
    BY <2>1
<1>3. upto(i) \in SUBSET (1..n) /\ upto(j) \in SUBSET (1..n) /\ IsFiniteSet(1..n)
  <2>1. IsFiniteSet(1..n)
    BY FS_Interval
  <2> QED
    BY <2>1
<1> HIDE DEF upto
<1>4. /\ IsFiniteSet(upto(i)) /\ Cardinality(upto(j)) <= Cardinality(upto(i))
      /\ Cardinality(upto(i)) \in Nat /\ Cardinality(upto(j)) \in Nat
  <2>1. IsFiniteSet(upto(i)) /\ IsFiniteSet(upto(j))
    BY <1>3, FS_Subset
  <2> QED
    BY <1>2, <2>1, FS_Subset, FS_CardinalityType
<1> QED
  BY <1>1, <1>4

(* Of all the numbers of an interval, the rank of each is its distance from *)
(* the first.                                                               *)
LEMMA RankOfNumber ==
    ASSUME NEW n \in Nat, NEW a \in Int, NEW keys \in [1..n -> a..(a + n - 1)],
           \A i, j \in 1..n : keys[i] = keys[j] => i = j,
           NEW i \in 1..n
    PROVE  Rank(keys, i) = keys[i] - a + 1
<1> DEFINE upto == {j \in 1..n : keys[j] < keys[i] \/ (keys[j] = keys[i] /\ j <= i)}
           f    == [j \in upto |-> keys[j]]
<1>1. Rank(keys, i) = Cardinality(upto)
  BY DEF Rank
<1>2. keys[i] \in a..(a + n - 1) /\ keys[i] \in Int
  OBVIOUS
<1>3. \A j \in 1..n : j \in upto <=> keys[j] <= keys[i]
  <2> SUFFICES ASSUME NEW j \in 1..n PROVE j \in upto <=> keys[j] <= keys[i]
    OBVIOUS
  <2>1. keys[j] \in Int /\ (keys[j] = keys[i] => j = i)
    OBVIOUS
  <2> QED
    BY <1>2, <2>1
<1>4. upto \subseteq 1..n
  OBVIOUS
<1> HIDE DEF upto
<1>5. f \in [upto -> a..keys[i]] /\ \A x, y \in upto : f[x] = f[y] => x = y
  BY <1>2, <1>3, <1>4
<1>6. ASSUME NEW m \in a..keys[i] PROVE \E x \in upto : f[x] = m
  <2>1. m \in a..(a + n - 1)
    BY <1>2
  <2> DEFINE last == a + n - 1
  <2>2. last \in Int /\ last = a + n - 1 /\ keys \in [1..n -> a..last]
    OBVIOUS
  <2> HIDE DEF last
  <2>3. keys \in Surjection(1..n, a..last)
    BY <2>2, AllNumbers
  <2>4. PICK j \in 1..n : keys[j] = m
    BY <2>1, <2>2, <2>3 DEF Surjection
  <2> QED
    BY <1>2, <1>3, <2>4
<1> HIDE DEF f
<1>7. Cardinality(upto) = keys[i] - a + 1
  <2>1. keys[i] \in Int /\ a <= keys[i] + 1
    BY <1>2
  <2> DEFINE last == keys[i]
  <2> HIDE DEF last
  <2>2. /\ last \in Int /\ a <= last + 1 /\ f \in [upto -> a..last]
        /\ \A m \in a..last : \E x \in upto : f[x] = m
    BY <1>5, <1>6, <2>1 DEF last
  <2>3. f \in Bijection(upto, a..last)
    BY <1>5, <2>2 DEF Bijection, Injection, IsInjective, Surjection
  <2>4. Cardinality(upto) = last - a + 1
    BY <2>2, <2>3, OneEach
  <2> QED
    BY <2>4 DEF last
<1> QED
  BY <1>1, <1>7

(* The places of a sequence of n, in another order *)
Orders(n) == {p \in [1..n -> 1..n] : /\ \A i, j \in 1..n : p[i] = p[j] => i = j
                                     /\ \A k \in 1..n : \E i \in 1..n : p[i] = k}

(* Array.sort puts the items in another order, that of their ranks. *)
LEMMA SortedByRank ==
    ASSUME NEW S, NEW items \in Seq(S), NEW keys \in [1..Len(items) -> Int]
    PROVE  /\ Sorted(items, keys) \in Seq(S) /\ Len(Sorted(items, keys)) = Len(items)
           /\ \E p \in Orders(Len(items)) :
                  \A k \in 1..Len(items) : /\ Sorted(items, keys)[k] = items[p[k]]
                                          /\ Rank(keys, p[k]) = k
<1> DEFINE n     == Len(items)
           at(k) == CHOOSE i \in 1..n : Rank(keys, i) = k
           p     == [k \in 1..n |-> at(k)]
<1>1. n \in Nat /\ DOMAIN items = 1..n /\ \A i \in 1..n : items[i] \in S
  OBVIOUS
<1>2. Sorted(items, keys) = [k \in 1..n |-> items[at(k)]]
  BY <1>1 DEF Sorted
<1> HIDE DEF n
<1>3. /\ \A i \in 1..n : Rank(keys, i) \in 1..n
      /\ \A i, j \in 1..n : Rank(keys, i) = Rank(keys, j) => i = j
      /\ \A k \in 1..n : \E i \in 1..n : Rank(keys, i) = k
  <2>1. IsFiniteSet(1..n) /\ n = Cardinality(1..n)
    BY <1>1, FS_Interval
  <2>2. 1..n \in SUBSET Nat /\ keys \in [1..n -> Int]
    BY <1>1 DEF n
  <2> QED
    BY <2>1, <2>2, RankPermutes, Zenon
<1>4. \A k \in 1..n : at(k) \in 1..n /\ Rank(keys, at(k)) = k
  BY <1>3
<1>5. \A i \in 1..n : at(Rank(keys, i)) = i
  BY <1>3, <1>4
<1> HIDE DEF at
<1>6. p \in Orders(n)
  <2>1. p \in [1..n -> 1..n]
    BY <1>4
  <2>2. \A i, j \in 1..n : p[i] = p[j] => i = j
    BY <1>4
  <2>3. \A k \in 1..n : \E i \in 1..n : p[i] = k
    BY <1>3, <1>5
  <2> QED
    BY <2>1, <2>2, <2>3 DEF Orders
<1>7. \A k \in 1..n : Sorted(items, keys)[k] = items[p[k]] /\ Rank(keys, p[k]) = k
  BY <1>2, <1>4
<1>8. Sorted(items, keys) \in Seq(S) /\ Len(Sorted(items, keys)) = n
  BY <1>1, <1>2, <1>4
<1> QED
  BY <1>6, <1>7, <1>8 DEF n

LEMMA SortedPermutes ==
    ASSUME NEW S, NEW items \in Seq(S), NEW keys \in [1..Len(items) -> Int]
    PROVE  /\ Sorted(items, keys) \in Seq(S) /\ Len(Sorted(items, keys)) = Len(items)
           /\ \E p \in Orders(Len(items)) :
                  \A k \in 1..Len(items) : Sorted(items, keys)[k] = items[p[k]]
<1>1. PICK p \in Orders(Len(items)) :
         \A k \in 1..Len(items) : Sorted(items, keys)[k] = items[p[k]] /\ Rank(keys, p[k]) = k
  BY SortedByRank
<1>2. \A k \in 1..Len(items) : Sorted(items, keys)[k] = items[p[k]]
  BY <1>1
<1> QED
  BY <1>2, SortedByRank

(* Two changes of the order are one. *)
LEMMA OrdersCompose ==
    ASSUME NEW n \in Nat, NEW p \in Orders(n), NEW q \in Orders(n)
    PROVE  [k \in 1..n |-> p[q[k]]] \in Orders(n)
<1> DEFINE r == [k \in 1..n |-> p[q[k]]]
<1>1. /\ p \in [1..n -> 1..n] /\ \A i, j \in 1..n : p[i] = p[j] => i = j
      /\ q \in [1..n -> 1..n] /\ \A i, j \in 1..n : q[i] = q[j] => i = j
      /\ \A k \in 1..n : \E i \in 1..n : p[i] = k
      /\ \A k \in 1..n : \E i \in 1..n : q[i] = k
  BY DEF Orders
<1>2. r \in [1..n -> 1..n] /\ \A k \in 1..n : r[k] = p[q[k]]
  BY <1>1
<1> HIDE DEF r
<1>3. ASSUME NEW i \in 1..n, NEW j \in 1..n, r[i] = r[j] PROVE i = j
  <2>1. q[i] \in 1..n /\ q[j] \in 1..n /\ p[q[i]] = p[q[j]]
    BY <1>1, <1>2, <1>3
  <2>2. q[i] = q[j]
    BY <1>1, <2>1
  <2> QED
    BY <1>1, <2>2
<1>4. ASSUME NEW k \in 1..n PROVE \E i \in 1..n : r[i] = k
  <2>1. PICK j \in 1..n : p[j] = k
    BY <1>1
  <2>2. PICK i \in 1..n : q[i] = j
    BY <1>1
  <2> QED
    BY <1>2, <2>1, <2>2
<1>5. r \in Orders(n)
  BY <1>2, <1>3, <1>4 DEF Orders
<1> QED
  BY <1>5 DEF r

(* Each place of new keeps a nonce of old and tops the item that had it;   *)
(* each response of old has a place in new.                                 *)
Permuted(new, old) ==
    /\ Len(new) = Len(old)
    /\ \E p \in Orders(Len(old)) : \A k \in 1..Len(old) : Reissued(new[k], old[p[k]])
    /\ \E q \in Orders(Len(old)) :
           \A k \in 1..Len(old) : new[k].request = old[q[k]].request

(* prepend: each place keeps one of the nonces there were, and at least    *)
(* tops the item that had it; each response has one of the places.          *)
LEMMA PrependPermutes ==
    ASSUME NEW R, Priced(R), NEW items \in Seq(ItemOf(R)), NEW missing \in Seq(ItemOf(R))
    PROVE  /\ Prepend(items, missing) \in Seq(ItemOf(R))
           /\ Permuted(Prepend(items, missing), missing \o items)
<1> DEFINE all     == missing \o items
           n       == Len(all)
           new     == Prepend(items, missing)
           nonces  == [i \in 1..n |-> all[i].nonce]
           byNonce == Sorted(all, nonces)
           ideals  == [i \in 1..n |-> -byNonce[i].request.ideal]
           byIdeal == Sorted(byNonce, ideals)
           at(k)   == IF byIdeal[k] = byNonce[k] THEN byNonce[k]
                      ELSE Replace(byNonce[k], byIdeal[k].request)
<1>1. all \in Seq(ItemOf(R)) /\ n \in Nat /\ DOMAIN all = 1..n
  OBVIOUS
<1>2. new = [k \in 1..n |-> at(k)]
  BY <1>1 DEF Prepend
<1> HIDE DEF all, new
<1>3. \A i \in 1..n : all[i] \in ItemOf(R)
  BY <1>1
<1>4. nonces \in [1..n -> Int]
  BY <1>3 DEF ItemOf
<1> HIDE DEF nonces
<1>5. /\ byNonce \in Seq(ItemOf(R)) /\ Len(byNonce) = n
      /\ \E p \in Orders(n) : \A k \in 1..n : byNonce[k] = all[p[k]]
  BY <1>1, <1>4, SortedPermutes
<1> HIDE DEF byNonce
<1>6. \A i \in 1..n : byNonce[i] \in ItemOf(R)
  BY <1>5
<1>7. ideals \in [1..Len(byNonce) -> Int]
  BY <1>5, <1>6 DEF ItemOf, Priced
<1> HIDE DEF ideals, n
<1>8. /\ byIdeal \in Seq(ItemOf(R)) /\ Len(byIdeal) = n
      /\ \E q \in Orders(n) : \A k \in 1..n : byIdeal[k] = byNonce[q[k]]
  <2>1. byNonce \in Seq(ItemOf(R)) /\ Len(byNonce) = n
    BY <1>5
  <2>2. /\ byIdeal \in Seq(ItemOf(R)) /\ Len(byIdeal) = Len(byNonce)
        /\ \E q \in Orders(Len(byNonce)) :
               \A k \in 1..Len(byNonce) : byIdeal[k] = byNonce[q[k]]
    BY <1>7, <2>1, SortedPermutes
  <2> QED
    BY <2>1, <2>2
<1> HIDE DEF byIdeal
<1>9. ASSUME NEW k \in 1..n
      PROVE  /\ at(k) \in ItemOf(R) /\ Reissued(at(k), byNonce[k])
             /\ at(k).request = byIdeal[k].request
  <2>1. byNonce[k] \in ItemOf(R) /\ byIdeal[k] \in ItemOf(R)
    BY <1>6, <1>8
  <2>2. byIdeal[k].request \in R
    BY <2>1 DEF ItemOf
  <2>3. CASE byIdeal[k] = byNonce[k]
    BY <2>1, <2>3 DEF Reissued
  <2>4. CASE byIdeal[k] # byNonce[k]
    <3>1. at(k) = Replace(byNonce[k], byIdeal[k].request)
      BY <2>4
    <3> QED
      BY <2>1, <2>2, <3>1, ReplaceTops DEF Reissued
  <2> QED
    BY <2>3, <2>4
<1>10. /\ new \in Seq(ItemOf(R)) /\ Len(new) = n
       /\ \A k \in 1..n : new[k] = at(k)
  BY <1>1, <1>2, <1>9
<1> HIDE DEF at
<1>11. PICK p \in Orders(n) : \A k \in 1..n : byNonce[k] = all[p[k]]
  BY <1>5
<1>12. PICK q \in Orders(n) : \A k \in 1..n : byIdeal[k] = byNonce[q[k]]
  BY <1>8
<1>13. \A k \in 1..n : Reissued(new[k], all[p[k]])
  BY <1>9, <1>10, <1>11
<1> DEFINE pq == [k \in 1..n |-> p[q[k]]]
<1>14. pq \in Orders(n)
  BY <1>1, OrdersCompose
<1>15. \A k \in 1..n : new[k].request = all[pq[k]].request
  <2>1. \A k \in 1..n : q[k] \in 1..n
    BY DEF Orders
  <2> QED
    BY <1>9, <1>10, <1>11, <1>12, <2>1
<1> QED
  <2>1. Permuted(new, all)
    BY <1>10, <1>13, <1>14, <1>15 DEF Permuted, n
  <2> QED
    BY <1>10, <2>1 DEF all, new

-----------------------------------------------------------------------------
(* What each operation does to the transactions at the nonces of the queue *)

(* A queue has one item at each nonce from its front to the empty one. *)
LEMMA QueuedNonces ==
    ASSUME NEW R, NEW items, NEW n, QueueOf(R, items, n)
    PROVE  /\ \A i \in DOMAIN items : items[i].nonce \in (n - Len(items))..(n - 1)
           /\ \A m \in (n - Len(items))..(n - 1) :
                  \E i \in DOMAIN items : items[i].nonce = m
           /\ \A i, j \in DOMAIN items : items[i].nonce = items[j].nonce => i = j
<1>1. Len(items) \in Nat /\ DOMAIN items = 1..Len(items) /\ n \in Int
  BY DEF QueueOf
<1>2. \A i \in 1..Len(items) : items[i].nonce = n - Len(items) + i - 1
  BY <1>1 DEF QueueOf, WellFormed, ConsecutiveNonces
<1>3. ASSUME NEW m \in (n - Len(items))..(n - 1)
      PROVE  \E i \in 1..Len(items) : items[i].nonce = m
  <2>1. m - (n - Len(items)) + 1 \in 1..Len(items)
    BY <1>1
  <2>2. items[m - (n - Len(items)) + 1].nonce = m
    BY <1>1, <1>2, <2>1
  <2> QED
    BY <2>1, <2>2
<1>4. \A i \in 1..Len(items) : items[i].nonce \in (n - Len(items))..(n - 1)
  BY <1>1, <1>2
<1>5. \A i, j \in 1..Len(items) : items[i].nonce = items[j].nonce => i = j
  BY <1>1, <1>2
<1> QED
  BY <1>1, <1>3, <1>4, <1>5

(* add: each item but the last is where one was; no response is lost. *)
LEMMA AddReissues ==
    ASSUME NEW R, Priced(R), NEW items, NEW n, QueueOf(R, items, n), NEW request \in R
    PROVE  LET new == Add(items, n, request) IN
           /\ new \in Seq(ItemOf(R)) /\ Len(new) = Len(items) + 1
           /\ \A i \in 1..Len(items) : Reissued(new[i], items[i])
           /\ new[Len(items) + 1].nonce = n
           /\ Ids(items) \subseteq Ids(new)
<1> DEFINE new == Add(items, n, request)
<1>1. PICK place \in 1..(Len(items) + 1) : InsertedAt(new, items, n, request, place)
  BY AddInserts
<1>2. new \in Seq(ItemOf(R))
  BY AddInserts
<1> HIDE DEF new
<1>3. /\ Len(items) \in Nat /\ DOMAIN items = 1..Len(items)
      /\ Len(new) = Len(items) + 1 /\ DOMAIN new = 1..(Len(items) + 1)
  BY <1>1, <1>2 DEF QueueOf, InsertedAt
<1>4. ASSUME NEW i \in 1..Len(items)
      PROVE  items[i].request.id \in Ids(new)
  <2> DEFINE k == IF i < place THEN i ELSE i + 1
  <2>1. k \in DOMAIN new /\ new[k].request = items[i].request
    BY <1>1, <1>3 DEF InsertedAt
  <2> QED
    BY <2>1 DEF Ids
<1>5. Ids(items) \subseteq Ids(new)
  BY <1>3, <1>4 DEF Ids
<1> QED
  BY <1>1, <1>2, <1>3, <1>5 DEF InsertedAt, new

(* txMined: the queue without the response, wherever it was. *)
Removed(items, id) ==
    IF items[1].request.id = id THEN Dequeue(items) ELSE Consume(items, id)

(* dequeue and consume: each item is where the one behind it was. *)
LEMMA RemovalReissues ==
    ASSUME NEW R, Priced(R), NEW items, NEW n, QueueOf(R, items, n), NEW id,
           Contains(items, id)
    PROVE  /\ QueueOf(R, Removed(items, id), n)
           /\ Ids(Removed(items, id)) = Ids(items) \ {id}
           /\ Len(items) >= 1 /\ Len(Removed(items, id)) = Len(items) - 1
           /\ \A i \in 1..Len(Removed(items, id)) : Reissued(Removed(items, id)[i], items[i+1])
<1> DEFINE place == Position(items, id)
           new   == Removed(items, id)
<1>1. items \in Seq(ItemOf(R)) /\ Len(items) \in Nat /\ DOMAIN items = 1..Len(items)
  BY DEF QueueOf
<1>2. place \in 1..Len(items) /\ items[place].request.id = id
  BY <1>1 DEF Contains, Ids, Position
<1>3. Len(items) >= 1 /\ items # <<>>
  BY <1>1, <1>2
<1> HIDE DEF place, new
<1>4. CASE items[1].request.id = id
  <2>1. new = Dequeue(items)
    BY <1>4 DEF Removed, new
  <2>2. RemovedAt(new, items, 1)
    BY <1>1, <1>3, <2>1, DequeueRemoves
  <2>3. QueueOf(R, new, n) /\ Ids(new) = Ids(items) \ {id}
    <3>1. /\ QueueOf(R, Dequeue(items), n)
          /\ Ids(Dequeue(items)) = Ids(items) \ {items[1].request.id}
      BY <1>3, DequeueMakesQueue, Zenon
    <3> QED
      BY <1>4, <2>1, <3>1
  <2> QED
    BY <1>1, <1>3, <2>2, <2>3 DEF RemovedAt, new
<1>5. CASE items[1].request.id # id
  <2>1. new = Consume(items, id)
    BY <1>5 DEF Removed, new
  <2>2. place \in 2..Len(items)
    BY <1>1, <1>2, <1>5
  <2>3. RemovedAt(new, items, place)
    BY <1>1, <2>1, <2>2, ConsumeRemoves DEF place
  <2>4. QueueOf(R, new, n) /\ Ids(new) = Ids(items) \ {id}
    <3>1. /\ QueueOf(R, Consume(items, id), n)
          /\ Ids(Consume(items, id)) = Ids(items) \ {id}
      BY <1>5, ConsumeMakesQueue, Zenon
    <3> QED
      BY <2>1, <3>1
  <2> QED
    BY <1>1, <1>3, <2>3, <2>4 DEF RemovedAt, new
<1> QED
  BY <1>4, <1>5

(* prepend: the responses are those of both. *)
LEMMA PrependIds ==
    ASSUME NEW R, Priced(R), NEW items \in Seq(ItemOf(R)), NEW missing \in Seq(ItemOf(R))
    PROVE  Ids(Prepend(items, missing)) = Ids(missing) \cup Ids(items)
<1> DEFINE all == missing \o items
           new == Prepend(items, missing)
<1>1. /\ Len(all) = Len(missing) + Len(items) /\ DOMAIN all = 1..Len(all)
      /\ DOMAIN missing = 1..Len(missing) /\ DOMAIN items = 1..Len(items)
      /\ Len(missing) \in Nat /\ Len(items) \in Nat
      /\ \A i \in 1..Len(missing) : all[i] = missing[i]
      /\ \A i \in 1..Len(items) : all[Len(missing) + i] = items[i]
      /\ \A i \in (Len(missing) + 1)..Len(all) : all[i] = items[i - Len(missing)]
  OBVIOUS
<1>2. new \in Seq(ItemOf(R)) /\ Permuted(new, all)
  BY PrependPermutes
<1> HIDE DEF all, new
<1>3. PICK q \in Orders(Len(all)) :
         \A k \in 1..Len(all) : new[k].request = all[q[k]].request
  BY <1>2 DEF Permuted
<1>4. /\ \A k \in 1..Len(all) : q[k] \in 1..Len(all)
      /\ \A i \in 1..Len(all) : \E k \in 1..Len(all) : q[k] = i
  BY DEF Orders
<1>5. DOMAIN new = 1..Len(all)
  BY <1>2 DEF Permuted
<1>6. Ids(new) = Ids(all)
  <2>1. ASSUME NEW k \in 1..Len(all) PROVE new[k].request.id \in Ids(all)
    <3>1. q[k] \in DOMAIN all /\ new[k].request = all[q[k]].request
      BY <1>1, <1>3, <1>4, <2>1
    <3> QED
      BY <3>1 DEF Ids
  <2>2. ASSUME NEW i \in 1..Len(all) PROVE all[i].request.id \in Ids(new)
    <3>1. PICK k \in 1..Len(all) : q[k] = i
      BY <1>4
    <3>2. new[k].request = all[i].request
      BY <1>3, <3>1
    <3> QED
      BY <1>5, <3>2 DEF Ids
  <2>3. Ids(new) \subseteq Ids(all)
    BY <1>5, <2>1 DEF Ids
  <2>4. Ids(all) \subseteq Ids(new)
    BY <1>1, <2>2 DEF Ids
  <2> QED
    BY <2>3, <2>4
<1>7. Ids(all) = Ids(missing) \cup Ids(items)
  <2>1. ASSUME NEW i \in 1..Len(all) PROVE all[i].request.id \in Ids(missing) \cup Ids(items)
    <3>1. CASE i <= Len(missing)
      BY <1>1, <3>1 DEF Ids
    <3>2. CASE i > Len(missing)
      <4>1. i - Len(missing) \in DOMAIN items /\ all[i] = items[i - Len(missing)]
        BY <1>1, <3>2
      <4> QED
        BY <4>1 DEF Ids
    <3> QED
      BY <1>1, <3>1, <3>2
  <2>2. ASSUME NEW i \in 1..Len(missing) PROVE missing[i].request.id \in Ids(all)
    <3>1. i \in DOMAIN all /\ all[i] = missing[i]
      BY <1>1
    <3> QED
      BY <3>1 DEF Ids
  <2>3. ASSUME NEW i \in 1..Len(items) PROVE items[i].request.id \in Ids(all)
    <3>1. Len(missing) + i \in DOMAIN all /\ all[Len(missing) + i] = items[i]
      BY <1>1
    <3> QED
      BY <3>1 DEF Ids
  <2>4. Ids(all) \subseteq Ids(missing) \cup Ids(items)
    BY <1>1, <2>1 DEF Ids
  <2>5. Ids(missing) \subseteq Ids(all)
    BY <1>1, <2>2 DEF Ids
  <2>6. Ids(items) \subseteq Ids(all)
    BY <1>1, <2>3 DEF Ids
  <2> QED
    BY <2>4, <2>5, <2>6
<1> QED
  BY <1>6, <1>7 DEF new
(* The places of two sequences put together *)
LEMMA Joined ==
    ASSUME NEW S, NEW first \in Seq(S), NEW second \in Seq(S),
           NEW all, all = first \o second
    PROVE  /\ all \in Seq(S) /\ Len(all) = Len(first) + Len(second)
           /\ Len(first) \in Nat /\ Len(second) \in Nat
           /\ DOMAIN first = 1..Len(first) /\ DOMAIN second = 1..Len(second)
           /\ \A i \in 1..Len(all) :
                 \/ i \in 1..Len(first) /\ all[i] = first[i]
                 \/ i - Len(first) \in 1..Len(second) /\ all[i] = second[i - Len(first)]
  OBVIOUS

(* gasQueue.ts:305-326, prepend: items whose nonces are those right before  *)
(* the front of the queue make a queue with it, if there is room for them.  *)
THEOREM PrependMakesQueue ==
    ASSUME NEW R, Priced(R), NEW items, NEW e, QueueOf(R, items, e),
           NEW missing \in Seq(ItemOf(R)), NothingTwice(missing),
           Ids(missing) \cap Ids(items) = {},
           Len(missing) + Len(items) <= MaxQueueDepth,
           \A i, j \in DOMAIN missing : missing[i].nonce = missing[j].nonce => i = j,
           \A i \in DOMAIN missing :
               missing[i].nonce \in (e - Len(items) - Len(missing))..(e - Len(items) - 1)
    PROVE  QueueOf(R, Prepend(items, missing), e)
<1> DEFINE all     == missing \o items
           n       == Len(all)
           a       == e - n
           new     == Prepend(items, missing)
           nonces  == [i \in 1..n |-> all[i].nonce]
           byNonce == Sorted(all, nonces)
           ideals  == [i \in 1..n |-> -byNonce[i].request.ideal]
           byIdeal == Sorted(byNonce, ideals)
           at(k)   == IF byIdeal[k] = byNonce[k] THEN byNonce[k]
                      ELSE Replace(byNonce[k], byIdeal[k].request)
<1>1. items \in Seq(ItemOf(R)) /\ e \in Int /\ WellFormed(items, e)
  BY DEF QueueOf
<1>2. /\ all \in Seq(ItemOf(R)) /\ n = Len(missing) + Len(items)
      /\ Len(missing) \in Nat /\ Len(items) \in Nat
      /\ DOMAIN missing = 1..Len(missing) /\ DOMAIN items = 1..Len(items)
      /\ \A i \in 1..n :
            \/ i \in 1..Len(missing) /\ all[i] = missing[i]
            \/ i - Len(missing) \in 1..Len(items) /\ all[i] = items[i - Len(missing)]
  BY <1>1, Joined
<1>3. n \in Nat /\ DOMAIN all = 1..n /\ a \in Int /\ n <= MaxQueueDepth
  <2> HIDE DEF all
  <2>1. DOMAIN all = 1..n
    BY <1>2
  <2>2. n = Len(missing) + Len(items) /\ Len(missing) \in Nat /\ Len(items) \in Nat /\ e \in Int
    BY <1>1, <1>2
  <2> HIDE DEF n
  <2>3. n \in Nat /\ a \in Int /\ n <= MaxQueueDepth
    BY <2>2
  <2> QED
    BY <2>1, <2>3
<1>4. new = [k \in 1..n |-> at(k)]
  <2>1. DOMAIN all = 1..n
    BY <1>3
  <2> QED
    BY <2>1 DEF Prepend
<1>5. new \in Seq(ItemOf(R)) /\ Len(new) = n /\ Permuted(new, all)
  <2>1. new \in Seq(ItemOf(R)) /\ Permuted(new, all)
    BY <1>1, PrependPermutes
  <2> QED
    BY <2>1 DEF Permuted
<1> HIDE DEF all, new
<1>6. \A i \in 1..n : all[i] \in ItemOf(R)
  BY <1>2
<1> HIDE DEF n
<1>7. \A i \in 1..Len(items) : items[i].nonce = e - Len(items) + i - 1
  BY <1>1, <1>2 DEF WellFormed, ConsecutiveNonces
<1>8. ASSUME NEW i \in 1..n, NEW j \in 1..n
      PROVE  /\ all[i].nonce \in a..(a + n - 1)
             /\ all[i].nonce = all[j].nonce => i = j
  <2> DEFINE m == Len(missing)
  <2>1. ASSUME NEW k \in 1..n
        PROVE  \/ /\ k \in 1..m /\ all[k] = missing[k]
                  /\ all[k].nonce \in a..(e - Len(items) - 1)
               \/ /\ k > m /\ all[k].nonce = a + k - 1
    <3>1. CASE k \in 1..m /\ all[k] = missing[k]
      <4>1. missing[k].nonce \in (e - Len(items) - m)..(e - Len(items) - 1)
        BY <1>2, <3>1
      <4>2. e - Len(items) - m = a
        BY <1>1, <1>2, <1>3
      <4> QED
        BY <3>1, <4>1, <4>2
    <3>2. CASE k - m \in 1..Len(items) /\ all[k] = items[k - m]
      <4>1. all[k].nonce = e - Len(items) + (k - m) - 1
        BY <1>7, <3>2
      <4>2. e - Len(items) + (k - m) - 1 = a + k - 1 /\ k > m
        BY <1>1, <1>2, <1>3, <3>2
      <4> QED
        BY <4>1, <4>2
    <3> QED
      BY <1>2, <3>1, <3>2
  <2>2. m \in Nat /\ a + m = e - Len(items) /\ n = m + Len(items) /\ Len(items) \in Nat
    BY <1>1, <1>2, <1>3
  <2>3. \A k, l \in 1..m : missing[k].nonce = missing[l].nonce => k = l
    BY <1>2
  <2> HIDE DEF m, a
  <2>4. a \in Int /\ n \in Nat /\ i \in Int /\ j \in Int
    BY <1>3
  <2>5. all[i].nonce \in a..(a + n - 1)
    BY <2>1, <2>2, <2>4
  <2>6. ASSUME all[i].nonce = all[j].nonce PROVE i = j
    <3>1. CASE i \in 1..m /\ j \in 1..m
      BY <2>1, <2>2, <2>3, <2>6, <3>1
    <3>2. CASE ~(i \in 1..m /\ j \in 1..m)
      BY <2>1, <2>2, <2>4, <2>6, <3>2
    <3> QED
      BY <3>1, <3>2
  <2> QED
    BY <2>5, <2>6
<1> HIDE DEF a
<1>9. nonces \in [1..n -> a..(a + n - 1)] /\ \A i, j \in 1..n : nonces[i] = nonces[j] => i = j
  BY <1>8
<1>10. \A i \in 1..n : Rank(nonces, i) = all[i].nonce - a + 1
  <2>1. \A i \in 1..n : Rank(nonces, i) = nonces[i] - a + 1
    <3> HIDE DEF nonces
    <3> QED
      BY <1>3, <1>9, RankOfNumber
  <2> QED
    BY <2>1
<1>11. nonces \in [1..n -> Int]
  BY <1>6 DEF ItemOf
<1> HIDE DEF nonces
<1>12. /\ byNonce \in Seq(ItemOf(R)) /\ Len(byNonce) = n
       /\ \E p \in Orders(n) :
              \A k \in 1..n : byNonce[k] = all[p[k]] /\ Rank(nonces, p[k]) = k
  <2>1. n = Len(all)
    BY DEF n
  <2> QED
    BY <1>2, <1>11, <2>1, SortedByRank
<1> HIDE DEF byNonce
<1>13. PICK p \in Orders(n) :
          \A k \in 1..n : byNonce[k] = all[p[k]] /\ Rank(nonces, p[k]) = k
  BY <1>12
<1>14. ASSUME NEW k \in 1..n PROVE byNonce[k].nonce = e - n + k - 1
  <2>1. p[k] \in 1..n /\ byNonce[k] = all[p[k]] /\ Rank(nonces, p[k]) = k
    BY <1>13 DEF Orders
  <2>2. all[p[k]].nonce - a + 1 = k /\ all[p[k]].nonce \in Int
    BY <1>6, <1>10, <2>1 DEF ItemOf
  <2> QED
    BY <1>1, <1>3, <2>1, <2>2 DEF a
<1>15. \A i \in 1..n : byNonce[i] \in ItemOf(R)
  BY <1>12
<1>16. ideals \in [1..n -> Int] /\ \A i \in 1..n : ideals[i] = -byNonce[i].request.ideal
  BY <1>15 DEF ItemOf, Priced
<1> HIDE DEF ideals
<1>17. PICK q \in Orders(n) :
          \A k \in 1..n : byIdeal[k] = byNonce[q[k]] /\ Rank(ideals, q[k]) = k
  <2>1. byNonce \in Seq(ItemOf(R)) /\ ideals \in [1..Len(byNonce) -> Int]
    BY <1>12, <1>16
  <2>2. \E q \in Orders(Len(byNonce)) : \A k \in 1..Len(byNonce) :
            byIdeal[k] = byNonce[q[k]] /\ Rank(ideals, q[k]) = k
    BY <2>1, SortedByRank
  <2> QED
    BY <1>12, <2>2
<1> HIDE DEF byIdeal
<1>18. ASSUME NEW k \in 1..n
       PROVE  new[k].nonce = byNonce[k].nonce /\ new[k].request = byIdeal[k].request
  <2>1. new[k] = at(k)
    BY <1>4
  <2>2. CASE byIdeal[k] = byNonce[k]
    BY <2>1, <2>2
  <2>3. CASE byIdeal[k] # byNonce[k]
    BY <2>1, <2>3 DEF Replace
  <2> QED
    BY <2>2, <2>3
<1> HIDE DEF at
<1>19. \A k \in 1..n : q[k] \in 1..n /\ new[k].request = byNonce[q[k]].request
  BY <1>17, <1>18 DEF Orders
<1>20. DOMAIN new = 1..n
  BY <1>3, <1>5
<1>21. OrderedByPrice(new)
  <2> SUFFICES ASSUME NEW k \in 1..n, k > 1
               PROVE  new[k].request.ideal <= new[k-1].request.ideal
    BY <1>20 DEF OrderedByPrice
  <2>1. k - 1 \in 1..n /\ Rank(ideals, q[k-1]) < Rank(ideals, q[k])
    BY <1>3, <1>17
  <2>2. ideals[q[k-1]] <= ideals[q[k]]
    <3>1. q[k-1] \in 1..n /\ q[k] \in 1..n
      BY <1>19, <2>1
    <3> QED
      BY <1>3, <1>16, <2>1, <3>1, RankInOrder
  <2>3. /\ byNonce[q[k]].request.ideal \in Nat /\ byNonce[q[k-1]].request.ideal \in Nat
        /\ ideals[q[k]] = -byNonce[q[k]].request.ideal
        /\ ideals[q[k-1]] = -byNonce[q[k-1]].request.ideal
    BY <1>15, <1>16, <1>19, <2>1 DEF ItemOf, Priced
  <2>4. byNonce[q[k]].request.ideal <= byNonce[q[k-1]].request.ideal
    BY <2>2, <2>3
  <2> QED
    BY <1>19, <2>1, <2>4
<1>22. ConsecutiveNonces(new, e)
  BY <1>5, <1>14, <1>18, <1>20 DEF ConsecutiveNonces
<1>23. NothingTwice(new)
  <2>1. ASSUME NEW i \in 1..n, NEW j \in 1..n, all[i].request.id = all[j].request.id
        PROVE  i = j
    <3> DEFINE m == Len(missing)
    <3>1. ASSUME NEW k \in 1..n
          PROVE  \/ k \in 1..m /\ all[k] = missing[k] /\ all[k].request.id \in Ids(missing)
                 \/ k - m \in 1..Len(items) /\ all[k] = items[k - m]
                       /\ all[k].request.id \in Ids(items)
      BY <1>2 DEF Ids
    <3>2. CASE i \in 1..m /\ all[i] = missing[i] /\ j \in 1..m /\ all[j] = missing[j]
      BY <1>2, <2>1, <3>2 DEF NothingTwice
    <3>3. CASE /\ i - m \in 1..Len(items) /\ all[i] = items[i - m]
               /\ j - m \in 1..Len(items) /\ all[j] = items[j - m]
      <4>1. i - m = j - m
        BY <1>1, <1>2, <2>1, <3>3 DEF WellFormed, NothingTwice
      <4> QED
        BY <1>2, <4>1
    <3> QED
      BY <2>1, <3>1, <3>2, <3>3
  <2> SUFFICES ASSUME NEW k \in 1..n, NEW l \in 1..n, new[k].request.id = new[l].request.id
               PROVE  k = l
    BY <1>20 DEF NothingTwice
  <2>2. /\ p \in [1..n -> 1..n] /\ \A i, j \in 1..n : p[i] = p[j] => i = j
        /\ q \in [1..n -> 1..n] /\ \A i, j \in 1..n : q[i] = q[j] => i = j
    BY DEF Orders
  <2>3. ASSUME NEW i \in 1..n
        PROVE  q[i] \in 1..n /\ p[q[i]] \in 1..n /\ new[i].request = all[p[q[i]]].request
    <3>1. q[i] \in 1..n /\ new[i].request = byNonce[q[i]].request
      BY <1>19
    <3>2. byNonce[q[i]] = all[p[q[i]]] /\ p[q[i]] \in 1..n
      BY <1>13, <2>2, <3>1
    <3> QED
      BY <3>1, <3>2
  <2>4. all[p[q[k]]].request.id = all[p[q[l]]].request.id
    BY <2>3
  <2>5. p[q[k]] = p[q[l]]
    BY <2>1, <2>3, <2>4
  <2>6. q[k] = q[l]
    BY <2>2, <2>3, <2>5
  <2> QED
    BY <2>2, <2>6
<1>24. WellFormed(new, e)
  BY <1>3, <1>5, <1>21, <1>22, <1>23 DEF WellFormed
<1> QED
  BY <1>1, <1>5, <1>24 DEF QueueOf, new
=============================================================================

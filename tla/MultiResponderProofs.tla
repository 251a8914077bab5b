------------------------ MODULE MultiResponderProofs ------------------------
(***************************************************************************)
(* Proofs about the multi responder, for every number of responses, every  *)
(* set of prices, every queue depth, replacement rate and number of         *)
(* confirmations, and every chain.                                          *)
(***************************************************************************)
EXTENDS MultiResponder, GasQueueProofs

-----------------------------------------------------------------------------
(* The members of a sequence that are in a set *)

(* Where the chosen members are in s: at other places, and in their order. *)
Places(nth, s, chosen) ==
    /\ nth \in [DOMAIN chosen -> DOMAIN s]
    /\ \A k \in DOMAIN chosen : chosen[k] = s[nth[k]]
    /\ \A k, m \in DOMAIN chosen : nth[k] = nth[m] => k = m
    /\ \A k, m \in DOMAIN chosen : k < m => nth[k] < nth[m]

(* Among chooses every member of the set. *)
LEMMA AmongInOrder ==
    ASSUME NEW T, NEW s \in Seq(T), NEW S
    PROVE  /\ Among(s, S) \in Seq(T)
           /\ \A k \in DOMAIN Among(s, S) : Among(s, S)[k] \in S
           /\ \A i \in DOMAIN s :
                  s[i] \in S => \E k \in DOMAIN Among(s, S) : Among(s, S)[k] = s[i]
           /\ \E nth : /\ Places(nth, s, Among(s, S))
                        /\ \A i \in DOMAIN s :
                               s[i] \in S => \E k \in DOMAIN Among(s, S) : nth[k] = i
<1> DEFINE D       == {i \in DOMAIN s : s[i] \in S}
           keys    == [i \in D |-> i]
           Upto(i) == {j \in D : j <= i}
           Nth(k)  == CHOOSE i \in D : Cardinality(Upto(i)) = k
           n       == Cardinality(D)
           chosen  == Among(s, S)
<1>1. Len(s) \in Nat /\ DOMAIN s = 1..Len(s) /\ \A i \in DOMAIN s : s[i] \in T
  OBVIOUS
<1>2. chosen = [k \in 1..n |-> s[Nth(k)]]
  BY DEF Among
<1> HIDE DEF chosen
<1>3. D \in SUBSET (1..Len(s)) /\ D \in SUBSET Nat /\ \A i \in D : s[i] \in S
  BY <1>1
<1>4. ASSUME NEW i \in D PROVE Rank(keys, i) = Cardinality(Upto(i))
  <2>1. {j \in DOMAIN keys : keys[j] < keys[i] \/ (keys[j] = keys[i] /\ j <= i)} = Upto(i)
    BY <1>3
  <2> QED
    BY <2>1 DEF Rank
<1> HIDE DEF Upto
<1>5. \A i \in 1..Len(s) : i \in D <=> s[i] \in S
  BY <1>1
<1> HIDE DEF D
<1>6. IsFiniteSet(D) /\ n \in Nat
  <2>1. IsFiniteSet(1..Len(s))
    BY <1>1, FS_Interval
  <2>2. IsFiniteSet(D)
    BY <1>3, <2>1, FS_Subset
  <2> QED
    BY <2>2, FS_CardinalityType
<1>7. keys \in [D -> Int]
  BY <1>3
<1> HIDE DEF keys
<1>8. /\ \A i \in D : Rank(keys, i) \in 1..n
      /\ \A i, j \in D : Rank(keys, i) = Rank(keys, j) => i = j
      /\ \A k \in 1..n : \E i \in D : Rank(keys, i) = k
  BY <1>3, <1>6, <1>7, RankPermutes
<1> HIDE DEF n
<1>9. \A k \in 1..n : Nth(k) \in D /\ Cardinality(Upto(Nth(k))) = k
  BY <1>4, <1>8
<1>10. \A i \in D : Cardinality(Upto(i)) \in 1..n /\ Nth(Cardinality(Upto(i))) = i
  <2>1. ASSUME NEW i \in D PROVE Cardinality(Upto(i)) \in 1..n /\ Nth(Cardinality(Upto(i))) = i
    <3>1. Cardinality(Upto(i)) = Rank(keys, i) /\ Rank(keys, i) \in 1..n
      BY <1>4, <1>8
    <3>2. Nth(Rank(keys, i)) \in D /\ Cardinality(Upto(Nth(Rank(keys, i)))) = Rank(keys, i)
      BY <1>9, <3>1
    <3>3. Rank(keys, Nth(Rank(keys, i))) = Rank(keys, i)
      BY <1>4, <3>2
    <3> QED
      BY <1>8, <3>1, <3>2, <3>3
  <2> QED
    BY <2>1
<1> DEFINE nth == [k \in 1..n |-> Nth(k)]
<1> HIDE DEF Nth
<1>11. /\ chosen \in Seq(T) /\ DOMAIN chosen = 1..n
       /\ \A k \in 1..n : chosen[k] = s[Nth(k)]
  <2>1. \A k \in 1..n : s[Nth(k)] \in T
    BY <1>1, <1>3, <1>9
  <2> QED
    BY <1>2, <1>6, <2>1
<1>12. \A k \in 1..n : chosen[k] \in S
  BY <1>3, <1>9, <1>11
<1>13. ASSUME NEW i \in DOMAIN s, s[i] \in S PROVE \E k \in 1..n : chosen[k] = s[i]
  <2>1. i \in D
    BY <1>1, <1>5, <1>13
  <2> QED
    BY <1>10, <1>11, <2>1
<1>14. nth \in [1..n -> DOMAIN s] /\ \A k \in 1..n : nth[k] = Nth(k)
  BY <1>1, <1>3, <1>9
<1> HIDE DEF nth
<1>15. /\ \A k \in 1..n : chosen[k] = s[nth[k]]
       /\ \A k, m \in 1..n : nth[k] = nth[m] => k = m
  BY <1>9, <1>11, <1>14
<1>16. ASSUME NEW k \in 1..n, NEW m \in 1..n, k < m PROVE Nth(k) < Nth(m)
  <2>1. /\ Nth(k) \in D /\ Cardinality(Upto(Nth(k))) = k /\ Nth(k) \in Nat
        /\ Nth(m) \in D /\ Cardinality(Upto(Nth(m))) = m /\ Nth(m) \in Nat
    BY <1>3, <1>9
  <2>2. SUFFICES ASSUME Nth(m) <= Nth(k) PROVE FALSE
    BY <2>1
  <2>3. Upto(Nth(m)) \subseteq Upto(Nth(k)) /\ Upto(Nth(k)) \subseteq D
    <3>1. \A j \in D : j \in Nat
      BY <1>3
    <3>2. \A j \in D : j <= Nth(m) => j <= Nth(k)
      BY <2>1, <2>2, <3>1
    <3> QED
      BY <3>2 DEF Upto
  <2>4. Cardinality(Upto(Nth(m))) <= Cardinality(Upto(Nth(k)))
    <3>1. IsFiniteSet(Upto(Nth(k)))
      BY <1>6, <2>3, FS_Subset
    <3> QED
      BY <2>3, <3>1, FS_Subset
  <2> QED
    BY <1>6, <1>16, <2>1, <2>4
<1>17. ASSUME NEW i \in DOMAIN s, s[i] \in S PROVE \E k \in 1..n : Nth(k) = i
  <2>1. i \in D
    BY <1>1, <1>5, <1>17
  <2> QED
    BY <1>10, <2>1
<1>18. \E f : /\ Places(f, s, chosen)
               /\ \A i \in DOMAIN s : s[i] \in S => \E k \in DOMAIN chosen : f[k] = i
  <2>1. nth \in [DOMAIN chosen -> DOMAIN s]
    BY <1>11, <1>14
  <2>2. /\ \A k \in DOMAIN chosen : chosen[k] = s[nth[k]]
        /\ \A k, m \in DOMAIN chosen : nth[k] = nth[m] => k = m
    BY <1>11, <1>15
  <2>3. \A k, m \in DOMAIN chosen : k < m => nth[k] < nth[m]
    <3>1. ASSUME NEW k \in 1..n, NEW m \in 1..n, k < m PROVE nth[k] < nth[m]
      BY <1>14, <1>16, <3>1
    <3> HIDE DEF n
    <3> QED
      BY <1>11, <3>1
  <2>4. \A i \in DOMAIN s : s[i] \in S => \E k \in DOMAIN chosen : nth[k] = i
    BY <1>11, <1>14, <1>17
  <2>5. Places(nth, s, chosen)
    BY <2>1, <2>2, <2>3 DEF Places
  <2> QED
    BY <2>4, <2>5
<1>19. /\ chosen \in Seq(T)
       /\ \A k \in DOMAIN chosen : chosen[k] \in S
       /\ \A i \in DOMAIN s : s[i] \in S => \E k \in DOMAIN chosen : chosen[k] = s[i]
  BY <1>11, <1>12, <1>13
<1> QED
  BY <1>18, <1>19 DEF chosen

(* The same without the order, as most of what uses it needs it *)
LEMMA AmongSelects ==
    ASSUME NEW T, NEW s \in Seq(T), NEW S
    PROVE  /\ Among(s, S) \in Seq(T)
           /\ \A k \in DOMAIN Among(s, S) : Among(s, S)[k] \in S
           /\ \A i \in DOMAIN s :
                  s[i] \in S => \E k \in DOMAIN Among(s, S) : Among(s, S)[k] = s[i]
           /\ \E nth \in [DOMAIN Among(s, S) -> DOMAIN s] :
                  /\ \A k \in DOMAIN Among(s, S) : Among(s, S)[k] = s[nth[k]]
                  /\ \A k, m \in DOMAIN Among(s, S) : nth[k] = nth[m] => k = m
<1> DEFINE chosen == Among(s, S)
<1>1. /\ chosen \in Seq(T)
      /\ \A k \in DOMAIN chosen : chosen[k] \in S
      /\ \A i \in DOMAIN s : s[i] \in S => \E k \in DOMAIN chosen : chosen[k] = s[i]
  BY AmongInOrder
<1>2. PICK nth : Places(nth, s, chosen)
  BY AmongInOrder
<1> HIDE DEF chosen
<1>3. \E f \in [DOMAIN chosen -> DOMAIN s] :
         /\ \A k \in DOMAIN chosen : chosen[k] = s[f[k]]
         /\ \A k, m \in DOMAIN chosen : f[k] = f[m] => k = m
  BY <1>2 DEF Places
<1> QED
  BY <1>1, <1>3 DEF chosen

-----------------------------------------------------------------------------
(* The items of the responder, and its records of them *)

Observations == [id : Response, ideal : Price, observed : Nat \ {0}]
KeptItems    == [request : Observations, price : Nat, nonce : Nat]

(* The requests of the responder are those that the queue is proved about. *)
LEMMA ObservationsPriced == Priced(Observations)
  BY ResponderAssumption DEF Priced, Observations

(* The items of the responder are those of the queue with a natural nonce. *)
LEMMA KeptAreItems ==
    ASSUME NEW s
    PROVE  s \in Seq(KeptItems)
             <=> s \in Seq(ItemOf(Observations)) /\ \A i \in DOMAIN s : s[i].nonce \in Nat
<1>1. ASSUME s \in Seq(KeptItems)
      PROVE  s \in Seq(ItemOf(Observations)) /\ \A i \in DOMAIN s : s[i].nonce \in Nat
  <2>1. \A i \in DOMAIN s : s[i] \in KeptItems
    BY <1>1
  <2>2. \A i \in DOMAIN s : s[i] \in ItemOf(Observations) /\ s[i].nonce \in Nat
    BY <2>1 DEF KeptItems, ItemOf
  <2> QED
    BY <1>1, <2>2
<1>2. ASSUME s \in Seq(ItemOf(Observations)), \A i \in DOMAIN s : s[i].nonce \in Nat
      PROVE  s \in Seq(KeptItems)
  <2>1. \A i \in DOMAIN s : s[i] \in ItemOf(Observations)
    BY <1>2
  <2>2. \A i \in DOMAIN s : s[i] \in KeptItems
    BY <1>2, <2>1 DEF KeptItems, ItemOf
  <2> QED
    BY <1>2, <2>2
<1> QED
  BY <1>1, <1>2

(* Of items of different responses, those that are selected are so too. *)
LEMMA AmongNothingTwice ==
    ASSUME NEW T, NEW s \in Seq(T), NothingTwice(s), NEW S
    PROVE  NothingTwice(Among(s, S))
<1> DEFINE chosen == Among(s, S)
<1>1. PICK nth \in [DOMAIN chosen -> DOMAIN s] :
          /\ \A k \in DOMAIN chosen : chosen[k] = s[nth[k]]
          /\ \A k, m \in DOMAIN chosen : nth[k] = nth[m] => k = m
  BY AmongSelects
<1> HIDE DEF chosen
<1>2. ASSUME NEW k \in DOMAIN chosen, NEW m \in DOMAIN chosen,
             chosen[k].request.id = chosen[m].request.id
      PROVE  k = m
  <2>1. nth[k] = nth[m]
    BY <1>1, <1>2 DEF NothingTwice
  <2> QED
    BY <1>1, <2>1
<1>3. NothingTwice(chosen)
  BY <1>2 DEF NothingTwice
<1> QED
  BY <1>3 DEF chosen

(* The record of a response is the one that has its id. *)
LEMMA RecordIsKept ==
    ASSUME transactions \in Seq(KeptItems), NothingTwice(transactions)
    PROVE  /\ \A j \in DOMAIN transactions :
                  Record(transactions[j].request.id) = transactions[j]
           /\ \A id \in Tracked : Record(id) \in KeptItems /\ Record(id).request.id = id
<1>1. \A j \in DOMAIN transactions : transactions[j] \in KeptItems
  OBVIOUS
<1>2. ASSUME NEW j \in DOMAIN transactions
      PROVE  Record(transactions[j].request.id) = transactions[j]
  <2>1. \E i \in DOMAIN transactions :
            transactions[i].request.id = transactions[j].request.id
    OBVIOUS
  <2>2. Position(transactions, transactions[j].request.id) = j
    BY <2>1 DEF Position, NothingTwice
  <2> QED
    BY <2>2 DEF Record
<1>3. ASSUME NEW id \in Tracked PROVE Record(id) \in KeptItems /\ Record(id).request.id = id
  <2>1. PICK j \in DOMAIN transactions : transactions[j].request.id = id
    BY DEF Tracked, Ids
  <2> QED
    BY <1>1, <1>2, <2>1
<1> QED
  BY <1>2, <1>3

(* Where the items of a concatenation come from *)
LEMMA ConcatPlaces ==
    ASSUME NEW T, NEW a \in Seq(T), NEW b \in Seq(T)
    PROVE  /\ a \o b \in Seq(T) /\ Len(a \o b) = Len(a) + Len(b)
           /\ \A i \in 1..(Len(a) + Len(b)) :
                  (a \o b)[i] = IF i <= Len(a) THEN a[i] ELSE b[i - Len(a)]
  OBVIOUS

(* The items at the places of a sequence *)
Members(s) == {s[i] : i \in DOMAIN s}

(* store.ts:68, SetAll: a record is the changed item of its response, if    *)
(* there is one, or the record there was; no response has two.              *)
LEMMA SetAllRecords ==
    ASSUME NEW items \in Seq(KeptItems), NothingTwice(items),
           NEW records \in Seq(KeptItems), NothingTwice(records),
           NEW changed \in SUBSET Members(items)
    PROVE  LET new == SetAll(records, changed, items) IN
           /\ new \in Seq(KeptItems) /\ NothingTwice(new)
           /\ \A j \in DOMAIN new :
                 \/ new[j] \in changed
                 \/ /\ \A c \in changed : c.request.id # new[j].request.id
                    /\ \E k \in DOMAIN records : new[j] = records[k]
           /\ Ids(records) \subseteq Ids(new)
           /\ \A c \in changed : c.request.id \in Ids(new)
<1> DEFINE of(i)  == {c \in changed : c.request.id = records[i].request.id}
           at(i)  == IF of(i) = {} THEN records[i] ELSE CHOOSE c \in of(i) : TRUE
           kept   == [i \in DOMAIN records |-> at(i)]
           fresh  == {c \in changed : c.request.id \notin Ids(records)}
           added  == Among(items, fresh)
           new    == kept \o added
           n      == Len(records)
<1>1. n \in Nat /\ DOMAIN records = 1..n /\ \A i \in 1..n : records[i] \in KeptItems
  OBVIOUS
<1>2. \A c \in changed : c \in KeptItems
  BY DEF Members
<1>3. SetAll(records, changed, items) = new
  BY DEF SetAll
<1> HIDE DEF n
<1>4. ASSUME NEW i \in 1..n
      PROVE  /\ at(i) \in KeptItems /\ at(i).request.id = records[i].request.id
             /\ \/ at(i) \in changed
                \/ at(i) = records[i] /\ \A c \in changed : c.request.id # at(i).request.id
  <2>1. CASE of(i) = {}
    BY <1>1, <2>1
  <2>2. CASE of(i) # {}
    <3>1. at(i) \in of(i)
      BY <2>2
    <3> QED
      BY <1>2, <3>1
  <2> QED
    BY <2>1, <2>2
<1> HIDE DEF at
<1>5. /\ kept \in Seq(KeptItems) /\ Len(kept) = n /\ \A i \in 1..n : kept[i] = at(i)
  BY <1>1, <1>4
<1> HIDE DEF kept
<1>6. /\ added \in Seq(KeptItems) /\ NothingTwice(added)
      /\ \A k \in DOMAIN added : added[k] \in fresh
      /\ \A i \in DOMAIN items :
             items[i] \in fresh => \E k \in DOMAIN added : added[k] = items[i]
  <2> HIDE DEF fresh
  <2>1. NothingTwice(added)
    BY AmongNothingTwice
  <2> QED
    BY <2>1, AmongSelects
<1> HIDE DEF added
<1>7. /\ new \in Seq(KeptItems) /\ DOMAIN new = 1..(n + Len(added))
      /\ \A i \in 1..n : new[i] = at(i)
      /\ \A j \in DOMAIN new : j > n => j - n \in DOMAIN added /\ new[j] = added[j - n]
  <2>1. Len(added) \in Nat /\ DOMAIN added = 1..Len(added)
    BY <1>6
  <2>2. /\ new \in Seq(KeptItems) /\ Len(new) = n + Len(added)
        /\ \A i \in 1..(n + Len(added)) :
               new[i] = IF i <= n THEN kept[i] ELSE added[i - n]
    <3>1. kept \in Seq(KeptItems) /\ added \in Seq(KeptItems) /\ Len(kept) = n
      BY <1>5, <1>6
    <3> HIDE DEF KeptItems
    <3>2. /\ new \in Seq(KeptItems) /\ Len(new) = Len(kept) + Len(added)
          /\ \A i \in 1..(Len(kept) + Len(added)) :
                 new[i] = IF i <= Len(kept) THEN kept[i] ELSE added[i - Len(kept)]
      BY ONLY <3>1, ConcatPlaces
    <3> QED
      BY <3>1, <3>2
  <2> HIDE DEF new
  <2>3. DOMAIN new = 1..(n + Len(added))
    BY <2>2
  <2>4. \A i \in 1..n : new[i] = at(i)
    BY <1>1, <1>5, <2>1, <2>2
  <2>5. ASSUME NEW j \in DOMAIN new, j > n
        PROVE  j - n \in DOMAIN added /\ new[j] = added[j - n]
    <3>1. j \in 1..(n + Len(added)) /\ ~(j <= n)
      BY <1>1, <2>1, <2>3, <2>5
    <3>2. j - n \in DOMAIN added
      BY <1>1, <2>1, <2>5, <3>1
    <3>3. new[j] = IF j <= n THEN kept[j] ELSE added[j - n]
      BY <2>2, <3>1, Zenon
    <3> QED
      BY <3>1, <3>2, <3>3, Zenon
  <2> QED
    BY <2>2, <2>3, <2>4, <2>5
<1> HIDE DEF new
<1>8. \A i \in 1..n : records[i].request.id \in Ids(records)
  BY <1>1 DEF Ids
<1>9. NothingTwice(new)
  <2> SUFFICES ASSUME NEW i \in DOMAIN new, NEW j \in DOMAIN new,
                      new[i].request.id = new[j].request.id
               PROVE  i = j
    BY DEF NothingTwice
  <2>1. CASE i <= n /\ j <= n
    <3>1. /\ i \in 1..n /\ j \in 1..n
          /\ records[i].request.id = records[j].request.id
      BY <1>1, <1>4, <1>7, <2>1
    <3> QED
      BY <1>1, <3>1 DEF NothingTwice
  <2>2. CASE i > n /\ j > n
    <3>1. /\ i - n \in DOMAIN added /\ j - n \in DOMAIN added
          /\ added[i - n].request.id = added[j - n].request.id
      BY <1>7, <2>2
    <3>2. i - n = j - n
      BY <1>6, <3>1 DEF NothingTwice
    <3> QED
      BY <1>1, <1>7, <3>2
  <2>3. CASE i <= n /\ j > n
    <3>1. i \in 1..n /\ new[i] = at(i)
      BY <1>1, <1>7, <2>3
    <3>2. new[i].request.id \in Ids(records)
      BY <1>4, <1>8, <3>1
    <3>3. new[j].request.id \notin Ids(records)
      BY <1>6, <1>7, <2>3
    <3> QED
      BY <3>2, <3>3
  <2>4. CASE i > n /\ j <= n
    <3>1. j \in 1..n /\ new[j] = at(j)
      BY <1>1, <1>7, <2>4
    <3>2. new[j].request.id \in Ids(records)
      BY <1>4, <1>8, <3>1
    <3>3. new[i].request.id \notin Ids(records)
      BY <1>6, <1>7, <2>4
    <3> QED
      BY <3>2, <3>3
  <2> QED
    BY <1>1, <1>7, <2>1, <2>2, <2>3, <2>4
<1>10. ASSUME NEW j \in DOMAIN new
       PROVE  \/ new[j] \in changed
              \/ /\ \A c \in changed : c.request.id # new[j].request.id
                 /\ \E k \in DOMAIN records : new[j] = records[k]
  <2>1. CASE j <= n
    BY <1>1, <1>4, <1>7, <2>1
  <2>2. CASE j > n
    BY <1>6, <1>7, <2>2
  <2> QED
    BY <1>1, <1>7, <2>1, <2>2
<1>11. Ids(records) \subseteq Ids(new)
  <2>1. ASSUME NEW i \in 1..n PROVE records[i].request.id \in Ids(new)
    <3>1. i \in DOMAIN new /\ new[i].request.id = records[i].request.id
      BY <1>1, <1>4, <1>6, <1>7
    <3> QED
      BY <3>1 DEF Ids
  <2> QED
    BY <1>1, <2>1 DEF Ids
<1>12. ASSUME NEW c \in changed PROVE c.request.id \in Ids(new)
  <2>1. CASE c.request.id \in Ids(records)
    BY <1>11, <2>1
  <2>2. CASE c.request.id \notin Ids(records)
    <3>1. PICK i \in DOMAIN items : items[i] = c
      BY DEF Members
    <3>2. PICK k \in DOMAIN added : added[k] = c
      BY <1>6, <2>2, <3>1
    <3>3. /\ Len(added) \in Nat /\ k \in 1..Len(added)
          /\ n + k \in DOMAIN new /\ n + k > n /\ (n + k) - n = k
      <4>1. Len(added) \in Nat /\ k \in 1..Len(added)
        BY <1>6
      <4> QED
        BY <1>1, <1>7, <4>1
    <3>4. new[n + k] = c
      BY <1>7, <3>2, <3>3
    <3> QED
      BY <3>3, <3>4 DEF Ids
  <2> QED
    BY <2>1, <2>2
<1> QED
  BY <1>3, <1>7, <1>9, <1>10, <1>11, <1>12

-----------------------------------------------------------------------------
(* The invariant of the store: the queue, its records and what was issued *)

Front == emptyNonce - Len(queue)

TxOf(item) == [id |-> item.request.id, nonce |-> item.nonce]

(* No node refuses the item for what was issued at its nonce. *)
Over(x) == \A y \in issued : y.nonce = x.nonce => x = y \/ Tops(x, y)

(* A record that is neither of the queue nor of an overtaken response *)
Away(j) == transactions[j].request.id \notin Ids(queue) \cup overtaken

QueueInv ==
    queue \in Seq(KeptItems) /\ emptyNonce \in Nat /\ WellFormed(queue, emptyNonce)

RecordsInv ==
    /\ transactions \in Seq(KeptItems) /\ NothingTwice(transactions)
    /\ \A i \in DOMAIN queue, j \in DOMAIN transactions :
           transactions[j].request.id = queue[i].request.id => transactions[j] = queue[i]

IssuedInv == outbox \subseteq issued /\ issued \subseteq KeptItems

SentInv ==
    failures = 0 => \A i \in DOMAIN queue : queue[i] \in outbox \/ TxOf(queue[i]) \in sent

GapInv == \A n \in FirstNonce..(Front - 1) : \E tx \in used : tx.nonce = n

(* Whatever is in the queue tops what was issued at its nonce; so does each *)
(* record that is away, at a nonce before the front that is its own.        *)
PriceInv ==
    /\ \A y \in issued : y.nonce < emptyNonce
    /\ ~restored =>
          /\ \A i \in DOMAIN queue : Over(queue[i])
          /\ \A j \in DOMAIN transactions :
                 Away(j) => Over(transactions[j]) /\ transactions[j].nonce < Front
          /\ \A j, k \in DOMAIN transactions :
                 Away(j) /\ Away(k) /\ transactions[j].nonce = transactions[k].nonce => j = k

StoreInv == QueueInv /\ RecordsInv /\ IssuedInv /\ SentInv /\ GapInv /\ PriceInv

(* The queue of the store is a queue of the responder's requests. *)
LEMMA QueueIsOne ==
    ASSUME QueueInv
    PROVE  /\ QueueOf(Observations, queue, emptyNonce)
           /\ Len(queue) \in Nat /\ DOMAIN queue = 1..Len(queue)
           /\ Front \in Int
           /\ \A i \in DOMAIN queue : queue[i] \in KeptItems
<1>1. /\ queue \in Seq(KeptItems) /\ emptyNonce \in Nat /\ WellFormed(queue, emptyNonce)
  BY DEF QueueInv
<1>2. queue \in Seq(ItemOf(Observations))
  BY <1>1, KeptAreItems
<1> QED
  BY <1>1, <1>2 DEF QueueOf, Front

(* Replacing tops all that the replaced item tops. *)
LEMMA OverReissued ==
    ASSUME NEW x \in KeptItems, NEW z \in KeptItems, Over(z), Reissued(x, z),
           issued \subseteq KeptItems
    PROVE  Over(x)
<1> SUFFICES ASSUME NEW y \in issued, y.nonce = x.nonce, x # y
             PROVE  Tops(x, y)
  BY DEF Over
<1>1. x.price \in Nat /\ z.price \in Nat /\ y.price \in Nat
  BY DEF KeptItems
<1>2. z = y \/ Tops(z, y)
  BY DEF Over, Reissued
<1>3. x = z \/ Tops(x, z)
  BY DEF Reissued
<1>4. ReplacementRate \in Nat
  BY QueueAssumption
<1> DEFINE top(i) == (100 + ReplacementRate) * i.price
<1>5. 100 * z.price <= top(z) /\ top(z) \in Int /\ top(y) \in Int
  BY <1>1, <1>4
<1>6. /\ Tops(x, z) <=> 100 * x.price >= top(z)
      /\ Tops(z, y) <=> 100 * z.price >= top(y)
      /\ Tops(x, y) <=> 100 * x.price >= top(y)
  BY DEF Tops
<1> HIDE DEF top
<1>7. CASE Tops(x, z) /\ Tops(z, y)
  BY <1>1, <1>5, <1>6, <1>7
<1> QED
  BY <1>2, <1>3, <1>7

(* updateQueue: the queue, its records and what is issued are kept. *)
LEMMA UpdateKeepsRecords ==
    ASSUME QueueInv, RecordsInv, IssuedInv,
           NEW items, NEW nonce, UpdateQueue(items, nonce),
           QueueOf(Observations, items, nonce), nonce \in Nat,
           \A i \in DOMAIN items : items[i].nonce \in Nat
    PROVE  /\ QueueInv' /\ RecordsInv' /\ IssuedInv'
           /\ Ids(transactions) \subseteq Ids(transactions')
           /\ \A c \in Difference(items, queue) : c.request.id \in Ids(transactions')
           /\ \A j \in DOMAIN transactions' :
                  \/ transactions'[j].request.id \in Ids(items)
                  \/ \E k \in DOMAIN transactions : transactions'[j] = transactions[k]
<1> DEFINE new     == Difference(items, queue)
           records == SetAll(transactions, new, items)
<1>1. /\ queue' = items /\ emptyNonce' = nonce /\ transactions' = records
      /\ outbox' = outbox \cup new /\ issued' = issued \cup new
  BY DEF UpdateQueue
<1>2. items \in Seq(KeptItems) /\ WellFormed(items, nonce) /\ NothingTwice(items)
  BY KeptAreItems DEF QueueOf, WellFormed
<1>3. new \in SUBSET Members(items)
  BY DEF Difference, Members
<1>4. \A c \in Members(items) : c \in KeptItems /\ c.request.id \in Ids(items)
  BY <1>2 DEF Members, Ids
<1>5. \A i \in DOMAIN items : items[i] \in new \/ \E k \in DOMAIN queue : items[i] = queue[k]
  BY DEF Difference
<1> HIDE DEF new
<1>6. /\ records \in Seq(KeptItems) /\ NothingTwice(records)
      /\ \A j \in DOMAIN records :
            \/ records[j] \in new
            \/ /\ \A c \in new : c.request.id # records[j].request.id
               /\ \E k \in DOMAIN transactions : records[j] = transactions[k]
      /\ Ids(transactions) \subseteq Ids(records)
      /\ \A c \in new : c.request.id \in Ids(records)
  BY <1>2, <1>3, SetAllRecords DEF RecordsInv
<1> HIDE DEF records
<1>7. ASSUME NEW i \in DOMAIN items, NEW j \in DOMAIN records,
             records[j].request.id = items[i].request.id
      PROVE  records[j] = items[i]
  <2>1. CASE records[j] \in new
    <3>1. PICK k \in DOMAIN items : records[j] = items[k]
      BY <1>3, <2>1 DEF Members
    <3>2. k = i
      BY <1>2, <1>7, <3>1 DEF NothingTwice
    <3> QED
      BY <3>1, <3>2
  <2>2. CASE records[j] \notin new
    <3>1. items[i] \notin new
      BY <1>6, <1>7, <2>2
    <3>2. PICK m \in DOMAIN queue : items[i] = queue[m]
      BY <1>5, <3>1
    <3>3. PICK k \in DOMAIN transactions : records[j] = transactions[k]
      BY <1>6, <2>2
    <3>4. transactions[k] = queue[m]
      BY <1>7, <3>2, <3>3 DEF RecordsInv
    <3> QED
      BY <3>2, <3>3, <3>4
  <2> QED
    BY <2>1, <2>2
<1>8. QueueInv'
  BY <1>1, <1>2 DEF QueueInv
<1>9. RecordsInv'
  BY <1>1, <1>6, <1>7 DEF RecordsInv
<1>10. IssuedInv'
  BY <1>1, <1>3, <1>4 DEF IssuedInv
<1>11. \A j \in DOMAIN records :
          \/ records[j].request.id \in Ids(items)
          \/ \E k \in DOMAIN transactions : records[j] = transactions[k]
  BY <1>3, <1>4, <1>6
<1>12. \A c \in Difference(items, queue) : c.request.id \in Ids(records)
  BY <1>6 DEF new
<1> QED
  BY <1>1, <1>6, <1>8, <1>9, <1>10, <1>11, <1>12

(* updateQueue: what is new in the queue is to be broadcast. *)
LEMMA UpdateIsSent ==
    ASSUME SentInv, NEW items, NEW nonce, UpdateQueue(items, nonce),
           sent' = sent, failures' = failures
    PROVE  SentInv'
<1>1. /\ queue' = items
      /\ outbox' = outbox \cup Difference(items, queue)
  BY DEF UpdateQueue
<1>2. ASSUME NEW i \in DOMAIN items, failures = 0
      PROVE  items[i] \in outbox' \/ TxOf(items[i]) \in sent
  <2>1. CASE items[i] \in Difference(items, queue)
    BY <1>1, <2>1
  <2>2. CASE items[i] \notin Difference(items, queue)
    <3>1. PICK k \in DOMAIN queue : items[i] = queue[k]
      BY <2>2 DEF Difference
    <3> QED
      BY <1>1, <1>2, <3>1 DEF SentInv
  <2> QED
    BY <2>1, <2>2
<1>3. SentInv' <=> (failures = 0 => \A i \in DOMAIN items :
                                       items[i] \in outbox' \/ TxOf(items[i]) \in sent)
  BY <1>1 DEF SentInv, TxOf
<1> QED
  BY <1>2, <1>3

(* What an operation must make of the queue for the prices to hold on: each *)
(* item tops what was issued at its nonce, and so do the records that are   *)
(* away then, each at a nonce of its own before the front.                  *)
Left(j, items, gone) == transactions[j].request.id \notin Ids(items) \cup gone

Replaces(items, nonce, gone) ==
    /\ \A i \in DOMAIN items : Over(items[i])
    /\ \A j \in DOMAIN transactions :
           Left(j, items, gone)
             => Over(transactions[j]) /\ transactions[j].nonce < nonce - Len(items)
    /\ \A j, k \in DOMAIN transactions :
           /\ Left(j, items, gone) /\ Left(k, items, gone)
           /\ transactions[j].nonce = transactions[k].nonce
           => j = k

(* updateQueue: the prices hold on. *)
LEMMA UpdateKeepsPrices ==
    ASSUME QueueInv, RecordsInv, IssuedInv, PriceInv,
           NEW items, NEW nonce, UpdateQueue(items, nonce),
           QueueOf(Observations, items, nonce), nonce \in Nat, nonce >= emptyNonce,
           \A i \in DOMAIN items : items[i].nonce \in Nat,
           ~restored' => Replaces(items, nonce, overtaken')
    PROVE  PriceInv'
<1> DEFINE new == Difference(items, queue)
           front == nonce - Len(items)
<1>1. /\ queue' = items /\ emptyNonce' = nonce /\ issued' = issued \cup new
  BY DEF UpdateQueue
<1>2. items \in Seq(KeptItems) /\ Len(items) \in Nat /\ front \in Int
  BY KeptAreItems DEF QueueOf
<1>3. /\ \A i \in DOMAIN items : items[i].nonce \in front..(nonce - 1)
      /\ \A i, j \in DOMAIN items : items[i].nonce = items[j].nonce => i = j
  BY QueuedNonces
<1>4. /\ QueueInv' /\ RecordsInv' /\ IssuedInv'
      /\ \A j \in DOMAIN transactions' :
             \/ transactions'[j].request.id \in Ids(items)
             \/ \E k \in DOMAIN transactions : transactions'[j] = transactions[k]
  BY UpdateKeepsRecords
<1>5. \A y \in new : \E k \in DOMAIN items : y = items[k]
  BY DEF Difference
<1>6. \A y \in issued : y.nonce \in Nat
  BY DEF IssuedInv, KeptItems
<1> HIDE DEF new
<1>7. ASSUME NEW y \in issued' PROVE y.nonce < nonce
  <2>1. CASE y \in issued
    BY <1>6, <2>1 DEF PriceInv, QueueInv
  <2>2. CASE y \in new
    BY <1>2, <1>3, <1>5, <2>2
  <2> QED
    BY <1>1, <2>1, <2>2
<1>8. ASSUME NEW x, \A y \in issued : y.nonce = x.nonce => x = y \/ Tops(x, y),
             \A k \in DOMAIN items : items[k].nonce = x.nonce => x = items[k]
      PROVE  \A y \in issued' : y.nonce = x.nonce => x = y \/ Tops(x, y)
  BY <1>1, <1>5, <1>8
<1>9. CASE restored'
  BY <1>1, <1>7, <1>9 DEF PriceInv
<1>10. CASE ~restored'
  <2>1. Replaces(items, nonce, overtaken')
    BY <1>10
  <2>2. ASSUME NEW i \in DOMAIN items
        PROVE  \A y \in issued' : y.nonce = items[i].nonce => items[i] = y \/ Tops(items[i], y)
    <3>1. Over(items[i])
      BY <2>1 DEF Replaces
    <3>2. \A k \in DOMAIN items : items[k].nonce = items[i].nonce => items[i] = items[k]
      BY <1>3
    <3> QED
      BY <1>8, <3>1, <3>2 DEF Over
  <2>3. \A j \in DOMAIN transactions' :
            transactions'[j].request.id \notin Ids(items) \cup overtaken'
              => \E k \in DOMAIN transactions :
                    transactions'[j] = transactions[k] /\ Left(k, items, overtaken')
    BY <1>4 DEF Left
  <2>4. ASSUME NEW j \in DOMAIN transactions',
               transactions'[j].request.id \notin Ids(items) \cup overtaken'
        PROVE  /\ \A y \in issued' : y.nonce = transactions'[j].nonce
                                       => transactions'[j] = y \/ Tops(transactions'[j], y)
               /\ transactions'[j].nonce < front
    <3>1. PICK k \in DOMAIN transactions :
              transactions'[j] = transactions[k] /\ Left(k, items, overtaken')
      BY <2>3, <2>4
    <3>2. Over(transactions[k]) /\ transactions[k].nonce < front
      BY <2>1, <3>1 DEF Replaces
    <3>3. transactions[k].nonce \in Nat
      <4>1. transactions[k] \in KeptItems
        BY DEF RecordsInv
      <4> QED
        BY <4>1 DEF KeptItems
    <3>4. \A m \in DOMAIN items : items[m].nonce # transactions[k].nonce
      BY <1>2, <1>3, <3>2, <3>3
    <3>5. \A y \in issued' : y.nonce = transactions[k].nonce
                               => transactions[k] = y \/ Tops(transactions[k], y)
      BY <1>8, <3>2, <3>4 DEF Over
    <3> QED
      BY <3>1, <3>2, <3>5
  <2>5. ASSUME NEW i \in DOMAIN transactions', NEW j \in DOMAIN transactions',
               transactions'[i].request.id \notin Ids(items) \cup overtaken',
               transactions'[j].request.id \notin Ids(items) \cup overtaken',
               transactions'[i].nonce = transactions'[j].nonce
        PROVE  i = j
    <3>1. PICK k \in DOMAIN transactions :
              transactions'[i] = transactions[k] /\ Left(k, items, overtaken')
      BY <2>3, <2>5
    <3>2. PICK m \in DOMAIN transactions :
              transactions'[j] = transactions[m] /\ Left(m, items, overtaken')
      BY <2>3, <2>5
    <3>3. k = m
      BY <2>1, <2>5, <3>1, <3>2 DEF Replaces
    <3>4. transactions'[i].request.id = transactions'[j].request.id
      BY <3>1, <3>2, <3>3
    <3> QED
      BY <1>4, <3>4 DEF RecordsInv, NothingTwice
  <2> QED
    BY <1>1, <1>7, <2>2, <2>4, <2>5 DEF PriceInv, Over, Away, Front, Tops
<1> QED
  BY <1>9, <1>10

(* startResponse: the new transaction is at a nonce that nothing was issued *)
(* at, and the others top those they replace.                               *)
LEMMA AddUpdates ==
    ASSUME StoreInv, NEW request \in Observations,
           NEW items, items = Add(queue, emptyNonce, request),
           WellFormed(items, emptyNonce + 1)
    PROVE  /\ QueueOf(Observations, items, emptyNonce + 1)
           /\ \A i \in DOMAIN items : items[i].nonce \in Nat
           /\ Ids(queue) \subseteq Ids(items)
           /\ emptyNonce + 1 - Len(items) = Front
           /\ ~restored => Replaces(items, emptyNonce + 1, overtaken)
<1>1. /\ QueueOf(Observations, queue, emptyNonce)
      /\ Len(queue) \in Nat /\ DOMAIN queue = 1..Len(queue) /\ Front \in Int
      /\ \A i \in DOMAIN queue : queue[i] \in KeptItems
  BY QueueIsOne DEF StoreInv
<1>2. Priced(Observations)
  BY ObservationsPriced
<1>3. /\ items \in Seq(ItemOf(Observations)) /\ Len(items) = Len(queue) + 1
      /\ \A i \in 1..Len(queue) : Reissued(items[i], queue[i])
      /\ items[Len(queue) + 1].nonce = emptyNonce
      /\ Ids(queue) \subseteq Ids(items)
  BY <1>1, <1>2, AddReissues
<1>4. emptyNonce \in Nat /\ DOMAIN items = 1..(Len(queue) + 1)
  BY <1>1, <1>3 DEF StoreInv, QueueInv
<1>5. \A i \in 1..Len(queue) : items[i].nonce \in Nat
  BY <1>1, <1>3 DEF Reissued, KeptItems
<1>6. \A i \in DOMAIN items : items[i].nonce \in Nat
  BY <1>1, <1>3, <1>4, <1>5
<1>7. items \in Seq(KeptItems)
  BY <1>3, <1>6, KeptAreItems
<1>8. QueueOf(Observations, items, emptyNonce + 1)
  BY <1>3, <1>4 DEF QueueOf
<1>9. emptyNonce + 1 - Len(items) = Front
  BY <1>1, <1>3, <1>4 DEF Front
<1>10. ASSUME ~restored
       PROVE  Replaces(items, emptyNonce + 1, overtaken)
  <2>1. ASSUME NEW i \in DOMAIN items PROVE Over(items[i])
    <3>1. CASE i \in 1..Len(queue)
      <4>1. Over(queue[i]) /\ queue[i] \in KeptItems /\ items[i] \in KeptItems
        BY <1>1, <1>7, <1>10, <3>1 DEF StoreInv, PriceInv
      <4> QED
        BY <1>3, <3>1, <4>1, OverReissued DEF StoreInv, IssuedInv
    <3>2. CASE i = Len(queue) + 1
      <4>1. \A y \in issued : y.nonce \in Nat /\ y.nonce < emptyNonce
        BY DEF StoreInv, PriceInv, IssuedInv, KeptItems
      <4> QED
        BY <1>3, <1>4, <3>2, <4>1 DEF Over
    <3> QED
      BY <1>1, <1>4, <3>1, <3>2
  <2>2. \A j \in DOMAIN transactions : Left(j, items, overtaken) => Away(j)
    BY <1>3 DEF Left, Away
  <2>3. /\ \A j \in DOMAIN transactions :
               Away(j) => Over(transactions[j]) /\ transactions[j].nonce < Front
        /\ \A j, k \in DOMAIN transactions :
               Away(j) /\ Away(k) /\ transactions[j].nonce = transactions[k].nonce => j = k
    BY <1>10 DEF StoreInv, PriceInv
  <2>4. \A j \in DOMAIN transactions :
            Left(j, items, overtaken)
              => Over(transactions[j]) /\ transactions[j].nonce < emptyNonce + 1 - Len(items)
    BY <1>9, <2>2, <2>3
  <2>5. \A j, k \in DOMAIN transactions :
            /\ Left(j, items, overtaken) /\ Left(k, items, overtaken)
            /\ transactions[j].nonce = transactions[k].nonce
            => j = k
    BY <2>2, <2>3
  <2>6. emptyNonce + 1 - Len(items) \in Int /\ emptyNonce + 1 \in Int
    BY <1>1, <1>3, <1>4
  <2> QED
    BY <1>1, <1>3, <1>4, <2>1, <2>4, <2>5, <2>6 DEF Replaces
<1> QED
  BY <1>3, <1>6, <1>8, <1>9, <1>10

(* txMined: the queue without the response, and who is overtaken then *)
OvertakenBy(id) ==
    IF queue[1].request.id = id THEN overtaken ELSE overtaken \cup {id}

(* txMined: the others top what they replace one nonce further; the record *)
(* of the front item stays behind at its nonce, that of another is overtaken. *)
LEMMA RemovalUpdates ==
    ASSUME StoreInv, NEW id, Contains(queue, id)
    PROVE  /\ QueueOf(Observations, Removed(queue, id), emptyNonce)
           /\ \A i \in DOMAIN Removed(queue, id) : Removed(queue, id)[i].nonce \in Nat
           /\ Ids(Removed(queue, id)) = Ids(queue) \ {id}
           /\ emptyNonce - Len(Removed(queue, id)) = Front + 1
           /\ queue[1].nonce = Front
           /\ ~restored => Replaces(Removed(queue, id), emptyNonce, OvertakenBy(id))
<1> DEFINE items == Removed(queue, id)
           gone  == OvertakenBy(id)
<1>1. /\ QueueOf(Observations, queue, emptyNonce)
      /\ Len(queue) \in Nat /\ DOMAIN queue = 1..Len(queue) /\ Front \in Int
      /\ \A i \in DOMAIN queue : queue[i] \in KeptItems
  BY QueueIsOne DEF StoreInv
<1>2. Priced(Observations)
  BY ObservationsPriced
<1>3. /\ QueueOf(Observations, items, emptyNonce)
      /\ Ids(items) = Ids(queue) \ {id}
      /\ Len(queue) >= 1 /\ Len(items) = Len(queue) - 1
      /\ \A i \in 1..Len(items) : Reissued(items[i], queue[i+1])
  BY <1>1, <1>2, RemovalReissues, Zenon
<1> HIDE DEF items, gone
<1>4. emptyNonce \in Nat /\ DOMAIN items = 1..Len(items) /\ Len(items) \in Nat
  <2>1. emptyNonce \in Nat
    BY DEF StoreInv, QueueInv
  <2>2. items \in Seq(ItemOf(Observations))
    BY <1>3 DEF QueueOf
  <2> QED
    BY <2>1, <2>2
<1>5. \A i \in DOMAIN items : i + 1 \in DOMAIN queue /\ Reissued(items[i], queue[i+1])
  BY <1>1, <1>3, <1>4
<1>6. \A i \in DOMAIN items : items[i].nonce \in Nat
  BY <1>1, <1>5 DEF Reissued, KeptItems
<1>7. items \in Seq(KeptItems)
  BY <1>3, <1>6, KeptAreItems DEF QueueOf
<1>8. emptyNonce - Len(items) = Front + 1
  BY <1>1, <1>3, <1>4 DEF Front
<1>9. 1 \in DOMAIN queue /\ queue[1].nonce = Front
  <2>1. 1 \in DOMAIN queue
    BY <1>1, <1>3
  <2>2. queue[1].nonce = emptyNonce - Len(queue) + 1 - 1
    BY <1>1, <2>1 DEF QueueOf, WellFormed, ConsecutiveNonces
  <2> QED
    BY <1>1, <1>4, <2>1, <2>2 DEF Front
<1>10. ASSUME ~restored
       PROVE  Replaces(items, emptyNonce, gone)
  <2>1. ASSUME NEW i \in DOMAIN items PROVE Over(items[i])
    <3>1. Over(queue[i+1]) /\ queue[i+1] \in KeptItems /\ items[i] \in KeptItems
      BY <1>1, <1>5, <1>7, <1>10 DEF StoreInv, PriceInv
    <3> QED
      BY <1>5, <3>1, OverReissued DEF StoreInv, IssuedInv
  <2>2. /\ \A j \in DOMAIN transactions :
               Away(j) => Over(transactions[j]) /\ transactions[j].nonce < Front
        /\ \A j, k \in DOMAIN transactions :
               Away(j) /\ Away(k) /\ transactions[j].nonce = transactions[k].nonce => j = k
        /\ \A i \in DOMAIN queue : Over(queue[i])
    BY <1>10 DEF StoreInv, PriceInv
  <2>3. \A j \in DOMAIN transactions : transactions[j].nonce \in Int
    <3>1. \A j \in DOMAIN transactions : transactions[j] \in KeptItems
      BY DEF StoreInv, RecordsInv
    <3> QED
      BY <3>1 DEF KeptItems
  <2>4. ASSUME NEW j \in DOMAIN transactions, Left(j, items, gone)
        PROVE  \/ Away(j)
               \/ transactions[j].request.id = id /\ transactions[j] = queue[1]
    <3>1. CASE queue[1].request.id = id
      <4>1. ASSUME transactions[j].request.id = id PROVE transactions[j] = queue[1]
        BY <1>9, <3>1, <4>1 DEF StoreInv, RecordsInv
      <4> QED
        BY <1>3, <2>4, <3>1, <4>1 DEF Left, Away, gone, OvertakenBy
    <3>2. CASE queue[1].request.id # id
      BY <1>3, <2>4, <3>2 DEF Left, Away, gone, OvertakenBy
    <3> QED
      BY <3>1, <3>2
  <2>5. ASSUME NEW j \in DOMAIN transactions, Left(j, items, gone)
        PROVE  Over(transactions[j]) /\ transactions[j].nonce < emptyNonce - Len(items)
    <3>1. transactions[j].nonce <= Front
      BY <1>1, <1>9, <2>2, <2>3, <2>4, <2>5
    <3>2. Over(transactions[j])
      BY <1>9, <2>2, <2>4, <2>5
    <3> QED
      BY <1>1, <1>8, <2>3, <3>1, <3>2
  <2>6. ASSUME NEW j \in DOMAIN transactions, NEW k \in DOMAIN transactions,
               Left(j, items, gone), Left(k, items, gone),
               transactions[j].nonce = transactions[k].nonce
        PROVE  j = k
    <3>1. CASE Away(j) /\ Away(k)
      BY <2>2, <2>6, <3>1
    <3>2. CASE ~Away(j) /\ ~Away(k)
      <4>1. transactions[j].request.id = transactions[k].request.id
        BY <2>4, <2>6, <3>2
      <4> QED
        BY <4>1 DEF StoreInv, RecordsInv, NothingTwice
    <3>3. CASE Away(j) /\ ~Away(k)
      <4>1. transactions[j].nonce < Front /\ transactions[k].nonce = Front
        BY <1>9, <2>2, <2>4, <2>6, <3>3
      <4> QED
        BY <1>1, <2>3, <2>6, <4>1
    <3>4. CASE ~Away(j) /\ Away(k)
      <4>1. transactions[k].nonce < Front /\ transactions[j].nonce = Front
        BY <1>9, <2>2, <2>4, <2>6, <3>4
      <4> QED
        BY <1>1, <2>3, <2>6, <4>1
    <3> QED
      BY <3>1, <3>2, <3>3, <3>4
  <2> QED
    BY <1>4, <2>1, <2>5, <2>6 DEF Replaces
<1> QED
  BY <1>3, <1>6, <1>8, <1>9, <1>10 DEF items, gone

(* reEnqueueMissingItems: the queue with the records of the missing *)
Refilled(missing) ==
    Prepend(queue, [i \in DOMAIN missing |-> Record(missing[i])])

(* reEnqueueMissingItems: records that were away come back to the nonces    *)
(* they have before the front, and each place tops what was issued there.   *)
LEMMA PrependUpdates ==
    ASSUME StoreInv, NEW missing \in Seq(Tracked),
           \A i \in DOMAIN missing : missing[i] \notin Ids(queue),
           WellFormed(Refilled(missing), emptyNonce)
    PROVE  /\ QueueOf(Observations, Refilled(missing), emptyNonce)
           /\ \A i \in DOMAIN Refilled(missing) : Refilled(missing)[i].nonce \in Nat
           /\ Ids(queue) \subseteq Ids(Refilled(missing))
           /\ emptyNonce - Len(Refilled(missing)) <= Front
           /\ ~restored /\ (\A i \in DOMAIN missing : missing[i] \notin overtaken)
                => Replaces(Refilled(missing), emptyNonce, overtaken)
<1> DEFINE records == [i \in DOMAIN missing |-> Record(missing[i])]
           items   == Refilled(missing)
<1>1. items = Prepend(queue, records) /\ WellFormed(items, emptyNonce)
  BY DEF Refilled
<1> HIDE DEF items
<1>2. /\ QueueOf(Observations, queue, emptyNonce)
      /\ Len(queue) \in Nat /\ DOMAIN queue = 1..Len(queue) /\ Front \in Int
      /\ \A i \in DOMAIN queue : queue[i] \in KeptItems
  BY QueueIsOne DEF StoreInv
<1>3. Priced(Observations) /\ queue \in Seq(ItemOf(Observations))
  BY <1>2, ObservationsPriced DEF QueueOf
<1>4. /\ \A j \in DOMAIN transactions :
             Record(transactions[j].request.id) = transactions[j]
      /\ \A id \in Tracked : Record(id) \in KeptItems /\ Record(id).request.id = id
  BY RecordIsKept DEF StoreInv, RecordsInv
<1>5. /\ Len(missing) \in Nat /\ DOMAIN missing = 1..Len(missing)
      /\ \A i \in DOMAIN missing : missing[i] \in Tracked
  OBVIOUS
<1>6. /\ Len(records) = Len(missing) /\ DOMAIN records = DOMAIN missing
      /\ records \in Seq(KeptItems)
      /\ \A i \in DOMAIN missing :
            records[i] = Record(missing[i]) /\ records[i].request.id = missing[i]
  BY <1>4, <1>5
<1> HIDE DEF records
<1>7. records \in Seq(ItemOf(Observations))
  BY <1>6, KeptAreItems
<1> DEFINE all == records \o queue
           n   == Len(all)
<1>8. /\ n = Len(records) + Len(queue) /\ n \in Nat
      /\ \A k \in 1..n : \/ k \in DOMAIN records /\ all[k] = records[k]
                         \/ k - Len(records) \in DOMAIN queue
                            /\ all[k] = queue[k - Len(records)]
      /\ \A k \in 1..n : all[k] \in KeptItems
  <2>1. queue \in Seq(KeptItems)
    BY DEF StoreInv, QueueInv
  <2>2. /\ all \in Seq(KeptItems) /\ Len(all) = Len(records) + Len(queue)
        /\ \A k \in 1..(Len(records) + Len(queue)) :
               all[k] = IF k <= Len(records) THEN records[k] ELSE queue[k - Len(records)]
    BY <1>6, <2>1, ConcatPlaces
  <2> HIDE DEF all
  <2>3. Len(records) \in Nat /\ DOMAIN records = 1..Len(records)
    BY <1>5, <1>6
  <2>4. ASSUME NEW k \in 1..n
        PROVE  \/ k \in DOMAIN records /\ all[k] = records[k]
               \/ /\ k - Len(records) \in DOMAIN queue
                  /\ all[k] = queue[k - Len(records)]
    <3>1. CASE k <= Len(records)
      BY <1>2, <2>2, <2>3, <3>1
    <3>2. CASE k > Len(records)
      BY <1>2, <2>2, <2>3, <3>2
    <3> QED
      BY <2>3, <3>1, <3>2
  <2>5. n \in Nat /\ \A k \in 1..n : all[k] \in KeptItems
    BY <2>2
  <2> QED
    BY <2>2, <2>4, <2>5
<1>9. /\ items \in Seq(ItemOf(Observations)) /\ Permuted(items, all)
      /\ Ids(items) = Ids(records) \cup Ids(queue)
  BY <1>1, <1>3, <1>7, PrependPermutes, PrependIds
<1> HIDE DEF all
<1>10. Len(items) = n /\ DOMAIN items = 1..n
  BY <1>9 DEF Permuted
<1>11. PICK p \in Orders(n) : \A k \in 1..n : Reissued(items[k], all[p[k]])
  BY <1>9 DEF Permuted
<1>12. \A k \in 1..n : p[k] \in 1..n
  BY DEF Orders
<1> HIDE DEF n
<1>13. \A k \in DOMAIN items : items[k].nonce \in Nat
  <2>1. \A k \in 1..n : items[k].nonce = all[p[k]].nonce /\ all[p[k]] \in KeptItems
    BY <1>8, <1>11, <1>12 DEF Reissued
  <2> QED
    BY <1>10, <2>1 DEF KeptItems
<1>14. items \in Seq(KeptItems)
  BY <1>9, <1>13, KeptAreItems
<1>15. emptyNonce \in Nat /\ QueueOf(Observations, items, emptyNonce)
  BY <1>1, <1>9 DEF QueueOf, StoreInv, QueueInv
<1>16. emptyNonce - Len(items) <= Front
  BY <1>2, <1>5, <1>6, <1>8, <1>10, <1>15 DEF Front
<1>17. ASSUME ~restored, \A i \in DOMAIN missing : missing[i] \notin overtaken
       PROVE  Replaces(items, emptyNonce, overtaken)
  <2>1. /\ \A j \in DOMAIN transactions :
               Away(j) => Over(transactions[j]) /\ transactions[j].nonce < Front
        /\ \A j, k \in DOMAIN transactions :
               Away(j) /\ Away(k) /\ transactions[j].nonce = transactions[k].nonce => j = k
        /\ \A i \in DOMAIN queue : Over(queue[i])
    BY <1>17 DEF StoreInv, PriceInv
  <2>2. ASSUME NEW i \in DOMAIN records
        PROVE  \E j \in DOMAIN transactions :
                  /\ records[i] = transactions[j] /\ Away(j)
                  /\ transactions[j].request.id = missing[i]
    <3>1. PICK j \in DOMAIN transactions : transactions[j].request.id = missing[i]
      BY <1>5, <1>6 DEF Tracked, Ids
    <3>2. records[i] = transactions[j]
      BY <1>4, <1>6, <3>1
    <3>3. Away(j)
      BY <1>6, <1>17, <3>1 DEF Away
    <3> QED
      BY <3>1, <3>2, <3>3
  <2>3. ASSUME NEW k \in 1..n PROVE Over(all[k])
    <3>1. CASE k \in DOMAIN records /\ all[k] = records[k]
      BY <2>1, <2>2, <3>1
    <3>2. CASE k - Len(records) \in DOMAIN queue /\ all[k] = queue[k - Len(records)]
      BY <2>1, <3>2
    <3> QED
      BY <1>8, <3>1, <3>2
  <2>4. ASSUME NEW k \in DOMAIN items PROVE Over(items[k])
    <3>1. k \in 1..n /\ p[k] \in 1..n
      BY <1>10, <1>12
    <3>2. Over(all[p[k]]) /\ all[p[k]] \in KeptItems /\ items[k] \in KeptItems
      BY <1>8, <1>14, <2>3, <3>1
    <3> QED
      BY <1>11, <3>1, <3>2, OverReissued DEF StoreInv, IssuedInv
  <2>5. \A j \in DOMAIN transactions : Left(j, items, overtaken) => Away(j)
    BY <1>9 DEF Left, Away
  <2>6. \A j \in DOMAIN transactions : transactions[j].nonce \in Int
    <3>1. \A j \in DOMAIN transactions : transactions[j] \in KeptItems
      BY DEF StoreInv, RecordsInv
    <3> QED
      BY <3>1 DEF KeptItems
  <2>7. ASSUME NEW j \in DOMAIN transactions, Left(j, items, overtaken),
               transactions[j].nonce >= emptyNonce - Len(items)
        PROVE  FALSE
    <3>1. transactions[j].nonce < Front /\ Away(j)
      BY <2>1, <2>5, <2>7
    <3>2. transactions[j].nonce \in (emptyNonce - Len(items))..(emptyNonce - 1)
      BY <1>2, <1>8, <1>10, <1>15, <2>6, <2>7, <3>1 DEF Front
    <3>3. PICK k \in DOMAIN items : items[k].nonce = transactions[j].nonce
      <4>1. \A m \in (emptyNonce - Len(items))..(emptyNonce - 1) :
                \E i \in DOMAIN items : items[i].nonce = m
        BY <1>15, QueuedNonces
      <4> QED
        BY <3>2, <4>1, Zenon
    <3>4. k \in 1..n /\ p[k] \in 1..n /\ all[p[k]].nonce = transactions[j].nonce
      BY <1>10, <1>11, <1>12, <3>3 DEF Reissued
    <3>5. \A i \in DOMAIN queue : queue[i].nonce >= Front /\ queue[i].nonce \in Int
      BY <1>2, QueuedNonces DEF Front
    <3>6. p[k] \in DOMAIN records /\ all[p[k]] = records[p[k]]
      <4>1. ~(p[k] - Len(records) \in DOMAIN queue /\ all[p[k]] = queue[p[k] - Len(records)])
        BY <1>2, <2>6, <3>1, <3>4, <3>5
      <4> QED
        BY <1>8, <3>4, <4>1
    <3>7. PICK i \in DOMAIN transactions :
             /\ records[p[k]] = transactions[i] /\ Away(i)
             /\ transactions[i].request.id = missing[p[k]]
      BY <2>2, <3>6
    <3>8. i = j
      BY <2>1, <3>1, <3>4, <3>6, <3>7
    <3>9. transactions[j].request.id \in Ids(items)
      BY <1>6, <1>9, <3>6, <3>7, <3>8 DEF Ids
    <3> QED
      BY <2>7, <3>9 DEF Left
  <2>8. ASSUME NEW j \in DOMAIN transactions, Left(j, items, overtaken)
        PROVE  Over(transactions[j]) /\ transactions[j].nonce < emptyNonce - Len(items)
    <3>1. emptyNonce - Len(items) \in Int
      BY <1>8, <1>10, <1>15
    <3> QED
      BY <2>1, <2>5, <2>6, <2>7, <2>8, <3>1
  <2>9. ASSUME NEW j \in DOMAIN transactions, NEW k \in DOMAIN transactions,
               Left(j, items, overtaken), Left(k, items, overtaken),
               transactions[j].nonce = transactions[k].nonce
        PROVE  j = k
    BY <2>1, <2>5, <2>9
  <2> QED
    BY <2>4, <2>8, <2>9 DEF Replaces
<1> QED
  BY <1>9, <1>13, <1>15, <1>16, <1>17 DEF items

-----------------------------------------------------------------------------
(* The invariant of the network and of the component's states.  What it     *)
(* says of a chain is stated of any: a step goes from one to another.       *)

Transactions == [id : Response, nonce : Nat]
Entries      == [id : Response, mined : BOOLEAN, block : Nat, nonce : Nat]
Blocks       == [txs : Seq(Transactions), state : Seq(Entries), known : BOOLEAN,
                 emitted : BOOLEAN]

Holds(c, b, tx) == \E i \in DOMAIN c[b].txs : c[b].txs[i] = tx

(* An entry of the state at b says where the response was mined, no later  *)
(* than b, or that it is pending.                                           *)
EntryOK(c, s, b) ==
    IF s.mined THEN s.block \in 1..b /\ Holds(c, s.block, [id |-> s.id, nonce |-> s.nonce])
    ELSE s = Pending(s.id)

ChainOK(c, mined) ==
    /\ c \in Seq(Blocks) /\ Len(c) >= 1
    /\ \A b \in DOMAIN c :
          /\ \A i \in DOMAIN c[b].txs : c[b].txs[i] \in mined
          /\ \A i \in DOMAIN c[b].state : EntryOK(c, c[b].state[i], b)

(* The highest block the tower has seen *)
Top(c, seen) == IF seen > Len(c) THEN seen - 1 ELSE Len(c)

(* A response is mined so deep that no reorganisation can undo it. *)
Deep(c, seen, r) ==
    \E b \in DOMAIN c :
        /\ b + Confirmations < Top(c, seen)
        /\ \E i \in DOMAIN c[b].txs : c[b].txs[i].id = r

(* What a chain is made of *)
LEMMA BlockTypes ==
    ASSUME NEW c \in Seq(Blocks)
    PROVE  /\ Len(c) \in Nat /\ DOMAIN c = 1..Len(c)
           /\ \A b \in DOMAIN c :
                 /\ c[b] \in Blocks
                 /\ c[b].txs \in Seq(Transactions) /\ c[b].state \in Seq(Entries)
                 /\ \A i \in DOMAIN c[b].txs : c[b].txs[i] \in Transactions
                 /\ \A i \in DOMAIN c[b].state : c[b].state[i] \in Entries
<1>1. ASSUME NEW b \in DOMAIN c
      PROVE  /\ c[b] \in Blocks
             /\ c[b].txs \in Seq(Transactions) /\ c[b].state \in Seq(Entries)
             /\ \A i \in DOMAIN c[b].txs : c[b].txs[i] \in Transactions
             /\ \A i \in DOMAIN c[b].state : c[b].state[i] \in Entries
  <2>1. c[b] \in Blocks
    OBVIOUS
  <2>2. c[b].txs \in Seq(Transactions) /\ c[b].state \in Seq(Entries)
    BY <2>1 DEF Blocks
  <2> QED
    BY <2>1, <2>2
<1> QED
  BY <1>1

(* Where the transactions up to b are the same, so is what an entry says. *)
LEMMA EntryMoves ==
    ASSUME NEW c, NEW d, NEW b \in Nat, NEW e \in Nat, b <= e,
           \A a \in 1..b : d[a].txs = c[a].txs,
           NEW s, EntryOK(c, s, b)
    PROVE  EntryOK(d, s, e)
<1>1. CASE s.mined
  <2>1. s.block \in 1..b /\ Holds(c, s.block, [id |-> s.id, nonce |-> s.nonce])
    BY <1>1 DEF EntryOK
  <2>2. Holds(d, s.block, [id |-> s.id, nonce |-> s.nonce])
    BY <2>1 DEF Holds
  <2>3. s.block \in 1..e
    BY <2>1
  <2> QED
    BY <1>1, <2>2, <2>3 DEF EntryOK
<1>2. CASE ~s.mined
  BY <1>2 DEF EntryOK
<1> QED
  BY <1>1, <1>2

(* A change of the chain that rewrites no transaction keeps the states that *)
(* it keeps; the others must say what is mined.                             *)
LEMMA ChainStep ==
    ASSUME NEW c, NEW mined, ChainOK(c, mined),
           NEW d \in Seq(Blocks), Len(d) >= 1, NEW more, mined \subseteq more,
           \A b \in DOMAIN d : b \in DOMAIN c => d[b].txs = c[b].txs,
           \A b \in DOMAIN d : b \notin DOMAIN c
                                 => \A i \in DOMAIN d[b].txs : d[b].txs[i] \in more,
           \A b \in DOMAIN d : \/ b \in DOMAIN c /\ d[b].state = c[b].state
                               \/ \A i \in DOMAIN d[b].state : EntryOK(d, d[b].state[i], b)
    PROVE  ChainOK(d, more)
<1>1. /\ DOMAIN d = 1..Len(d) /\ Len(d) \in Nat
      /\ DOMAIN c = 1..Len(c) /\ Len(c) \in Nat
  BY BlockTypes DEF ChainOK
<1>2. ASSUME NEW b \in DOMAIN d, NEW i \in DOMAIN d[b].txs
      PROVE  d[b].txs[i] \in more
  BY <1>2 DEF ChainOK
<1>3. ASSUME NEW b \in DOMAIN d, NEW i \in DOMAIN d[b].state
      PROVE  EntryOK(d, d[b].state[i], b)
  <2>1. CASE b \in DOMAIN c /\ d[b].state = c[b].state
    <3>1. EntryOK(c, d[b].state[i], b) /\ b \in Nat
      BY <1>1, <2>1 DEF ChainOK
    <3>2. \A a \in 1..b : d[a].txs = c[a].txs
      BY <1>1, <2>1
    <3> QED
      BY <3>1, <3>2, EntryMoves
  <2>2. CASE ~(b \in DOMAIN c /\ d[b].state = c[b].state)
    BY <1>3, <2>2
  <2> QED
    BY <2>1, <2>2
<1> QED
  BY <1>2, <1>3 DEF ChainOK

(* What is deep stays deep while the tower's view does not shrink and no    *)
(* block so deep is given up.                                               *)
LEMMA DeepStep ==
    ASSUME NEW c, NEW seen, NEW d, NEW then, NEW r, Deep(c, seen, r),
           \A b \in DOMAIN c :
              b + Confirmations < Top(c, seen)
                => /\ b \in DOMAIN d /\ b + Confirmations < Top(d, then)
                   /\ d[b].txs = c[b].txs
    PROVE  Deep(d, then, r)
  BY DEF Deep

-----------------------------------------------------------------------------
(* The calls that wait for the lock *)

Calls ==
    [op : {"startResponse"}, id : Response, observed : Nat \ {0}]
      \cup [op : {"txMined"}, id : Response, nonce : Nat]
      \cup [op : {"reEnqueueMissingItems"}, ids : Seq(Response)]
      \cup [op : {"endResponse"}, id : Response]

(* What a call says is true of the chain, and stays so while it waits. *)
CallOK(c, seen, mined, call) ==
    /\ call.op = "startResponse" => call.id \in Response /\ call.observed \in Nat \ {0}
    /\ call.op = "txMined" => [id |-> call.id, nonce |-> call.nonce] \in mined
    /\ call.op = "reEnqueueMissingItems" => call.ids \in Seq(Response)
    /\ call.op = "endResponse" => Deep(c, seen, call.id)

CallsOK(list, c, seen, mined) ==
    list \in Seq(Calls) /\ \A k \in DOMAIN list : CallOK(c, seen, mined, list[k])

(* New calls wait behind the others. *)
LEMMA CallsAppend ==
    ASSUME NEW c, NEW seen, NEW mined, NEW list, CallsOK(list, c, seen, mined),
           NEW more, CallsOK(more, c, seen, mined)
    PROVE  CallsOK(list \o more, c, seen, mined)
<1>1. /\ list \in Seq(Calls) /\ more \in Seq(Calls)
      /\ \A k \in DOMAIN list : CallOK(c, seen, mined, list[k])
      /\ \A k \in DOMAIN more : CallOK(c, seen, mined, more[k])
  BY DEF CallsOK
<1> HIDE DEF Calls, CallOK
<1> DEFINE all == list \o more
<1>2. /\ all \in Seq(Calls) /\ Len(all) = Len(list) + Len(more)
      /\ \A i \in 1..(Len(list) + Len(more)) :
             all[i] = IF i <= Len(list) THEN list[i] ELSE more[i - Len(list)]
  BY <1>1, ConcatPlaces
<1>3. /\ Len(list) \in Nat /\ DOMAIN list = 1..Len(list)
      /\ Len(more) \in Nat /\ DOMAIN more = 1..Len(more)
  BY <1>1
<1> HIDE DEF all
<1>4. DOMAIN all = 1..(Len(list) + Len(more))
  BY <1>2
<1>5. ASSUME NEW k \in DOMAIN all PROVE CallOK(c, seen, mined, all[k])
  <2>1. CASE k <= Len(list)
    <3>1. k \in DOMAIN list /\ all[k] = list[k]
      BY <1>2, <1>3, <1>4, <2>1
    <3> QED
      BY <1>1, <3>1
  <2>2. CASE k > Len(list)
    <3>1. k - Len(list) \in DOMAIN more /\ all[k] = more[k - Len(list)]
      BY <1>2, <1>3, <1>4, <2>2
    <3> QED
      BY <1>1, <3>1
  <2> QED
    BY <1>3, <1>4, <2>1, <2>2
<1> QED
  BY <1>2, <1>5 DEF CallsOK, all

(* Once the first is served, the others wait on. *)
LEMMA CallsTail ==
    ASSUME NEW c, NEW seen, NEW mined, NEW list, CallsOK(list, c, seen, mined),
           list # <<>>
    PROVE  CallsOK(Tail(list), c, seen, mined) /\ CallOK(c, seen, mined, Head(list))
<1>1. list \in Seq(Calls) /\ \A k \in DOMAIN list : CallOK(c, seen, mined, list[k])
  BY DEF CallsOK
<1> HIDE DEF Calls, CallOK
<1>2. /\ Tail(list) \in Seq(Calls) /\ DOMAIN Tail(list) = 1..(Len(list) - 1)
      /\ \A k \in 1..(Len(list) - 1) : Tail(list)[k] = list[k+1] /\ k + 1 \in DOMAIN list
      /\ Head(list) = list[1] /\ 1 \in DOMAIN list
  BY <1>1
<1> QED
  BY <1>1, <1>2 DEF CallsOK

(* While more is mined, and nothing deep given up, what they say stays true. *)
LEMMA CallsWait ==
    ASSUME NEW c, NEW seen, NEW mined, NEW list, CallsOK(list, c, seen, mined),
           NEW d, NEW then, NEW more, mined \subseteq more,
           \A r : Deep(c, seen, r) => Deep(d, then, r)
    PROVE  CallsOK(list, d, then, more)
<1> HIDE DEF Calls, Deep
<1> QED
  BY DEF CallsOK, CallOK

(* component.ts:41, Find: a transaction that is found is in the block. *)
LEMMA FoundIsThere ==
    ASSUME ChainOK(chain, used), NEW r \in Response, NEW b \in DOMAIN chain,
           NEW s \in Find(r, b)
    PROVE  s \in Entries /\ s.mined /\ s.block = b /\ EntryOK(chain, s, b)
<1> DEFINE at == {i \in DOMAIN chain[b].txs : chain[b].txs[i].id = r}
           p  == CHOOSE i \in at : \A j \in at : i <= j
<1>1. /\ chain \in Seq(Blocks) /\ DOMAIN chain = 1..Len(chain) /\ Len(chain) \in Nat
      /\ chain[b].txs \in Seq(Transactions)
      /\ \A i \in DOMAIN chain[b].txs : chain[b].txs[i] \in Transactions
  BY BlockTypes DEF ChainOK
<1>2. at # {} /\ s = [id |-> r, mined |-> TRUE, block |-> b, nonce |-> chain[b].txs[p].nonce]
  BY DEF Find
<1>3. p \in at
  <2>1. at \subseteq Nat
    BY <1>1
  <2> HIDE DEF at
  <2>2. \E i \in at : \A j \in at : i <= j
    BY <1>2, <2>1, LeastPlace
  <2> QED
    BY <2>2
<1> HIDE DEF p
<1>4. /\ chain[b].txs[p] \in Transactions /\ p \in DOMAIN chain[b].txs
      /\ chain[b].txs[p].id = r
  BY <1>1, <1>3
<1> DEFINE tx == chain[b].txs[p]
<1>5. tx = [id |-> r, nonce |-> tx.nonce] /\ tx.nonce \in Nat
  BY <1>4 DEF Transactions
<1>6. Holds(chain, b, tx)
  BY <1>4 DEF Holds
<1> HIDE DEF tx
<1>7. s = [id |-> r, mined |-> TRUE, block |-> b, nonce |-> tx.nonce]
  BY <1>2 DEF tx
<1>8. b \in Nat /\ b \in 1..b
  BY <1>1
<1>9. s \in Entries /\ s.mined /\ s.block = b /\ [id |-> s.id, nonce |-> s.nonce] = tx
  BY <1>5, <1>7, <1>8 DEF Entries
<1> QED
  BY <1>6, <1>8, <1>9 DEF EntryOK

(* A pending state says nothing of the chain. *)
LEMMA PendingIsOne ==
    ASSUME NEW r \in Response, NEW b
    PROVE  Pending(r) \in Entries /\ EntryOK(chain, Pending(r), b)
<1>1. /\ Pending(r) = [id |-> r, mined |-> FALSE, block |-> 0, nonce |-> 0]
      /\ Pending(r).id = r /\ ~Pending(r).mined
  BY DEF Pending
<1>2. Pending(r) \in Entries
  BY <1>1 DEF Entries
<1> QED
  BY <1>1, <1>2 DEF EntryOK

(* component.ts:70-106, InitialState and StateAt: the state of a response   *)
(* at a block is what the chain up to this block says of it.                *)
LEMMA StateIsThere ==
    ASSUME ChainOK(chain, used), NEW r \in Response, NEW b \in DOMAIN chain,
           Record(r).request.observed \in Nat \ {0}
    PROVE  StateAt(r, b) \in Entries /\ EntryOK(chain, StateAt(r, b), b)
<1>1. /\ chain \in Seq(Blocks) /\ DOMAIN chain = 1..Len(chain) /\ Len(chain) \in Nat
      /\ \A a \in DOMAIN chain :
            /\ \A i \in DOMAIN chain[a].state : chain[a].state[i] \in Entries
            /\ \A i \in DOMAIN chain[a].state : EntryOK(chain, chain[a].state[i], a)
  BY BlockTypes DEF ChainOK
<1>2. ASSUME NEW a \in 1..b, NEW s, s \in Entries, EntryOK(chain, s, a)
      PROVE  EntryOK(chain, s, b)
  BY <1>1, <1>2, EntryMoves
<1>3. InitialState(r, b) \in Entries /\ EntryOK(chain, InitialState(r, b), b)
  <2> DEFINE from  == Record(r).request.observed
             found == UNION {Find(r, a) : a \in from..b}
             last  == CHOOSE s \in found : \A t \in found : t.block <= s.block
  <2>1. InitialState(r, b) = IF found = {} THEN Pending(r) ELSE last
    BY DEF InitialState
  <2>2. ASSUME NEW s \in found
        PROVE  s \in Entries /\ s.block \in 1..b /\ EntryOK(chain, s, b)
    <3>1. PICK a \in from..b : s \in Find(r, a)
      BY <2>2
    <3>2. a \in 1..b /\ a \in DOMAIN chain
      BY <1>1, <3>1
    <3>3. s \in Entries /\ s.block = a /\ EntryOK(chain, s, a)
      BY <3>1, <3>2, FoundIsThere
    <3> QED
      BY <1>2, <3>2, <3>3
  <2> HIDE DEF found
  <2>3. ASSUME found # {} PROVE last \in found
    <3> DEFINE heights == {b - s.block : s \in found}
    <3>1. heights \subseteq Nat /\ heights # {}
      BY <1>1, <2>2, <2>3
    <3>2. \E h \in heights : \A g \in heights : h <= g
      <4> HIDE DEF heights
      <4> QED
        BY <3>1, LeastPlace
    <3>3. PICK s \in found : \A g \in heights : b - s.block <= g
      BY <3>2
    <3>4. \A t \in found : b - s.block <= b - t.block
      BY <3>3
    <3>5. \A t \in found : t.block <= s.block
      BY <1>1, <2>2, <3>4
    <3> QED
      BY <3>5
  <2> HIDE DEF last
  <2> QED
    BY <2>1, <2>2, <2>3, PendingIsOne
<1> DEFINE before == IF b > 1 THEN {chain[b-1].state[i] : i \in DOMAIN chain[b-1].state}
                     ELSE {}
           mine   == {s \in before : s.id = r}
           prev   == CHOOSE s \in mine : TRUE
<1>4. ASSUME mine # {} PROVE prev \in Entries /\ EntryOK(chain, prev, b)
  <2>1. prev \in before
    BY <1>4
  <2>2. b > 1 /\ \E i \in DOMAIN chain[b-1].state : prev = chain[b-1].state[i]
    BY <2>1
  <2>3. b - 1 \in DOMAIN chain /\ b - 1 \in 1..b
    BY <1>1, <2>2
  <2>4. prev \in Entries /\ EntryOK(chain, prev, b - 1)
    BY <1>1, <2>2, <2>3
  <2> HIDE DEF prev
  <2> QED
    BY <1>2, <2>3, <2>4
<1>5. ASSUME Find(r, b) # {}
      PROVE  /\ (CHOOSE s \in Find(r, b) : TRUE) \in Entries
             /\ EntryOK(chain, CHOOSE s \in Find(r, b) : TRUE, b)
  <2> DEFINE s == CHOOSE t \in Find(r, b) : TRUE
  <2>1. s \in Find(r, b)
    BY <1>5
  <2> HIDE DEF s
  <2>2. s \in Entries /\ EntryOK(chain, s, b)
    BY <2>1, FoundIsThere
  <2> QED
    BY <2>2 DEF s
<1>6. StateAt(r, b) = IF mine = {} THEN InitialState(r, b)
                      ELSE IF prev.mined \/ Find(r, b) = {} THEN prev
                      ELSE CHOOSE s \in Find(r, b) : TRUE
  BY DEF StateAt
<1> HIDE DEF mine, prev
<1> QED
  BY <1>3, <1>4, <1>5, <1>6

(* component.ts:174-217, DetectChanges at the head: what the actions say of *)
(* the responses is what the chain says.                                    *)
LEMMA ChangesAreTrue ==
    ASSUME ChainOK(chain, used), visible \in Nat, Len(chain) >= visible, NEW a
    PROVE  CallsOK(DetectChanges(a, Len(chain)), chain, visible, used)
<1> DEFINE b       == Len(chain)
           state   == chain[b].state
           Nothing == [op |-> "nothing"]
           pending == Among(state, {Pending(r) : r \in Response})
           requeue == IF pending = <<>> THEN Nothing
                      ELSE ReEnqueueCall([i \in DOMAIN pending |-> pending[i].id])
           mined(i) == IF i \notin NewlyMined(a, b) THEN Nothing
                       ELSE MinedCall(state[i].id, state[i].nonce)
           ended(i) == IF ShouldBeRemoved(b, state[i].id)
                          /\ ~ShouldBeRemoved(a, state[i].id)
                       THEN EndCall(state[i].id) ELSE Nothing
           ofEach  == [k \in 1..(2 * Len(state)) |->
                          IF k % 2 = 1 THEN mined((k + 1) \div 2) ELSE ended(k \div 2)]
           all     == <<requeue>> \o ofEach
           some    == {all[k] : k \in DOMAIN all} \ {Nothing}
           OK(x)   == x \in Calls /\ CallOK(chain, visible, used, x)
<1>1. DetectChanges(a, b) = Among(all, some)
  BY DEF DetectChanges
<1>2. /\ chain \in Seq(Blocks) /\ DOMAIN chain = 1..Len(chain) /\ Len(chain) \in Nat
      /\ b \in DOMAIN chain
      /\ \A i \in DOMAIN chain[b].txs : chain[b].txs[i] \in used
      /\ state \in Seq(Entries)
      /\ \A i \in DOMAIN state : state[i] \in Entries /\ EntryOK(chain, state[i], b)
  BY BlockTypes DEF ChainOK
<1>3. ASSUME NEW i \in DOMAIN state, state[i].mined
      PROVE  /\ state[i].block \in DOMAIN chain
             /\ \E j \in DOMAIN chain[state[i].block].txs :
                   chain[state[i].block].txs[j] = [id |-> state[i].id, nonce |-> state[i].nonce]
  BY <1>2, <1>3 DEF EntryOK, Holds
<1> HIDE DEF state
<1>4. requeue = Nothing \/ OK(requeue)
  <2> DEFINE ids == [i \in DOMAIN pending |-> pending[i].id]
  <2>1. pending \in Seq(Entries)
    BY <1>2, AmongSelects
  <2> HIDE DEF pending
  <2>2. ids \in Seq(Response)
    <3>1. \A i \in DOMAIN pending : pending[i] \in Entries
      BY <2>1
    <3>2. \A i \in DOMAIN pending : pending[i].id \in Response
      BY <3>1 DEF Entries
    <3>3. Len(pending) \in Nat /\ DOMAIN pending = 1..Len(pending)
      BY <2>1
    <3> QED
      BY <3>2, <3>3
  <2> HIDE DEF ids
  <2>3. OK(ReEnqueueCall(ids))
    BY <2>2 DEF Calls, CallOK, ReEnqueueCall
  <2> QED
    BY <2>3 DEF ids
<1>5. ASSUME NEW i PROVE mined(i) = Nothing \/ OK(mined(i))
  <2> SUFFICES ASSUME i \in NewlyMined(a, b) PROVE OK(MinedCall(state[i].id, state[i].nonce))
    OBVIOUS
  <2>1. i \in DOMAIN state /\ state[i].mined
    BY DEF NewlyMined, state
  <2>2. state[i].id \in Response /\ state[i].nonce \in Nat
    BY <1>2, <2>1 DEF Entries
  <2>3. [id |-> state[i].id, nonce |-> state[i].nonce] \in used
    BY <1>3, <2>1 DEF ChainOK
  <2> QED
    BY <2>2, <2>3 DEF Calls, CallOK, MinedCall
<1>6. ASSUME NEW i PROVE ended(i) = Nothing \/ OK(ended(i))
  <2> SUFFICES ASSUME ShouldBeRemoved(b, state[i].id) PROVE OK(EndCall(state[i].id))
    OBVIOUS
  <2>1. PICK j \in DOMAIN state : /\ state[j].id = state[i].id /\ state[j].mined
                                  /\ b - state[j].block > Confirmations
    BY DEF ShouldBeRemoved, Entry, state
  <2>2. state[i].id \in Response /\ state[j].block \in Nat
    BY <1>2, <2>1 DEF Entries
  <2>8. /\ state[j].block \in DOMAIN chain
        /\ \E k \in DOMAIN chain[state[j].block].txs :
              chain[state[j].block].txs[k] = [id |-> state[j].id, nonce |-> state[j].nonce]
    BY <1>3, <2>1
  <2>3. /\ state[j].block \in DOMAIN chain
        /\ \E k \in DOMAIN chain[state[j].block].txs :
              chain[state[j].block].txs[k].id = state[i].id
    BY <2>1, <2>8
  <2>4. Top(chain, visible) = b
    BY <1>2 DEF Top
  <2>5. Confirmations \in Nat
    BY ResponderAssumption
  <2>6. state[j].block + Confirmations < Top(chain, visible)
    BY <1>2, <2>1, <2>2, <2>4, <2>5
  <2>7. Deep(chain, visible, state[i].id)
    BY <2>3, <2>6 DEF Deep
  <2> QED
    BY <2>2, <2>7 DEF Calls, CallOK, EndCall
<1> HIDE DEF mined, ended, requeue, OK
<1>7. \A k \in DOMAIN ofEach : ofEach[k] = Nothing \/ OK(ofEach[k])
  BY <1>5, <1>6
<1>8. ofEach \in Seq(Calls \cup {Nothing}) /\ <<requeue>> \in Seq(Calls \cup {Nothing})
  <2>1. \A k \in DOMAIN ofEach : ofEach[k] \in Calls \cup {Nothing}
    BY <1>7 DEF OK
  <2>2. Len(state) \in Nat
    BY <1>2
  <2>3. requeue \in Calls \cup {Nothing}
    BY <1>4 DEF OK
  <2> HIDE DEF Nothing, Calls
  <2> QED
    BY <2>1, <2>2, <2>3
<1> HIDE DEF ofEach, Nothing, Calls
<1>9. /\ all \in Seq(Calls \cup {Nothing})
      /\ \A k \in DOMAIN all : all[k] = Nothing \/ OK(all[k])
  <2>1. /\ all \in Seq(Calls \cup {Nothing}) /\ Len(all) = Len(<<requeue>>) + Len(ofEach)
        /\ \A k \in 1..(Len(<<requeue>>) + Len(ofEach)) :
              all[k] = IF k <= Len(<<requeue>>) THEN <<requeue>>[k]
                       ELSE ofEach[k - Len(<<requeue>>)]
    BY <1>8, ConcatPlaces
  <2>2. Len(<<requeue>>) = 1 /\ <<requeue>>[1] = requeue
    OBVIOUS
  <2>3. Len(ofEach) \in Nat /\ DOMAIN ofEach = 1..Len(ofEach)
    BY <1>8
  <2> HIDE DEF all
  <2>4. DOMAIN all = 1..(1 + Len(ofEach))
    BY <2>1, <2>2
  <2>5. ASSUME NEW k \in DOMAIN all
        PROVE  \/ all[k] = requeue
               \/ k - 1 \in DOMAIN ofEach /\ all[k] = ofEach[k - 1]
    <3>1. k \in 1..(1 + Len(ofEach)) /\ k \in Int
      BY <2>4
    <3>2. CASE k <= 1
      <4>1. k = 1
        BY <3>1, <3>2
      <4> QED
        BY <2>1, <2>2, <2>3, <4>1
    <3>3. CASE k > 1
      BY <2>1, <2>2, <2>3, <3>1, <3>3
    <3> QED
      BY <3>1, <3>2, <3>3
  <2> QED
    BY <1>4, <1>7, <2>1, <2>5
<1> DEFINE result == Among(all, some)
<1>10. result \in Seq(Calls \cup {Nothing}) /\ \A k \in DOMAIN result : result[k] \in some
  <2> HIDE DEF all, some
  <2> QED
    BY <1>9, AmongSelects
<1>11. \A x \in some : OK(x)
  BY <1>9
<1> HIDE DEF result, some
<1>12. \A k \in DOMAIN result : OK(result[k])
  BY <1>10, <1>11
<1>13. result \in Seq(Calls) /\ \A k \in DOMAIN result : CallOK(chain, visible, used, result[k])
  BY <1>10, <1>12 DEF OK
<1> QED
  BY <1>1, <1>13 DEF CallsOK, result

-----------------------------------------------------------------------------
(* The steps of the network: what they do to the chain and to the calls *)

ChainInv == ChainOK(chain, used) /\ visible \in Nat

CallsInv == CallsOK(calls, chain, visible, used)

NetInv ==
    /\ sent \subseteq Transactions
    /\ starts \in [Response -> 0..MaxStarts]
    /\ failures \in Nat

(* What is deep on the chain is so after the step. *)
DeepStays == \A r : Deep(chain, visible, r) => Deep(chain', visible', r)

(* The bounds are natural numbers. *)
LEMMA SizesAreNatural == Confirmations \in Nat /\ MaxStarts \in Nat /\ FirstNonce \in Nat
  BY ResponderAssumption

(* A block is mined on top of the others. *)
LEMMA MineKeepsChain ==
    ASSUME ChainInv, CallsInv, NetInv, NEW n \in 0..MaxPerBlock, NEW txs \in [1..n -> sent],
           Mine(txs)
    PROVE  ChainInv' /\ CallsInv' /\ used \subseteq used' /\ DeepStays
<1> DEFINE block == [txs |-> txs, state |-> <<>>, known |-> FALSE, emitted |-> FALSE]
           d     == Append(chain, block)
           more  == used \cup {txs[i] : i \in DOMAIN txs}
<1>1. chain' = d /\ used' = more /\ visible' = visible /\ calls' = calls
  BY DEF Mine
<1>2. /\ chain \in Seq(Blocks) /\ DOMAIN chain = 1..Len(chain) /\ Len(chain) \in Nat
      /\ Len(chain) >= 1 /\ visible \in Nat
  BY BlockTypes DEF ChainInv, ChainOK
<1>3. n \in Nat
  BY ResponderAssumption
<1>4. block \in Blocks
  <2>1. \A i \in 1..n : txs[i] \in Transactions
    BY DEF NetInv
  <2>2. txs \in Seq(Transactions)
    BY <1>3, <2>1
  <2> HIDE DEF Transactions
  <2>3. <<>> \in Seq(Entries)
    OBVIOUS
  <2> HIDE DEF Entries
  <2> QED
    BY <2>2, <2>3 DEF Blocks
<1>5. block.txs = txs /\ block.state = <<>>
  OBVIOUS
<1> HIDE DEF block
<1>6. /\ d \in Seq(Blocks) /\ Len(d) = Len(chain) + 1
      /\ \A b \in DOMAIN chain : d[b] = chain[b]
      /\ d[Len(chain) + 1] = block
  BY <1>2, <1>4
<1> HIDE DEF d
<1>7. \A b \in DOMAIN d : b \notin DOMAIN chain => d[b] = block
  BY <1>2, <1>6, BlockTypes
<1>8. ChainOK(d, more)
  <2>1. \A b \in DOMAIN d : b \notin DOMAIN chain
                              => \A i \in DOMAIN d[b].txs : d[b].txs[i] \in more
    BY <1>5, <1>7
  <2>2. ASSUME NEW b \in DOMAIN d
        PROVE  \/ b \in DOMAIN chain /\ d[b].state = chain[b].state
               \/ \A i \in DOMAIN d[b].state : EntryOK(d, d[b].state[i], b)
    BY <1>5, <1>6, <1>7
  <2>3. \A b \in DOMAIN d : b \in DOMAIN chain => d[b].txs = chain[b].txs
    BY <1>6
  <2>4. Len(d) >= 1
    BY <1>2, <1>6
  <2> HIDE DEF more
  <2>5. used \subseteq more
    BY DEF more
  <2> QED
    BY <1>6, <2>1, <2>2, <2>3, <2>4, <2>5, ChainStep DEF ChainInv
<1>9. ASSUME NEW r, Deep(chain, visible, r) PROVE Deep(d, visible, r)
  <2>1. Top(chain, visible) <= Top(d, visible)
    BY <1>2, <1>6 DEF Top
  <2>2. Top(chain, visible) \in Int /\ Top(d, visible) \in Int
    BY <1>2, <1>6 DEF Top
  <2>3. \A b \in DOMAIN chain : b \in DOMAIN d
    BY <1>2, <1>6, BlockTypes
  <2>4. ASSUME NEW b \in DOMAIN chain, b + Confirmations < Top(chain, visible)
        PROVE  b \in DOMAIN d /\ b + Confirmations < Top(d, visible) /\ d[b].txs = chain[b].txs
    BY <1>2, <1>6, <2>1, <2>2, <2>3, <2>4, SizesAreNatural
  <2> QED
    BY <1>9, <2>4, DeepStep
<1> HIDE DEF more
<1>10. used \subseteq more
  BY DEF more
<1>11. CallsOK(calls, d, visible, more)
  BY <1>9, <1>10, CallsWait DEF CallsInv
<1>12. DeepStays
  BY <1>1, <1>9 DEF DeepStays
<1> QED
  BY <1>1, <1>2, <1>8, <1>10, <1>11, <1>12 DEF ChainInv, CallsInv

(* The blocks that are given up are no deeper than what is waited for. *)
LEMMA ReorgKeepsChain ==
    ASSUME ChainInv, CallsInv, NEW depth \in 1..Confirmations, Reorg(depth)
    PROVE  ChainInv' /\ CallsInv' /\ used' = used /\ DeepStays
<1> DEFINE n    == Len(chain) - depth
           d    == SubSeq(chain, 1, n)
           then == IF visible > Len(chain) THEN visible ELSE Len(chain) + 1
<1>1. /\ chain' = d /\ used' = used /\ visible' = then /\ calls' = calls
      /\ depth < Len(chain) /\ visible - 1 - n <= Confirmations
  BY DEF Reorg
<1>2. /\ chain \in Seq(Blocks) /\ DOMAIN chain = 1..Len(chain) /\ Len(chain) \in Nat
      /\ visible \in Nat /\ Confirmations \in Nat
  BY BlockTypes, SizesAreNatural DEF ChainInv, ChainOK
<1>3. n \in 1..Len(chain) /\ n \in Nat /\ n >= 1
  BY <1>1, <1>2
<1>4. d \in Seq(Blocks) /\ Len(d) = n /\ \A b \in 1..n : d[b] = chain[b]
  <2> HIDE DEF n
  <2> QED
    BY <1>2, <1>3
<1> HIDE DEF d
<1>5. DOMAIN d = 1..n /\ \A b \in DOMAIN d : b \in DOMAIN chain
  BY <1>2, <1>3, <1>4, BlockTypes
<1>6. ChainOK(d, used)
  <2>1. \A b \in DOMAIN d : b \in DOMAIN chain /\ d[b] = chain[b]
    BY <1>4, <1>5
  <2> QED
    BY <1>3, <1>4, <2>1, ChainStep DEF ChainInv
<1>7. ASSUME NEW r, Deep(chain, visible, r) PROVE Deep(d, then, r)
  <2>1. Top(d, then) = Top(chain, visible) /\ Top(chain, visible) \in Int
    BY <1>1, <1>2, <1>3, <1>4 DEF Top
  <2>2. ASSUME NEW b \in DOMAIN chain, b + Confirmations < Top(chain, visible)
        PROVE  b <= n
    <3>1. CASE visible > Len(chain)
      BY <1>1, <1>2, <1>3, <2>2, <3>1 DEF Top
    <3>2. CASE ~(visible > Len(chain))
      BY <1>1, <1>2, <1>3, <2>2, <3>2 DEF Top
    <3> QED
      BY <3>1, <3>2
  <2>3. ASSUME NEW b \in DOMAIN chain, b + Confirmations < Top(chain, visible)
        PROVE  b \in DOMAIN d /\ b + Confirmations < Top(d, then) /\ d[b].txs = chain[b].txs
    <3>1. b \in 1..n
      BY <1>2, <1>3, <2>2, <2>3
    <3> QED
      BY <1>4, <1>5, <2>1, <2>3, <3>1
  <2> QED
    BY <1>7, <2>3, DeepStep
<1>8. then \in Nat
  BY <1>2
<1> HIDE DEF then
<1>9. CallsOK(calls, d, then, used)
  BY <1>7, CallsWait DEF CallsInv
<1>10. DeepStays
  BY <1>1, <1>7 DEF DeepStays
<1> QED
  BY <1>1, <1>6, <1>8, <1>9, <1>10 DEF ChainInv, CallsInv

(* What is deep and what the calls say is the same while no transaction is. *)
LEMMA SameTransactions ==
    ASSUME ChainInv, CallsInv, NEW d \in Seq(Blocks), Len(d) = Len(chain),
           \A b \in DOMAIN chain : d[b].txs = chain[b].txs
    PROVE  /\ CallsOK(calls, d, visible, used)
           /\ \A r : Deep(chain, visible, r) => Deep(d, visible, r)
<1>1. DOMAIN d = DOMAIN chain /\ Top(d, visible) = Top(chain, visible)
  BY BlockTypes DEF ChainInv, ChainOK, Top
<1>2. ASSUME NEW r, Deep(chain, visible, r) PROVE Deep(d, visible, r)
  BY <1>1, <1>2, DeepStep
<1>3. CallsOK(calls, d, visible, used)
  BY <1>2, CallsWait DEF CallsInv
<1> QED
  BY <1>2, <1>3

(* The state of a new block says what the chain says. *)
LEMMA NewBlockKeepsChain ==
    ASSUME ChainInv, CallsInv, RecordsInv, NewBlock
    PROVE  ChainInv' /\ CallsInv' /\ used' = used /\ DeepStays
<1>1. PICK b \in DOMAIN chain :
         chain' = [chain EXCEPT ![b].known = TRUE,
                                ![b].state = [i \in DOMAIN transactions |->
                                                 StateAt(transactions[i].request.id, b)]]
  BY DEF NewBlock, Unknown
<1>2. used' = used /\ visible' = visible /\ calls' = calls
  BY DEF NewBlock
<1> DEFINE state == [i \in DOMAIN transactions |-> StateAt(transactions[i].request.id, b)]
           block == [chain[b] EXCEPT !.known = TRUE, !.state = state]
           d     == [chain EXCEPT ![b] = block]
<1>3. chain' = d
  BY <1>1
<1>4. /\ chain \in Seq(Blocks) /\ DOMAIN chain = 1..Len(chain) /\ Len(chain) \in Nat
      /\ chain[b] \in Blocks /\ visible \in Nat /\ Len(chain) >= 1
  BY BlockTypes DEF ChainInv, ChainOK
<1>5. ASSUME NEW i \in DOMAIN transactions
      PROVE  state[i] \in Entries /\ EntryOK(chain, state[i], b)
  <2>1. transactions[i] \in KeptItems
    BY DEF RecordsInv
  <2>2. transactions[i].request \in Observations
    BY <2>1 DEF KeptItems
  <2>3. /\ transactions[i].request.id \in Response
        /\ transactions[i].request.observed \in Nat \ {0}
    BY <2>2 DEF Observations
  <2>4. Record(transactions[i].request.id) = transactions[i]
    BY RecordIsKept DEF RecordsInv
  <2> QED
    BY <2>3, <2>4, StateIsThere DEF ChainInv
<1>6. state \in Seq(Entries) /\ DOMAIN state = DOMAIN transactions
  <2>1. DOMAIN transactions = 1..Len(transactions) /\ Len(transactions) \in Nat
    BY DEF RecordsInv
  <2> HIDE DEF Entries
  <2>2. \A i \in DOMAIN transactions : state[i] \in Entries
    BY <1>5
  <2> QED
    BY <2>1, <2>2
<1> HIDE DEF state
<1>7. block \in Blocks /\ block.txs = chain[b].txs /\ block.state = state
  <2> HIDE DEF Entries, Transactions
  <2> QED
    BY <1>4, <1>6 DEF Blocks
<1> HIDE DEF block
<1>8. /\ d \in Seq(Blocks) /\ Len(d) = Len(chain) /\ DOMAIN d = DOMAIN chain
      /\ \A a \in DOMAIN chain : d[a] = IF a = b THEN block ELSE chain[a]
  BY <1>4, <1>7
<1> HIDE DEF d
<1>9. \A a \in DOMAIN chain : d[a].txs = chain[a].txs
  BY <1>7, <1>8
<1>10. ASSUME NEW i \in DOMAIN block.state PROVE EntryOK(d, block.state[i], b)
  <2>1. EntryOK(chain, block.state[i], b) /\ b \in Nat
    BY <1>4, <1>5, <1>6, <1>7
  <2>2. \A a \in 1..b : d[a].txs = chain[a].txs
    BY <1>4, <1>9
  <2>3. b <= b
    BY <2>1
  <2> QED
    BY <2>1, <2>2, <2>3, EntryMoves, Zenon
<1>11. ASSUME NEW a \in DOMAIN d
       PROVE  \/ a \in DOMAIN chain /\ d[a].state = chain[a].state
              \/ \A i \in DOMAIN d[a].state : EntryOK(d, d[a].state[i], a)
  BY <1>8, <1>10
<1>12. ChainOK(d, used)
  BY <1>4, <1>8, <1>9, <1>11, ChainStep DEF ChainInv
<1>13. /\ CallsOK(calls, d, visible, used)
       /\ \A r : Deep(chain, visible, r) => Deep(d, visible, r)
  BY <1>8, <1>9, SameTransactions
<1>14. DeepStays
  BY <1>2, <1>3, <1>13 DEF DeepStays
<1> QED
  BY <1>2, <1>3, <1>4, <1>12, <1>13, <1>14 DEF ChainInv, CallsInv

(* A new head only asks for what is true. *)
LEMMA NewHeadKeepsChain ==
    ASSUME ChainInv, CallsInv, NewHead
    PROVE  ChainInv' /\ CallsInv' /\ used' = used /\ DeepStays
<1> DEFINE b       == Len(chain)
           block   == [chain[b] EXCEPT !.emitted = TRUE]
           d       == [chain EXCEPT ![b] = block]
           changes == DetectChanges(PrevEmitted(b), b)
<1>1. /\ chain' = d /\ calls' = calls \o changes /\ used' = used /\ visible' = visible
      /\ Len(chain) >= visible
  BY DEF NewHead
<1>2. /\ chain \in Seq(Blocks) /\ DOMAIN chain = 1..Len(chain) /\ Len(chain) \in Nat
      /\ b \in DOMAIN chain /\ chain[b] \in Blocks /\ visible \in Nat /\ Len(chain) >= 1
  BY BlockTypes DEF ChainInv, ChainOK
<1>3. block \in Blocks /\ block.txs = chain[b].txs /\ block.state = chain[b].state
  <2> HIDE DEF Entries, Transactions
  <2> QED
    BY <1>2 DEF Blocks
<1> HIDE DEF block
<1>4. /\ d \in Seq(Blocks) /\ Len(d) = Len(chain) /\ DOMAIN d = DOMAIN chain
      /\ \A a \in DOMAIN chain : d[a] = IF a = b THEN block ELSE chain[a]
  BY <1>2, <1>3
<1> HIDE DEF d
<1>5. \A a \in DOMAIN chain : d[a].txs = chain[a].txs /\ d[a].state = chain[a].state
  BY <1>3, <1>4
<1>6. ChainOK(d, used)
  BY <1>2, <1>4, <1>5, ChainStep DEF ChainInv
<1>7. CallsOK(changes, chain, visible, used)
  BY <1>1, <1>2, ChangesAreTrue DEF ChainInv
<1> HIDE DEF changes
<1>8. CallsOK(calls \o changes, chain, visible, used)
  BY <1>7, CallsAppend DEF CallsInv
<1>9. \A r : Deep(chain, visible, r) => Deep(d, visible, r)
  <2>1. Top(d, visible) = Top(chain, visible)
    BY <1>4 DEF Top
  <2> QED
    BY <1>4, <1>5, <2>1, DeepStep
<1>10. CallsOK(calls \o changes, d, visible, used)
  BY <1>8, <1>9, CallsWait
<1>11. DeepStays
  BY <1>1, <1>9 DEF DeepStays
<1> QED
  BY <1>1, <1>2, <1>6, <1>10, <1>11 DEF ChainInv, CallsInv

(* The watcher asks for a response to an event in a block of the chain. *)
LEMMA StartKeepsCalls ==
    ASSUME CallsInv, NetInv, NEW r \in Response, NEW block \in 1..Len(chain),
           WatcherStarts(r, block)
    PROVE  CallsInv' /\ NetInv'
<1> DEFINE call == StartCall(r, block)
<1>1. /\ calls' = Append(calls, call) /\ starts[r] < MaxStarts
      /\ starts' = [starts EXCEPT ![r] = @ + 1]
      /\ UNCHANGED <<chain, visible, used, sent, failures>>
  BY DEF WatcherStarts, networkVars
<1>2. call \in Calls /\ CallOK(chain, visible, used, call)
  BY DEF StartCall, Calls, CallOK
<1> HIDE DEF call, Calls, CallOK
<1>3. CallsOK(<<call>>, chain, visible, used)
  <2>1. /\ <<call>> \in Seq(Calls) /\ DOMAIN <<call>> = 1..1
        /\ <<call>>[1] = call
    BY <1>2
  <2>2. \A k \in 1..1 : k = 1
    OBVIOUS
  <2> QED
    BY <1>2, <2>1, <2>2 DEF CallsOK
<1>4. CallsOK(calls \o <<call>>, chain, visible, used)
  BY <1>3, CallsAppend DEF CallsInv
<1>5. Append(calls, call) = calls \o <<call>>
  <2>1. calls \in Seq(Calls)
    BY DEF CallsInv, CallsOK
  <2> QED
    BY <1>2, <2>1
<1>6. starts' \in [Response -> 0..MaxStarts]
  BY <1>1, SizesAreNatural DEF NetInv
<1> QED
  BY <1>1, <1>4, <1>5, <1>6 DEF CallsInv, NetInv

-----------------------------------------------------------------------------
(* The steps of the store *)

(* Whatever else a step does, it keeps what it does not touch. *)
LEMMA StoreFrame ==
    ASSUME StoreInv, used \subseteq used',
           UNCHANGED <<queue, emptyNonce, transactions, outbox, issued, sent, failures,
                       overtaken, restored>>
    PROVE  StoreInv'
<1>1. Front' = Front
  BY DEF Front
<1>2. GapInv'
  BY <1>1 DEF StoreInv, GapInv
<1>3. QueueInv' /\ RecordsInv' /\ IssuedInv' /\ SentInv'
  BY DEF StoreInv, QueueInv, RecordsInv, IssuedInv, SentInv, TxOf
<1>4. PriceInv'
  BY <1>1 DEF StoreInv, PriceInv, Over, Away
<1> QED
  BY <1>2, <1>3, <1>4 DEF StoreInv

(* A call that is served leaves the lock to the next. *)
LEMMA ServedKeepsCalls ==
    ASSUME ChainInv, CallsInv, NetInv, calls # <<>>, Served
    PROVE  /\ ChainInv' /\ CallsInv' /\ NetInv'
           /\ CallOK(chain, visible, used, Call)
           /\ used' = used /\ sent' = sent /\ failures' = failures
<1>1. /\ calls' = Tail(calls)
      /\ UNCHANGED <<chain, visible, sent, starts, used, failures>>
  BY DEF Served, networkVars
<1>2. /\ CallsOK(Tail(calls), chain, visible, used)
      /\ CallOK(chain, visible, used, Head(calls))
  BY CallsTail DEF CallsInv
<1>3. CallsInv'
  BY <1>1, <1>2 DEF CallsInv
<1>4. ChainInv' /\ NetInv'
  BY <1>1 DEF ChainInv, NetInv
<1> QED
  BY <1>1, <1>2, <1>3, <1>4 DEF Call

(* What a step says of the queue, the records and the issued items: who     *)
(* leaves the queue was mined, who is forgotten is mined too deep to come   *)
(* back, and what is issued tops what was issued at its nonce.              *)
LeavesMined == \A r \in Ids(queue) \ Ids(queue') : \E tx \in used : tx.id = r

ForgetsMined == \A r \in Tracked \ Tracked' : r \in MinedIds

IssuesHigher ==
    ~restored' =>
        \A new \in issued' \ issued, old \in issued :
            new.nonce = old.nonce
                => 100 * new.price >= (100 + ReplacementRate) * old.price

StepSays == LeavesMined /\ ForgetsMined /\ IssuesHigher

(* A step that touches neither queue nor records says nothing. *)
LEMMA NothingSaid ==
    ASSUME queue' = queue, transactions' = transactions, issued' = issued
    PROVE  StepSays
  BY DEF StepSays, LeavesMined, ForgetsMined, IssuesHigher, Tracked

(* What updateQueue issues tops what was issued at its nonce. *)
LEMMA UpdateIssuesHigher ==
    ASSUME NEW items, NEW nonce, UpdateQueue(items, nonce), IssuedInv,
           ~restored' => Replaces(items, nonce, overtaken')
    PROVE  IssuesHigher
<1> SUFFICES ASSUME ~restored', NEW new \in issued' \ issued, NEW old \in issued,
                    new.nonce = old.nonce
             PROVE  100 * new.price >= (100 + ReplacementRate) * old.price
  BY DEF IssuesHigher
<1>1. PICK i \in DOMAIN items : new = items[i]
  BY DEF UpdateQueue, Difference
<1>2. Over(items[i])
  BY DEF Replaces
<1> QED
  BY <1>1, <1>2 DEF Over, Tops

(* updateQueue, with a queue of the responses it has, and one more or less *)
LEMMA UpdateKeepsStore ==
    ASSUME StoreInv, NEW items, NEW nonce, UpdateQueue(items, nonce),
           QueueOf(Observations, items, nonce), nonce \in Nat, nonce >= emptyNonce,
           \A i \in DOMAIN items : items[i].nonce \in Nat,
           ~restored' => Replaces(items, nonce, overtaken'),
           sent' = sent, failures' = failures, used' = used,
           \A n \in FirstNonce..(nonce - Len(items) - 1) : \E tx \in used : tx.nonce = n
    PROVE  /\ StoreInv' /\ ForgetsMined /\ IssuesHigher
           /\ queue' = items
<1>1. QueueInv' /\ RecordsInv' /\ IssuedInv' /\ Ids(transactions) \subseteq Ids(transactions')
  BY UpdateKeepsRecords DEF StoreInv
<1>2. SentInv'
  BY UpdateIsSent DEF StoreInv
<1>3. PriceInv'
  BY UpdateKeepsPrices DEF StoreInv
<1>4. queue' = items /\ emptyNonce' = nonce
  BY DEF UpdateQueue
<1>5. GapInv'
  BY <1>4 DEF GapInv, Front
<1>6. ForgetsMined
  BY <1>1 DEF ForgetsMined, Tracked
<1>7. IssuesHigher
  BY UpdateIssuesHigher DEF StoreInv
<1> QED
  BY <1>1, <1>2, <1>3, <1>4, <1>5, <1>6, <1>7 DEF StoreInv

(* multiResponder.ts:67-113 *)
LEMMA StartResponseKeeps ==
    ASSUME StoreInv, ChainInv, CallsInv, NetInv,
           NEW price \in Price, StartResponse(price)
    PROVE  StoreInv' /\ ChainInv' /\ CallsInv' /\ NetInv' /\ StepSays
<1> DEFINE request == [id |-> Call.id, ideal |-> price, observed |-> Call.observed]
           added   == Add(queue, emptyNonce, request)
<1>1. /\ calls # <<>> /\ Call.op = "startResponse" /\ Served
      /\ UNCHANGED <<overtaken, restored>>
      /\ \/ WellFormed(added, emptyNonce + 1) /\ UpdateQueue(added, emptyNonce + 1)
         \/ NoUpdate
  BY DEF StartResponse, Owner
<1>2. /\ ChainInv' /\ CallsInv' /\ NetInv'
      /\ CallOK(chain, visible, used, Call)
      /\ used' = used /\ sent' = sent /\ failures' = failures
  BY <1>1, ServedKeepsCalls
<1>3. request \in Observations
  BY <1>1, <1>2 DEF CallOK, Observations
<1> HIDE DEF request
<1>4. ASSUME NoUpdate PROVE StoreInv' /\ StepSays
  <2>1. UNCHANGED <<queue, emptyNonce, transactions, outbox, issued>>
    BY <1>4 DEF NoUpdate, responderVars
  <2> QED
    BY <1>1, <1>2, <2>1, StoreFrame, NothingSaid
<1>5. ASSUME WellFormed(added, emptyNonce + 1), UpdateQueue(added, emptyNonce + 1)
      PROVE  StoreInv' /\ StepSays
  <2>1. /\ QueueOf(Observations, added, emptyNonce + 1)
        /\ \A i \in DOMAIN added : added[i].nonce \in Nat
        /\ Ids(queue) \subseteq Ids(added)
        /\ emptyNonce + 1 - Len(added) = Front
        /\ ~restored => Replaces(added, emptyNonce + 1, overtaken)
    BY <1>3, <1>5, AddUpdates
  <2> DEFINE nonce == emptyNonce + 1
  <2>2. emptyNonce \in Nat /\ Len(added) \in Nat /\ nonce \in Nat /\ nonce >= emptyNonce
    BY <2>1 DEF StoreInv, QueueInv, QueueOf
  <2> HIDE DEF added
  <2>3. ~restored' => Replaces(added, nonce, overtaken')
    BY <1>1, <2>1
  <2>4. nonce - Len(added) = Front
    BY <2>1, <2>2
  <2>5. QueueOf(Observations, added, nonce)
    BY <2>1
  <2>6. UpdateQueue(added, nonce)
    BY <1>5
  <2> HIDE DEF nonce
  <2>7. \A n \in FirstNonce..(nonce - Len(added) - 1) : \E tx \in used : tx.nonce = n
    BY <2>4 DEF StoreInv, GapInv
  <2>8. StoreInv' /\ ForgetsMined /\ IssuesHigher /\ queue' = added
    BY <1>2, <2>1, <2>2, <2>3, <2>5, <2>6, <2>7, UpdateKeepsStore
  <2>9. LeavesMined
    BY <2>1, <2>8 DEF LeavesMined
  <2> QED
    BY <2>8, <2>9 DEF StepSays
<1> QED
  BY <1>1, <1>2, <1>4, <1>5

(* multiResponder.ts:125-172 *)
LEMMA TxMinedKeeps ==
    ASSUME StoreInv, ChainInv, CallsInv, NetInv, TxMined
    PROVE  StoreInv' /\ ChainInv' /\ CallsInv' /\ NetInv' /\ StepSays
<1> DEFINE items == Removed(queue, Call.id)
<1>1. /\ calls # <<>> /\ Call.op = "txMined" /\ Served
      /\ restored' = restored
      /\ \/ NoUpdate /\ overtaken' = overtaken
         \/ /\ Contains(queue, Call.id) /\ queue[1].nonce = Call.nonce
            /\ UpdateQueue(items, emptyNonce) /\ overtaken' = OvertakenBy(Call.id)
  BY DEF TxMined, Owner, Removed, OvertakenBy
<1>2. /\ ChainInv' /\ CallsInv' /\ NetInv'
      /\ CallOK(chain, visible, used, Call)
      /\ used' = used /\ sent' = sent /\ failures' = failures
  BY <1>1, ServedKeepsCalls
<1>3. [id |-> Call.id, nonce |-> Call.nonce] \in used
  BY <1>1, <1>2 DEF CallOK
<1>4. ASSUME NoUpdate, overtaken' = overtaken PROVE StoreInv' /\ StepSays
  <2>1. UNCHANGED <<queue, emptyNonce, transactions, outbox, issued>>
    BY <1>4 DEF NoUpdate, responderVars
  <2> QED
    BY <1>1, <1>2, <1>4, <2>1, StoreFrame, NothingSaid
<1>5. ASSUME Contains(queue, Call.id), queue[1].nonce = Call.nonce,
             UpdateQueue(items, emptyNonce), overtaken' = OvertakenBy(Call.id)
      PROVE  StoreInv' /\ StepSays
  <2>1. /\ QueueOf(Observations, items, emptyNonce)
        /\ \A i \in DOMAIN items : items[i].nonce \in Nat
        /\ Ids(items) = Ids(queue) \ {Call.id}
        /\ emptyNonce - Len(items) = Front + 1
        /\ queue[1].nonce = Front
        /\ ~restored => Replaces(items, emptyNonce, OvertakenBy(Call.id))
    BY <1>5, RemovalUpdates
  <2> HIDE DEF items
  <2>2. emptyNonce \in Nat /\ emptyNonce >= emptyNonce /\ Front \in Int
    BY QueueIsOne DEF StoreInv, QueueInv
  <2>3. ~restored' => Replaces(items, emptyNonce, overtaken')
    BY <1>1, <1>5, <2>1
  <2>4. ASSUME NEW n \in FirstNonce..(emptyNonce - Len(items) - 1)
        PROVE  \E tx \in used : tx.nonce = n
    <3>1. n \in FirstNonce..(Front - 1) \/ n = Front
      BY <2>1, <2>2, SizesAreNatural
    <3>2. CASE n = Front
      BY <1>3, <1>5, <2>1, <3>2
    <3>3. CASE n \in FirstNonce..(Front - 1)
      BY <3>3 DEF StoreInv, GapInv
    <3> QED
      BY <3>1, <3>2, <3>3
  <2>5. StoreInv' /\ ForgetsMined /\ IssuesHigher /\ queue' = items
    BY <1>2, <1>5, <2>1, <2>2, <2>3, <2>4, UpdateKeepsStore
  <2>6. LeavesMined
    BY <1>3, <2>1, <2>5 DEF LeavesMined
  <2> QED
    BY <2>5, <2>6 DEF StepSays
<1> QED
  BY <1>1, <1>2, <1>4, <1>5

(* multiResponder.ts:184-207 *)
LEMMA ReEnqueueKeeps ==
    ASSUME StoreInv, ChainInv, CallsInv, NetInv, ReEnqueueMissingItems
    PROVE  StoreInv' /\ ChainInv' /\ CallsInv' /\ NetInv' /\ StepSays
<1> DEFINE missing == Among(Call.ids, Response \ Ids(queue))
           items   == Refilled(missing)
           known   == \A i \in DOMAIN Call.ids : Call.ids[i] \in Tracked
           again   == \E i \in DOMAIN missing : missing[i] \in overtaken
<1>1. /\ calls # <<>> /\ Call.op = "reEnqueueMissingItems" /\ Served
      /\ overtaken' = overtaken
      /\ \/ /\ known /\ WellFormed(items, emptyNonce) /\ UpdateQueue(items, emptyNonce)
            /\ restored' = (restored \/ again)
         \/ NoUpdate /\ restored' = restored
  BY DEF ReEnqueueMissingItems, Owner, Refilled
<1>2. /\ ChainInv' /\ CallsInv' /\ NetInv'
      /\ CallOK(chain, visible, used, Call)
      /\ used' = used /\ sent' = sent /\ failures' = failures
  BY <1>1, ServedKeepsCalls
<1>3. Call.ids \in Seq(Response)
  BY <1>1, <1>2 DEF CallOK
<1>4. ASSUME NoUpdate, restored' = restored PROVE StoreInv' /\ StepSays
  <2>1. UNCHANGED <<queue, emptyNonce, transactions, outbox, issued>>
    BY <1>4 DEF NoUpdate, responderVars
  <2> QED
    BY <1>1, <1>2, <1>4, <2>1, StoreFrame, NothingSaid
<1>5. ASSUME known, WellFormed(items, emptyNonce), UpdateQueue(items, emptyNonce),
             restored' = (restored \/ again)
      PROVE  StoreInv' /\ StepSays
  <2>1. Call.ids \in Seq(Tracked)
    BY <1>3, <1>5
  <2>2. missing \in Seq(Tracked) /\ \A k \in DOMAIN missing : missing[k] \in Response \ Ids(queue)
    BY <2>1, AmongSelects
  <2> HIDE DEF missing
  <2>3. \A i \in DOMAIN missing : missing[i] \notin Ids(queue)
    BY <2>2
  <2>4. /\ QueueOf(Observations, items, emptyNonce)
        /\ \A i \in DOMAIN items : items[i].nonce \in Nat
        /\ Ids(queue) \subseteq Ids(items)
        /\ emptyNonce - Len(items) <= Front
        /\ ~restored /\ (\A i \in DOMAIN missing : missing[i] \notin overtaken)
             => Replaces(items, emptyNonce, overtaken)
    BY <1>5, <2>2, <2>3, PrependUpdates
  <2>5. ~restored' => Replaces(items, emptyNonce, overtaken')
    BY <1>1, <1>5, <2>4
  <2>6. emptyNonce \in Nat /\ emptyNonce >= emptyNonce /\ Front \in Int /\ Len(items) \in Nat
    BY <2>4, QueueIsOne DEF StoreInv, QueueInv, QueueOf
  <2> HIDE DEF items
  <2>7. ASSUME NEW n \in FirstNonce..(emptyNonce - Len(items) - 1)
        PROVE  \E tx \in used : tx.nonce = n
    <3>1. n \in FirstNonce..(Front - 1)
      BY <2>4, <2>6, SizesAreNatural
    <3> QED
      BY <3>1 DEF StoreInv, GapInv
  <2>8. StoreInv' /\ ForgetsMined /\ IssuesHigher /\ queue' = items
    BY <1>2, <1>5, <2>4, <2>5, <2>6, <2>7, UpdateKeepsStore
  <2>9. LeavesMined
    BY <2>4, <2>8 DEF LeavesMined
  <2> QED
    BY <2>8, <2>9 DEF StepSays
<1> QED
  BY <1>1, <1>2, <1>4, <1>5

(* multiResponder.ts:214-218: the record of one response is forgotten, and *)
(* its transaction is mined for good.                                       *)
LEMMA EndResponseKeeps ==
    ASSUME StoreInv, ChainInv, CallsInv, NetInv, EndResponse
    PROVE  StoreInv' /\ ChainInv' /\ CallsInv' /\ NetInv' /\ StepSays
<1> DEFINE kept == {Record(id) : id \in Tracked \ {Call.id}}
           left == Among(transactions, kept)
<1>1. /\ calls # <<>> /\ Call.op = "endResponse" /\ Served
      /\ transactions' = left
      /\ UNCHANGED <<queue, emptyNonce, outbox, issued, overtaken, restored>>
  BY DEF EndResponse, Owner
<1>2. /\ ChainInv' /\ CallsInv' /\ NetInv'
      /\ CallOK(chain, visible, used, Call)
      /\ used' = used /\ sent' = sent /\ failures' = failures
  BY <1>1, ServedKeepsCalls
<1>3. transactions \in Seq(KeptItems) /\ NothingTwice(transactions)
  BY DEF StoreInv, RecordsInv
<1>4. \A i \in DOMAIN transactions :
          transactions[i].request.id # Call.id => transactions[i] \in kept
  <2>1. ASSUME NEW i \in DOMAIN transactions, transactions[i].request.id # Call.id
        PROVE  transactions[i] \in kept
    <3>1. transactions[i].request.id \in Tracked \ {Call.id}
      BY <2>1 DEF Tracked, Ids
    <3>2. transactions[i] = Record(transactions[i].request.id)
      BY <1>3, RecordIsKept
    <3> QED
      BY <3>1, <3>2
  <2> QED
    BY <2>1
<1> HIDE DEF kept
<1>5. /\ left \in Seq(KeptItems) /\ NothingTwice(left)
      /\ \A i \in DOMAIN transactions :
             transactions[i] \in kept => \E k \in DOMAIN left : left[k] = transactions[i]
  BY <1>3, AmongSelects, AmongNothingTwice
<1>6. PICK nth \in [DOMAIN left -> DOMAIN transactions] :
          /\ \A k \in DOMAIN left : left[k] = transactions[nth[k]]
          /\ \A k, m \in DOMAIN left : nth[k] = nth[m] => k = m
  BY <1>3, AmongSelects
<1> HIDE DEF left
<1>7. RecordsInv'
  BY <1>1, <1>5, <1>6 DEF StoreInv, RecordsInv
<1>8. PriceInv'
  <2>1. Front' = Front /\ issued' = issued /\ queue' = queue /\ overtaken' = overtaken
        /\ restored' = restored /\ emptyNonce' = emptyNonce
    BY <1>1 DEF Front
  <2>2. \A k \in DOMAIN transactions' : /\ nth[k] \in DOMAIN transactions
                                        /\ transactions'[k] = transactions[nth[k]]
    BY <1>1, <1>6
  <2>3. \A k \in DOMAIN transactions' : Away(k)' => Away(nth[k])
    BY <2>1, <2>2 DEF Away
  <2>4. ASSUME ~restored
        PROVE  /\ \A k \in DOMAIN transactions' :
                     Away(k)' => Over(transactions[nth[k]]) /\ transactions[nth[k]].nonce < Front
               /\ \A k, m \in DOMAIN transactions' :
                     /\ Away(k)' /\ Away(m)'
                     /\ transactions[nth[k]].nonce = transactions[nth[m]].nonce
                     => nth[k] = nth[m]
    BY <2>2, <2>3, <2>4 DEF StoreInv, PriceInv
  <2>5. ASSUME ~restored
        PROVE  /\ \A k \in DOMAIN transactions' : Away(k)' =>
                     /\ \A y \in issued : y.nonce = transactions'[k].nonce
                          => transactions'[k] = y \/ Tops(transactions'[k], y)
                     /\ transactions'[k].nonce < Front
               /\ \A k, m \in DOMAIN transactions' :
                     Away(k)' /\ Away(m)' /\ transactions'[k].nonce = transactions'[m].nonce
                     => k = m
    <3>1. \A k \in DOMAIN transactions' : Away(k)' =>
              /\ \A y \in issued : y.nonce = transactions'[k].nonce
                   => transactions'[k] = y \/ Tops(transactions'[k], y)
              /\ transactions'[k].nonce < Front
      BY <2>2, <2>4, <2>5 DEF Over
    <3>2. \A k, m \in DOMAIN transactions' :
              Away(k)' /\ Away(m)' /\ transactions'[k].nonce = transactions'[m].nonce
              => nth[k] = nth[m]
      BY <2>2, <2>4, <2>5
    <3>3. \A k, m \in DOMAIN transactions' : nth[k] = nth[m] => k = m
      BY <1>1, <1>6
    <3> QED
      BY <3>1, <3>2, <3>3
  <2>6. ~restored => \A i \in DOMAIN queue : \A y \in issued :
            y.nonce = queue[i].nonce => queue[i] = y \/ Tops(queue[i], y)
    BY DEF StoreInv, PriceInv, Over
  <2>7. \A y \in issued : y.nonce < emptyNonce
    BY DEF StoreInv, PriceInv
  <2>8. (\A y \in issued : y.nonce < emptyNonce)'
    BY <2>1, <2>7
  <2>9. (~restored => \A i \in DOMAIN queue : Over(queue[i]))'
    BY <2>1, <2>6 DEF Over, Tops
  <2>10. (~restored => \A j \in DOMAIN transactions :
              Away(j) => Over(transactions[j]) /\ transactions[j].nonce < Front)'
    BY <2>1, <2>5 DEF Over, Tops
  <2>11. (~restored => \A j, k \in DOMAIN transactions :
              Away(j) /\ Away(k) /\ transactions[j].nonce = transactions[k].nonce => j = k)'
    BY <2>1, <2>5
  <2> QED
    BY <2>8, <2>9, <2>10, <2>11 DEF PriceInv
<1>9. QueueInv' /\ IssuedInv' /\ SentInv' /\ GapInv'
  BY <1>1, <1>2 DEF StoreInv, QueueInv, IssuedInv, SentInv, GapInv, TxOf, Front
<1>10. ForgetsMined
  <2>1. Tracked' = Ids(left) /\ Tracked = Ids(transactions)
    BY <1>1 DEF Tracked
  <2>2. ASSUME NEW r \in Tracked, r # Call.id PROVE r \in Tracked'
    <3>1. PICK i \in DOMAIN transactions : transactions[i].request.id = r
      BY <2>1 DEF Ids
    <3>2. \E k \in DOMAIN left : left[k] = transactions[i]
      BY <1>5, <1>4, <2>2, <3>1
    <3> QED
      BY <2>1, <3>1, <3>2 DEF Ids
  <2>3. Call.id \in MinedIds
    <3>1. Deep(chain, visible, Call.id)
      BY <1>1, <1>2 DEF CallOK
    <3>2. PICK b \in DOMAIN chain : \E i \in DOMAIN chain[b].txs : chain[b].txs[i].id = Call.id
      BY <3>1 DEF Deep
    <3>3. PICK i \in DOMAIN chain[b].txs : chain[b].txs[i].id = Call.id
      BY <3>2
    <3>4. chain[b].txs[i] \in Mined
      BY DEF Mined
    <3> QED
      BY <3>3, <3>4 DEF MinedIds
  <2> QED
    BY <2>2, <2>3 DEF ForgetsMined
<1>11. LeavesMined /\ IssuesHigher
  BY <1>1 DEF LeavesMined, IssuesHigher
<1> QED
  BY <1>2, <1>7, <1>8, <1>9, <1>10, <1>11 DEF StoreInv, StepSays

(* A call that fails does nothing. *)
LEMMA CallFailsKeeps ==
    ASSUME StoreInv, ChainInv, CallsInv, NetInv, CallFails
    PROVE  StoreInv' /\ ChainInv' /\ CallsInv' /\ NetInv' /\ StepSays
<1>1. /\ calls # <<>> /\ calls' = Tail(calls) /\ failures' = failures + 1
      /\ UNCHANGED <<queue, emptyNonce, transactions, outbox, issued, chain, sent, visible,
                     starts, overtaken, restored, used>>
  BY DEF CallFails, NoUpdate, responderVars, networkVars, countVars
<1>2. CallsInv'
  <2>1. CallsOK(Tail(calls), chain, visible, used)
    BY <1>1, CallsTail DEF CallsInv
  <2> QED
    BY <1>1, <2>1 DEF CallsInv
<1>3. ChainInv' /\ NetInv' /\ failures' # 0
  BY <1>1 DEF ChainInv, NetInv
<1>4. Front' = Front
  BY <1>1 DEF Front
<1>5. QueueInv' /\ RecordsInv' /\ IssuedInv' /\ GapInv'
  BY <1>1, <1>4 DEF StoreInv, QueueInv, RecordsInv, IssuedInv, GapInv
<1>6. PriceInv'
  BY <1>1, <1>4 DEF StoreInv, PriceInv, Over, Away
<1>7. SentInv'
  BY <1>3 DEF SentInv
<1> QED
  BY <1>1, <1>2, <1>3, <1>5, <1>6, <1>7, NothingSaid DEF StoreInv

(* multiResponder.ts:220-233: a broadcast reaches the network, or fails. *)
LEMMA BroadcastKeeps ==
    ASSUME StoreInv, ChainInv, CallsInv, NetInv,
           NEW item \in outbox, Broadcast(item) \/ BroadcastFails(item)
    PROVE  StoreInv' /\ ChainInv' /\ CallsInv' /\ NetInv' /\ StepSays
<1>1. /\ UNCHANGED <<queue, emptyNonce, transactions, calls, issued, chain, visible,
                     starts, overtaken, restored, used>>
      /\ outbox' = outbox \ {item}
      /\ \/ sent' = sent \cup {TxOf(item)} /\ failures' = failures
         \/ sent' = sent /\ failures' = failures + 1
  BY DEF Broadcast, BroadcastFails, responderVars, networkVars, countVars, TxOf
<1>2. TxOf(item) \in Transactions
  <2>1. item \in KeptItems
    BY DEF StoreInv, IssuedInv
  <2>2. item.request \in Observations /\ item.nonce \in Nat
    BY <2>1 DEF KeptItems
  <2> QED
    BY <2>2 DEF Observations, TxOf, Transactions
<1>3. ChainInv' /\ CallsInv'
  BY <1>1 DEF ChainInv, CallsInv
<1>4. NetInv'
  BY <1>1, <1>2 DEF NetInv
<1>5. Front' = Front
  BY <1>1 DEF Front
<1>6. QueueInv' /\ RecordsInv' /\ IssuedInv' /\ GapInv'
  BY <1>1, <1>5 DEF StoreInv, QueueInv, RecordsInv, IssuedInv, GapInv
<1>7. PriceInv'
  BY <1>1, <1>5 DEF StoreInv, PriceInv, Over, Away
<1>8. SentInv'
  <2>1. CASE failures' = failures /\ sent' = sent \cup {TxOf(item)}
    BY <1>1, <2>1 DEF StoreInv, SentInv, TxOf
  <2>2. CASE failures' = failures + 1
    <3>1. failures' # 0
      BY <2>2 DEF NetInv
    <3> QED
      BY <3>1 DEF SentInv
  <2> QED
    BY <1>1, <2>1, <2>2
<1> QED
  BY <1>1, <1>3, <1>4, <1>6, <1>7, <1>8, NothingSaid DEF StoreInv

-----------------------------------------------------------------------------
(* The inductive invariant: a promise of the store needs what the calls say *)
(* of the chain, since whoever made a call looked at a chain that may have  *)
(* been reorganised by the time the lock is free.                           *)
ResponderInv == StoreInv /\ ChainInv /\ CallsInv /\ NetInv

(* The responder starts with an empty queue on the first block. *)
LEMMA InitInv == Init => ResponderInv
<1> SUFFICES ASSUME Init PROVE ResponderInv
  OBVIOUS
<1>1. /\ queue = <<>> /\ emptyNonce = FirstNonce /\ transactions = <<>> /\ calls = <<>>
      /\ outbox = {} /\ sent = {} /\ visible = 0 /\ issued = {} /\ used = {}
      /\ overtaken = {} /\ ~restored /\ failures = 0 /\ starts = [r \in Response |-> 0]
      /\ chain = <<[txs |-> <<>>, state |-> <<>>, known |-> TRUE, emitted |-> TRUE]>>
  BY DEF Init
<1>2. QueueInv
  <2>1. WellFormed(queue, emptyNonce)
    BY <1>1, QueueAssumption
       DEF WellFormed, OrderedByPrice, ConsecutiveNonces, NothingTwice
  <2>2. queue \in Seq(KeptItems)
    <3> HIDE DEF KeptItems
    <3> QED
      BY <1>1
  <2> QED
    BY <1>1, <2>1, <2>2, SizesAreNatural DEF QueueInv
<1>3. RecordsInv
  <2>1. NothingTwice(transactions)
    BY <1>1 DEF NothingTwice
  <2>2. transactions \in Seq(KeptItems)
    <3> HIDE DEF KeptItems
    <3> QED
      BY <1>1
  <2> QED
    BY <1>1, <2>1, <2>2 DEF RecordsInv
<1>4. IssuedInv /\ SentInv
  BY <1>1 DEF IssuedInv, SentInv
<1>5. GapInv
  <2>1. Front = FirstNonce
    BY <1>1, SizesAreNatural DEF Front
  <2> QED
    BY <2>1, SizesAreNatural DEF GapInv
<1>6. PriceInv
  BY <1>1 DEF PriceInv
<1>7. ChainInv
  <2> DEFINE genesis == [txs |-> <<>>, state |-> <<>>, known |-> TRUE, emitted |-> TRUE]
  <2>1. genesis \in Blocks /\ genesis.txs = <<>> /\ genesis.state = <<>>
    <3>1. <<>> \in Seq(Transactions) /\ <<>> \in Seq(Entries)
      <4> HIDE DEF Transactions, Entries
      <4> QED
        OBVIOUS
    <3> HIDE DEF Transactions, Entries
    <3> QED
      BY <3>1 DEF Blocks
  <2> HIDE DEF genesis, Blocks
  <2>2. <<genesis>> \in Seq(Blocks) /\ Len(<<genesis>>) = 1 /\ DOMAIN <<genesis>> = 1..1
        /\ <<genesis>>[1] = genesis
    BY <2>1
  <2>3. \A b \in 1..1 : b = 1
    OBVIOUS
  <2>4. ChainOK(<<genesis>>, used)
    BY <2>1, <2>2, <2>3 DEF ChainOK
  <2> QED
    BY <1>1, <2>4 DEF ChainInv, genesis
<1>8. CallsInv
  <2>1. calls \in Seq(Calls)
    <3> HIDE DEF Calls
    <3> QED
      BY <1>1
  <2> QED
    BY <1>1, <2>1 DEF CallsInv, CallsOK
<1>9. NetInv
  BY <1>1, SizesAreNatural DEF NetInv
<1> QED
  BY <1>2, <1>3, <1>4, <1>5, <1>6, <1>7, <1>8, <1>9 DEF ResponderInv, StoreInv

(* One step per action of Next; the network and the watcher touch nothing   *)
(* of the store.                                                             *)
LEMMA StepInv ==
    ASSUME ResponderInv, [Next]_vars
    PROVE  ResponderInv' /\ StepSays
<1>1. StoreInv /\ ChainInv /\ CallsInv /\ NetInv
  BY DEF ResponderInv
<1> DEFINE Untouched == UNCHANGED <<queue, emptyNonce, transactions, outbox, issued, sent,
                                    failures, overtaken, restored>>
<1>2. ASSUME Untouched, used \subseteq used', ChainInv', CallsInv', NetInv'
      PROVE  ResponderInv' /\ StepSays
  <2>1. StoreInv'
    BY <1>1, <1>2, StoreFrame
  <2>2. StepSays
    BY <1>2, NothingSaid
  <2> QED
    BY <1>2, <2>1, <2>2 DEF ResponderInv
<1>3. ASSUME NEW r \in Response, NEW block \in 1..Len(chain), WatcherStarts(r, block)
      PROVE  ResponderInv' /\ StepSays
  <2>1. Untouched /\ chain' = chain /\ visible' = visible /\ used' = used
    BY <1>3 DEF WatcherStarts, responderVars, networkVars
  <2>2. CallsInv' /\ NetInv'
    BY <1>1, <1>3, StartKeepsCalls
  <2>3. ChainInv'
    BY <1>1, <2>1 DEF ChainInv
  <2> QED
    BY <1>2, <2>1, <2>2, <2>3
<1>4. ASSUME NEW price \in Price, StartResponse(price)
      PROVE  ResponderInv' /\ StepSays
  BY <1>1, <1>4, StartResponseKeeps DEF ResponderInv
<1>5. ASSUME TxMined PROVE ResponderInv' /\ StepSays
  BY <1>1, <1>5, TxMinedKeeps DEF ResponderInv
<1>6. ASSUME ReEnqueueMissingItems PROVE ResponderInv' /\ StepSays
  BY <1>1, <1>6, ReEnqueueKeeps DEF ResponderInv
<1>7. ASSUME EndResponse PROVE ResponderInv' /\ StepSays
  BY <1>1, <1>7, EndResponseKeeps DEF ResponderInv
<1>8. ASSUME CallFails PROVE ResponderInv' /\ StepSays
  BY <1>1, <1>8, CallFailsKeeps DEF ResponderInv
<1>9. ASSUME NEW item \in outbox, Broadcast(item) \/ BroadcastFails(item)
      PROVE  ResponderInv' /\ StepSays
  BY <1>1, <1>9, BroadcastKeeps DEF ResponderInv
<1>10. ASSUME NEW n \in 0..MaxPerBlock, NEW txs \in [1..n -> sent], Mine(txs)
       PROVE  ResponderInv' /\ StepSays
  <2>1. Untouched /\ starts' = starts
    BY <1>10 DEF Mine, responderVars
  <2>2. ChainInv' /\ CallsInv' /\ used \subseteq used'
    BY <1>1, <1>10, MineKeepsChain
  <2>3. NetInv'
    BY <1>1, <2>1 DEF NetInv
  <2> QED
    BY <1>2, <2>1, <2>2, <2>3
<1>11. ASSUME NEW depth \in 1..Confirmations, Reorg(depth)
       PROVE  ResponderInv' /\ StepSays
  <2>1. Untouched /\ starts' = starts
    BY <1>11 DEF Reorg, responderVars
  <2>2. ChainInv' /\ CallsInv' /\ used' = used
    BY <1>1, <1>11, ReorgKeepsChain
  <2>3. NetInv'
    BY <1>1, <2>1 DEF NetInv
  <2> QED
    BY <1>2, <2>1, <2>2, <2>3
<1>12. ASSUME NewBlock PROVE ResponderInv' /\ StepSays
  <2>1. Untouched /\ starts' = starts
    BY <1>12 DEF NewBlock, responderVars, countVars
  <2>2. ChainInv' /\ CallsInv' /\ used' = used
    BY <1>1, <1>12, NewBlockKeepsChain DEF StoreInv
  <2>3. NetInv'
    BY <1>1, <2>1 DEF NetInv
  <2> QED
    BY <1>2, <2>1, <2>2, <2>3
<1>13. ASSUME NewHead PROVE ResponderInv' /\ StepSays
  <2>1. Untouched /\ starts' = starts
    BY <1>13 DEF NewHead, responderVars
  <2>2. ChainInv' /\ CallsInv' /\ used' = used
    BY <1>1, <1>13, NewHeadKeepsChain
  <2>3. NetInv'
    BY <1>1, <2>1 DEF NetInv
  <2> QED
    BY <1>2, <2>1, <2>2, <2>3
<1>14. ASSUME UNCHANGED vars PROVE ResponderInv' /\ StepSays
  <2>1. /\ Untouched
        /\ UNCHANGED <<calls, chain, visible, used, starts>>
    BY <1>14 DEF vars, responderVars, networkVars, countVars
  <2>2. ChainInv' /\ CallsInv' /\ NetInv'
    BY <1>1, <2>1 DEF ChainInv, CallsInv, NetInv
  <2> QED
    BY <1>2, <2>1, <2>2
<1> QED
  BY <1>3, <1>4, <1>5, <1>6, <1>7, <1>8, <1>9, <1>10, <1>11, <1>12, <1>13, <1>14
     DEF Next, Serve

-----------------------------------------------------------------------------
(* What the queue and the chain have to do with each other *)

Asked   == {x.request : x \in issued}
Started == {q.id : q \in Asked}

(* The transactions of the blocks up to b *)
Upto(c, b) == UNION {{c[a].txs[i] : i \in DOMAIN c[a].txs} : a \in 1..b}

(* One transaction at each nonce from the first to the one before f *)
Run(S, f) ==
    /\ f \in Nat /\ f >= FirstNonce
    /\ \A t \in S : t.nonce \in FirstNonce..(f - 1)
    /\ \A n \in FirstNonce..(f - 1) : \E t \in S : t.nonce = n
    /\ \A t, u \in S : t.nonce = u.nonce => t = u

(* Who is in a set of blocks *)
LEMMA UptoHolds ==
    ASSUME NEW c, NEW b
    PROVE  \A t : t \in Upto(c, b) <=> \E a \in 1..b : Holds(c, a, t)
  BY DEF Upto, Holds

(* The same blocks have the same transactions. *)
LEMMA UptoSame ==
    ASSUME NEW c, NEW d, NEW b, \A a \in 1..b : d[a].txs = c[a].txs
    PROVE  Upto(d, b) = Upto(c, b)
  BY DEF Upto

(* A longer chain has those of its blocks, and more. *)
LEMMA UptoMore ==
    ASSUME NEW c, NEW a \in Nat, NEW b \in Nat, a <= b
    PROVE  Upto(c, a) \subseteq Upto(c, b)
<1>1. \A e \in 1..a : e \in 1..b
  OBVIOUS
<1> QED
  BY <1>1 DEF Upto

(* A run has as many transactions as nonces. *)
LEMMA RunSize ==
    ASSUME NEW S, NEW f, Run(S, f)
    PROVE  IsFiniteSet(S) /\ FirstNonce + Cardinality(S) = f
<1> DEFINE g    == [t \in S |-> t.nonce]
           last == f - 1
<1>1. FirstNonce \in Nat /\ f \in Nat /\ f >= FirstNonce
  BY SizesAreNatural DEF Run
<1>2. last \in Int /\ FirstNonce <= last + 1 /\ last - FirstNonce + 1 = f - FirstNonce
  BY <1>1
<1>3. g \in Bijection(S, FirstNonce..last)
  <2>1. /\ \A t \in S : t.nonce \in FirstNonce..last
        /\ \A n \in FirstNonce..last : \E t \in S : t.nonce = n
        /\ \A t, u \in S : t.nonce = u.nonce => t = u
    BY DEF Run
  <2> HIDE DEF last
  <2> QED
    BY <2>1 DEF Bijection, Injection, IsInjective, Surjection
<1> HIDE DEF g, last
<1>4. FirstNonce \in Int
  BY <1>1
<1>5. IsFiniteSet(S) /\ Cardinality(S) = last - FirstNonce + 1
  BY <1>2, <1>3, <1>4, OneEach
<1> QED
  BY <1>1, <1>2, <1>5

(* Two runs of the same transactions end at the same nonce. *)
LEMMA RunEnds ==
    ASSUME NEW S, NEW f, NEW g, Run(S, f), Run(S, g)
    PROVE  f = g
  BY RunSize

-----------------------------------------------------------------------------
(* What each step of the network does to the chain *)

(* What the blocks of the chain have, together and up to each *)
LEMMA ChainShape ==
    ASSUME ChainInv
    PROVE  /\ Len(chain) \in Nat /\ Len(chain) >= 1 /\ DOMAIN chain = 1..Len(chain)
           /\ visible \in Nat
           /\ \A t : t \in Mined <=> t \in Upto(chain, Len(chain))
           /\ \A b \in DOMAIN chain :
                  Upto(chain, b) \subseteq used /\ Upto(chain, b) \subseteq Mined
<1>1. /\ Len(chain) \in Nat /\ Len(chain) >= 1 /\ DOMAIN chain = 1..Len(chain)
      /\ visible \in Nat
      /\ \A b \in DOMAIN chain : \A i \in DOMAIN chain[b].txs : chain[b].txs[i] \in used
  BY BlockTypes DEF ChainInv, ChainOK
<1>2. Mined = Upto(chain, Len(chain))
  BY <1>1 DEF Mined, Upto
<1>3. ASSUME NEW b \in DOMAIN chain
      PROVE  Upto(chain, b) \subseteq used /\ Upto(chain, b) \subseteq Mined
  <2>1. \A a \in 1..b : a \in DOMAIN chain
    BY <1>1
  <2> QED
    BY <1>1, <2>1 DEF Upto, Mined
<1> QED
  BY <1>1, <1>2, <1>3

(* A mined block is put behind the others. *)
LEMMA MineShape ==
    ASSUME ChainInv, NEW n \in 0..MaxPerBlock, NEW txs \in [1..n -> sent], Mine(txs)
    PROVE  /\ Len(chain') = Len(chain) + 1 /\ DOMAIN chain' = 1..(Len(chain) + 1)
           /\ \A b \in DOMAIN chain : chain'[b] = chain[b]
           /\ chain'[Len(chain) + 1] = [txs |-> txs, state |-> <<>>, known |-> FALSE,
                                        emitted |-> FALSE]
           /\ n \in Nat /\ DOMAIN txs = 1..n
           /\ \A i \in 1..n : txs[i] \in sent /\ txs[i].nonce = NextNonce + i - 1
           /\ used' = used \cup {txs[i] : i \in 1..n}
<1> DEFINE block == [txs |-> txs, state |-> <<>>, known |-> FALSE, emitted |-> FALSE]
<1>1. /\ Len(chain) \in Nat /\ DOMAIN chain = 1..Len(chain) /\ chain \in Seq(Blocks)
  BY BlockTypes DEF ChainInv, ChainOK
<1>2. chain' = Append(chain, block)
  BY DEF Mine
<1>3. n \in Nat /\ DOMAIN txs = 1..n
  BY ResponderAssumption
<1>4. \A i \in 1..n : txs[i] \in sent /\ txs[i].nonce = NextNonce + i - 1
  BY <1>3 DEF Mine
<1>5. used' = used \cup {txs[i] : i \in 1..n}
  BY <1>3 DEF Mine
<1> HIDE DEF block
<1>6. /\ Len(chain') = Len(chain) + 1 /\ DOMAIN chain' = 1..(Len(chain) + 1)
      /\ \A b \in 1..Len(chain) : chain'[b] = chain[b]
      /\ chain'[Len(chain) + 1] = block
  BY <1>1, <1>2
<1> QED
  BY <1>1, <1>3, <1>4, <1>5, <1>6 DEF block

(* A reorganisation leaves the first blocks as they are. *)
LEMMA ReorgShape ==
    ASSUME ChainInv, NEW depth \in 1..Confirmations, Reorg(depth)
    PROVE  /\ Len(chain') = Len(chain) - depth /\ Len(chain') \in 1..Len(chain)
           /\ DOMAIN chain' = 1..Len(chain')
           /\ \A b \in DOMAIN chain' : b \in DOMAIN chain /\ chain'[b] = chain[b]
           /\ visible' = IF visible > Len(chain) THEN visible ELSE Len(chain) + 1
           /\ visible - 1 - Len(chain') <= Confirmations
           /\ depth \in Nat /\ depth <= Confirmations
<1> DEFINE n == Len(chain) - depth
<1>1. /\ Len(chain) \in Nat /\ DOMAIN chain = 1..Len(chain) /\ chain \in Seq(Blocks)
      /\ Confirmations \in Nat
  BY BlockTypes, SizesAreNatural DEF ChainInv, ChainOK
<1>2. /\ chain' = SubSeq(chain, 1, n) /\ depth < Len(chain)
      /\ visible' = IF visible > Len(chain) THEN visible ELSE Len(chain) + 1
      /\ visible - 1 - n <= Confirmations
  BY DEF Reorg
<1>3. n \in 1..Len(chain) /\ n \in Nat /\ depth \in Nat /\ depth <= Confirmations
  BY <1>1, <1>2
<1>4. Len(chain') = n /\ DOMAIN chain' = 1..n /\ \A b \in 1..n : chain'[b] = chain[b]
  <2> HIDE DEF n
  <2> QED
    BY <1>1, <1>2, <1>3
<1> QED
  BY <1>1, <1>2, <1>3, <1>4

(* processNewBlock gives the oldest unknown block its state, and no other. *)
LEMMA NewBlockShape ==
    ASSUME ChainInv, NewBlock
    PROVE  \E b \in Unknown :
              /\ \A a \in Unknown : b <= a
              /\ Len(chain') = Len(chain) /\ DOMAIN chain' = DOMAIN chain
              /\ \A a \in DOMAIN chain : /\ chain'[a].txs = chain[a].txs
                                         /\ chain'[a].emitted = chain[a].emitted
              /\ \A a \in DOMAIN chain \ {b} : chain'[a] = chain[a]
              /\ chain'[b].known
              /\ chain'[b].state = [i \in DOMAIN transactions |->
                                       StateAt(transactions[i].request.id, b)]
<1>1. PICK b \in Unknown :
         /\ \A a \in Unknown : b <= a
         /\ chain' = [chain EXCEPT ![b].known = TRUE,
                                   ![b].state = [i \in DOMAIN transactions |->
                                                    StateAt(transactions[i].request.id, b)]]
  BY DEF NewBlock
<1>2. /\ DOMAIN chain = 1..Len(chain) /\ chain \in Seq(Blocks) /\ Len(chain) \in Nat
      /\ b \in DOMAIN chain /\ chain[b] \in Blocks
  BY BlockTypes DEF ChainInv, ChainOK, Unknown
<1> DEFINE state == [i \in DOMAIN transactions |-> StateAt(transactions[i].request.id, b)]
<1>3. chain' = [chain EXCEPT ![b] = [chain[b] EXCEPT !.known = TRUE, !.state = state]]
  BY <1>1
<1> HIDE DEF state
<1>4. /\ DOMAIN chain' = DOMAIN chain /\ Len(chain') = Len(chain)
      /\ \A a \in DOMAIN chain \ {b} : chain'[a] = chain[a]
      /\ chain'[b] = [chain[b] EXCEPT !.known = TRUE, !.state = state]
  BY <1>2, <1>3
<1>5. /\ chain'[b].known /\ chain'[b].state = state
      /\ chain'[b].txs = chain[b].txs /\ chain'[b].emitted = chain[b].emitted
  BY <1>2, <1>4 DEF Blocks
<1> QED
  BY <1>1, <1>4, <1>5 DEF state

(* processNewHead marks the head, and leaves the states as they are. *)
LEMMA NewHeadShape ==
    ASSUME ChainInv, NewHead
    PROVE  /\ Len(chain') = Len(chain) /\ DOMAIN chain' = DOMAIN chain
           /\ \A a \in DOMAIN chain : /\ chain'[a].txs = chain[a].txs
                                      /\ chain'[a].known = chain[a].known
                                      /\ chain'[a].state = chain[a].state
           /\ \A a \in DOMAIN chain \ {Len(chain)} : chain'[a] = chain[a]
           /\ chain'[Len(chain)].emitted
<1>1. chain' = [chain EXCEPT ![Len(chain)] = [chain[Len(chain)] EXCEPT !.emitted = TRUE]]
  BY DEF NewHead
<1>2. /\ DOMAIN chain = 1..Len(chain) /\ chain \in Seq(Blocks) /\ Len(chain) \in Nat
      /\ Len(chain) \in DOMAIN chain /\ chain[Len(chain)] \in Blocks
  BY BlockTypes DEF ChainInv, ChainOK
<1> DEFINE h == Len(chain)
<1>3. /\ DOMAIN chain' = DOMAIN chain /\ Len(chain') = Len(chain)
      /\ \A a \in DOMAIN chain \ {h} : chain'[a] = chain[a]
      /\ chain'[h] = [chain[h] EXCEPT !.emitted = TRUE]
  BY <1>1, <1>2
<1>4. /\ chain'[h].emitted /\ chain'[h].state = chain[h].state
      /\ chain'[h].txs = chain[h].txs /\ chain'[h].known = chain[h].known
  BY <1>2, <1>3 DEF Blocks
<1> QED
  BY <1>3, <1>4
-----------------------------------------------------------------------------
(* What the transactions have to do with the requests, at every step *)

(* Every transaction is one of an item that was issued; who was asked for   *)
(* is in the queue or was mined, and has a record unless it is so deep that *)
(* it stays mined.                                                          *)
LedgerInv ==
    /\ \A t \in sent \cup used : \E x \in issued : TxOf(x) = t
    /\ \A i \in DOMAIN queue : queue[i].request \in Asked
    /\ \A j \in DOMAIN transactions : transactions[j].request \in Asked
    /\ \A r \in Started : r \in Ids(queue) \/ \E t \in used : t.id = r
    /\ \A r \in Started : r \in Tracked \/ Deep(chain, visible, r)

(* Who has a record, or is deep enough to need none, still does. *)
TracksStay ==
    \A r : r \in Tracked \/ Deep(chain, visible, r)
             => r \in Tracked' \/ Deep(chain', visible', r)

(* updateQueue: what it records, and whom it asks for *)
LEMMA UpdateRecords ==
    ASSUME StoreInv, QueueInv', NEW items, NEW nonce, UpdateQueue(items, nonce)
    PROVE  /\ queue' = items /\ Tracked \subseteq Tracked'
           /\ issued' = issued \cup Difference(items, queue)
           /\ \A c \in Difference(items, queue) : c.request.id \in Tracked' \cap Ids(items)
           /\ \A i \in DOMAIN items :
                 \/ items[i] \in Difference(items, queue)
                 \/ \E k \in DOMAIN queue : items[i] = queue[k]
           /\ \A j \in DOMAIN transactions' :
                  \/ \E i \in DOMAIN items : transactions'[j] = items[i]
                  \/ \E k \in DOMAIN transactions : transactions'[j] = transactions[k]
<1>1. queue' = items /\ emptyNonce' = nonce /\ issued' = issued \cup Difference(items, queue)
  BY DEF UpdateQueue
<1>2. items \in Seq(KeptItems) /\ nonce \in Nat /\ WellFormed(items, nonce)
  BY <1>1 DEF QueueInv
<1>3. QueueOf(Observations, items, nonce) /\ \A i \in DOMAIN items : items[i].nonce \in Nat
  BY <1>2, KeptAreItems DEF QueueOf
<1>4. /\ RecordsInv'
      /\ Ids(transactions) \subseteq Ids(transactions')
      /\ \A c \in Difference(items, queue) : c.request.id \in Ids(transactions')
      /\ \A j \in DOMAIN transactions' :
             \/ transactions'[j].request.id \in Ids(items)
             \/ \E k \in DOMAIN transactions : transactions'[j] = transactions[k]
  BY <1>2, <1>3, UpdateKeepsRecords DEF StoreInv
<1>5. ASSUME NEW j \in DOMAIN transactions', transactions'[j].request.id \in Ids(items)
      PROVE  \E i \in DOMAIN items : transactions'[j] = items[i]
  BY <1>1, <1>4, <1>5 DEF RecordsInv, Ids
<1>6. \A c \in Difference(items, queue) : c.request.id \in Ids(items)
  BY DEF Difference, Ids
<1>7. \A i \in DOMAIN items :
          items[i] \in Difference(items, queue) \/ \E k \in DOMAIN queue : items[i] = queue[k]
  BY DEF Difference
<1> QED
  BY <1>1, <1>4, <1>5, <1>6, <1>7 DEF Tracked

(* store.ts:55-71, updateQueue: whoever leaves the queue was mined, and     *)
(* whoever comes into it has a record.                                      *)
LEMMA UpdateKeepsLedger ==
    ASSUME StoreInv, QueueInv', LedgerInv, LeavesMined,
           NEW items, NEW nonce, UpdateQueue(items, nonce),
           UNCHANGED <<chain, visible, used, sent>>
    PROVE  LedgerInv' /\ TracksStay
<1> DEFINE new == Difference(items, queue)
<1>1. /\ queue' = items /\ Tracked \subseteq Tracked' /\ issued' = issued \cup new
      /\ \A c \in new : c.request.id \in Tracked' \cap Ids(items)
      /\ \A i \in DOMAIN items : items[i] \in new \/ \E k \in DOMAIN queue : items[i] = queue[k]
      /\ \A j \in DOMAIN transactions' :
             \/ \E i \in DOMAIN items : transactions'[j] = items[i]
             \/ \E k \in DOMAIN transactions : transactions'[j] = transactions[k]
  BY UpdateRecords
<1> HIDE DEF new
<1>2. /\ \A q \in Asked : q \in Asked'
      /\ \A c \in new : c.request \in Asked'
      /\ \A r \in Started' : r \in Started \/ \E c \in new : r = c.request.id
  BY <1>1 DEF Asked, Started
<1>3. \A i \in DOMAIN items : items[i].request \in Asked'
  BY <1>1, <1>2 DEF LedgerInv
<1>4. \A j \in DOMAIN transactions' : transactions'[j].request \in Asked'
  BY <1>1, <1>2, <1>3 DEF LedgerInv
<1>5. TracksStay
  BY <1>1 DEF TracksStay
<1>6. ASSUME NEW r \in Started'
      PROVE  /\ r \in Ids(queue') \/ \E t \in used' : t.id = r
             /\ r \in Tracked' \/ Deep(chain', visible', r)
  <2>1. CASE r \in Started
    <3>1. r \in Ids(queue) \/ \E t \in used : t.id = r
      BY <2>1 DEF LedgerInv
    <3>2. r \in Tracked \/ Deep(chain, visible, r)
      BY <2>1 DEF LedgerInv
    <3> QED
      BY <1>5, <3>1, <3>2 DEF LeavesMined, TracksStay
  <2>2. CASE \E c \in new : r = c.request.id
    BY <1>1, <2>2
  <2> QED
    BY <1>2, <2>1, <2>2
<1>7. \A t \in sent' \cup used' : \E x \in issued' : TxOf(x) = t
  BY <1>1 DEF LedgerInv
<1>8. LedgerInv'
  <2>1. (\A t \in sent \cup used : \E x \in issued : TxOf(x) = t)'
    BY <1>7 DEF TxOf
  <2>2. (\A i \in DOMAIN queue : queue[i].request \in Asked)'
    BY <1>1, <1>3
  <2>3. (\A j \in DOMAIN transactions : transactions[j].request \in Asked)'
    BY <1>4
  <2>4. (/\ \A r \in Started : r \in Ids(queue) \/ \E t \in used : t.id = r
         /\ \A r \in Started : r \in Tracked \/ Deep(chain, visible, r))'
    BY <1>6
  <2> QED
    BY <2>1, <2>2, <2>3, <2>4 DEF LedgerInv
<1> QED
  BY <1>5, <1>8

(* What does not touch the queue keeps the ledger, if it forgets nobody. *)
LEMMA LedgerFrame ==
    ASSUME LedgerInv, TracksStay, UNCHANGED <<queue, issued>>,
           \A j \in DOMAIN transactions' :
               \E k \in DOMAIN transactions : transactions'[j] = transactions[k],
           used \subseteq used', used' \subseteq used \cup sent,
           \A t \in sent' : t \in sent \/ \E x \in issued : TxOf(x) = t
    PROVE  LedgerInv'
<1>1. Asked' = Asked /\ Started' = Started
  BY DEF Asked, Started
<1>2. (\A t \in sent \cup used : \E x \in issued : TxOf(x) = t)'
  <2>1. \A t \in sent' \cup used' : \E x \in issued : TxOf(x) = t
    BY DEF LedgerInv
  <2> QED
    BY <2>1 DEF TxOf
<1>3. (\A i \in DOMAIN queue : queue[i].request \in Asked)'
  BY <1>1 DEF LedgerInv
<1>4. (\A j \in DOMAIN transactions : transactions[j].request \in Asked)'
  BY <1>1 DEF LedgerInv
<1>5. (\A r \in Started : r \in Ids(queue) \/ \E t \in used : t.id = r)'
  BY <1>1 DEF LedgerInv
<1>6. (\A r \in Started : r \in Tracked \/ Deep(chain, visible, r))'
  <2>1. \A r \in Started : r \in Tracked' \/ Deep(chain', visible', r)
    BY DEF LedgerInv, TracksStay
  <2> QED
    BY <1>1, <2>1
<1> QED
  BY <1>2, <1>3, <1>4, <1>5, <1>6 DEF LedgerInv

(* endResponse forgets the response it is called for, and no other. *)
LEMMA EndForgets ==
    ASSUME ResponderInv, EndResponse
    PROVE  /\ calls # <<>> /\ Call.op = "endResponse" /\ Served
           /\ UNCHANGED <<queue, emptyNonce, outbox, issued, full, overtaken>>
           /\ \A j \in DOMAIN transactions' :
                  \E k \in DOMAIN transactions : transactions'[j] = transactions[k]
           /\ \A r : r \in Tracked' <=> r \in Tracked /\ r # Call.id
           /\ Deep(chain, visible, Call.id)
<1> DEFINE kept == {Record(id) : id \in Tracked \ {Call.id}}
           left == Among(transactions, kept)
<1>1. /\ calls # <<>> /\ Call.op = "endResponse" /\ Served
      /\ transactions' = left
      /\ UNCHANGED <<queue, emptyNonce, outbox, issued, full, overtaken>>
  BY DEF EndResponse, Owner
<1>2. transactions \in Seq(KeptItems) /\ NothingTwice(transactions)
  BY DEF ResponderInv, StoreInv, RecordsInv
<1>3. \A i \in DOMAIN transactions :
          transactions[i].request.id # Call.id => transactions[i] \in kept
  <2>1. ASSUME NEW i \in DOMAIN transactions, transactions[i].request.id # Call.id
        PROVE  transactions[i] \in kept
    <3>1. transactions[i].request.id \in Tracked \ {Call.id}
      BY <2>1 DEF Tracked, Ids
    <3>2. transactions[i] = Record(transactions[i].request.id)
      BY <1>2, RecordIsKept
    <3> QED
      BY <3>1, <3>2
  <2> QED
    BY <2>1
<1>4. \A x \in kept : x.request.id # Call.id
  BY <1>2, RecordIsKept
<1> HIDE DEF kept
<1>5. /\ \A k \in DOMAIN left : left[k] \in kept
      /\ \A i \in DOMAIN transactions :
             transactions[i] \in kept => \E k \in DOMAIN left : left[k] = transactions[i]
  BY <1>2, AmongSelects
<1>6. \A k \in DOMAIN left : \E i \in DOMAIN transactions : left[k] = transactions[i]
  <2>1. PICK nth \in [DOMAIN left -> DOMAIN transactions] :
           \A k \in DOMAIN left : left[k] = transactions[nth[k]]
    BY <1>2, AmongSelects
  <2> QED
    BY <2>1
<1> HIDE DEF left
<1>7. \A r : r \in Ids(left) <=> r \in Ids(transactions) /\ r # Call.id
  <2>1. \A r \in Ids(left) : r \in Ids(transactions) /\ r # Call.id
    BY <1>4, <1>5, <1>6 DEF Ids
  <2>2. ASSUME NEW r \in Ids(transactions), r # Call.id PROVE r \in Ids(left)
    <3>1. PICK i \in DOMAIN transactions : transactions[i].request.id = r
      BY DEF Ids
    <3>2. PICK k \in DOMAIN left : left[k] = transactions[i]
      BY <1>3, <1>5, <2>2, <3>1
    <3> QED
      BY <3>1, <3>2 DEF Ids
  <2> QED
    BY <2>1, <2>2
<1>8. \A r : r \in Tracked' <=> r \in Tracked /\ r # Call.id
  BY <1>1, <1>7 DEF Tracked
<1>9. Deep(chain, visible, Call.id)
  <2>1. CallOK(chain, visible, used, Call)
    BY <1>1, ServedKeepsCalls DEF ResponderInv
  <2> QED
    BY <1>1, <2>1 DEF CallOK
<1> QED
  BY <1>1, <1>6, <1>8, <1>9

(* What is served is an update, or none at all. *)
LEMMA ServedUpdates ==
    ASSUME (\E price \in Price : StartResponse(price)) \/ TxMined \/ ReEnqueueMissingItems
    PROVE  /\ calls # <<>> /\ Served
           /\ \/ NoUpdate
              \/ \E items, nonce : UpdateQueue(items, nonce)
<1>1. CASE \E price \in Price : StartResponse(price)
  BY <1>1 DEF StartResponse, Owner
<1>2. CASE TxMined
  BY <1>2 DEF TxMined, Owner
<1>3. CASE ReEnqueueMissingItems
  BY <1>3 DEF ReEnqueueMissingItems, Owner
<1> QED
  BY <1>1, <1>2, <1>3

(* The steps that are none of the network's keep the chain. *)
LEMMA ChainIsKept ==
    ASSUME \/ \E r \in Response, block \in 1..Len(chain) : WatcherStarts(r, block)
           \/ Serve \/ CallFails
           \/ \E item \in outbox : Broadcast(item) \/ BroadcastFails(item)
           \/ UNCHANGED vars
    PROVE  UNCHANGED <<chain, visible, used, reorgs>>
<1>1. CASE \E r \in Response, block \in 1..Len(chain) : WatcherStarts(r, block)
  BY <1>1 DEF WatcherStarts, networkVars
<1>2. CASE Serve
  BY <1>2 DEF Serve, StartResponse, TxMined, ReEnqueueMissingItems, EndResponse, Served, networkVars
<1>3. CASE CallFails
  BY <1>3 DEF CallFails, networkVars, countVars
<1>4. CASE \E item \in outbox : Broadcast(item) \/ BroadcastFails(item)
  BY <1>4 DEF Broadcast, BroadcastFails, networkVars, countVars
<1>5. CASE UNCHANGED vars
  BY <1>5 DEF vars, networkVars, countVars
<1> QED
  BY <1>1, <1>2, <1>3, <1>4, <1>5

(* The steps that are served no call keep the queue and its records. *)
LEMMA StoreIsKept ==
    ASSUME \/ \E r \in Response, block \in 1..Len(chain) : WatcherStarts(r, block)
           \/ CallFails
           \/ \E item \in outbox : Broadcast(item) \/ BroadcastFails(item)
           \/ \E n \in 0..MaxPerBlock : \E txs \in [1..n -> sent] : Mine(txs)
           \/ \E depth \in 1..Confirmations : Reorg(depth)
           \/ NewBlock \/ NewHead \/ UNCHANGED vars
    PROVE  UNCHANGED <<queue, emptyNonce, transactions, issued, overtaken>>
<1>1. CASE \E r \in Response, block \in 1..Len(chain) : WatcherStarts(r, block)
  BY <1>1 DEF WatcherStarts, responderVars
<1>2. CASE CallFails
  BY <1>2 DEF CallFails, NoUpdate, responderVars, countVars
<1>3. CASE \E item \in outbox : Broadcast(item) \/ BroadcastFails(item)
  BY <1>3 DEF Broadcast, BroadcastFails, responderVars, countVars
<1>4. CASE \E n \in 0..MaxPerBlock : \E txs \in [1..n -> sent] : Mine(txs)
  BY <1>4 DEF Mine, responderVars
<1>5. CASE \E depth \in 1..Confirmations : Reorg(depth)
  BY <1>5 DEF Reorg, responderVars
<1>6. CASE NewBlock
  BY <1>6 DEF NewBlock, responderVars, countVars
<1>7. CASE NewHead
  BY <1>7 DEF NewHead, responderVars
<1>8. CASE UNCHANGED vars
  BY <1>8 DEF vars, responderVars, countVars
<1> QED
  BY <1>1, <1>2, <1>3, <1>4, <1>5, <1>6, <1>7, <1>8

(* No step makes what is deep less so. *)
LEMMA DeepIsKept ==
    ASSUME ResponderInv, [Next]_vars
    PROVE  DeepStays
<1>1. ChainInv /\ CallsInv /\ NetInv /\ RecordsInv
  BY DEF ResponderInv, StoreInv
<1>2. CASE UNCHANGED <<chain, visible>>
  BY <1>2 DEF DeepStays
<1>3. CASE \E n \in 0..MaxPerBlock : \E txs \in [1..n -> sent] : Mine(txs)
  BY <1>1, <1>3, MineKeepsChain
<1>4. CASE \E depth \in 1..Confirmations : Reorg(depth)
  BY <1>1, <1>4, ReorgKeepsChain
<1>5. CASE NewBlock
  BY <1>1, <1>5, NewBlockKeepsChain
<1>6. CASE NewHead
  BY <1>1, <1>6, NewHeadKeepsChain
<1> QED
  BY <1>2, <1>3, <1>4, <1>5, <1>6, ChainIsKept DEF Next

(* The ledger is kept by every step. *)
LEMMA LedgerStep ==
    ASSUME ResponderInv, ResponderInv', LeavesMined, LedgerInv, [Next]_vars
    PROVE  LedgerInv' /\ TracksStay
<1>1. DeepStays
  BY DeepIsKept
<1>2. StoreInv /\ QueueInv'
  BY DEF ResponderInv, StoreInv
<1>3. ASSUME transactions' = transactions PROVE TracksStay
  BY <1>1, <1>3 DEF TracksStay, DeepStays, Tracked
<1>4. ASSUME UNCHANGED <<queue, transactions, issued>>, used \subseteq used',
             used' \subseteq used \cup sent,
             \A t \in sent' : t \in sent \/ \E x \in issued : TxOf(x) = t
      PROVE  LedgerInv' /\ TracksStay
  BY <1>3, <1>4, LedgerFrame
<1>5. CASE (\E price \in Price : StartResponse(price)) \/ TxMined \/ ReEnqueueMissingItems
  <2>1. UNCHANGED <<chain, visible, used, sent>>
    BY <1>5, ServedUpdates DEF Served, networkVars
  <2>2. CASE NoUpdate
    BY <1>4, <2>1, <2>2 DEF NoUpdate, responderVars
  <2>3. CASE \E items, nonce : UpdateQueue(items, nonce)
    BY <1>2, <2>1, <2>3, UpdateKeepsLedger
  <2> QED
    BY <1>5, <2>2, <2>3, ServedUpdates
<1>6. CASE EndResponse
  <2>1. /\ Served /\ UNCHANGED <<queue, issued>>
        /\ \A j \in DOMAIN transactions' :
               \E k \in DOMAIN transactions : transactions'[j] = transactions[k]
        /\ \A r : r \in Tracked' <=> r \in Tracked /\ r # Call.id
        /\ Deep(chain, visible, Call.id)
    BY <1>6, EndForgets
  <2>2. UNCHANGED <<chain, visible, used, sent>>
    BY <2>1 DEF Served, networkVars
  <2>3. TracksStay
    BY <1>1, <2>1 DEF TracksStay, DeepStays
  <2> QED
    BY <2>1, <2>2, <2>3, LedgerFrame
<1>7. CASE \E item \in outbox : Broadcast(item) \/ BroadcastFails(item)
  <2>1. PICK item \in outbox : Broadcast(item) \/ BroadcastFails(item)
    BY <1>7
  <2>2. UNCHANGED <<queue, transactions, issued, used>> /\ sent' \subseteq sent \cup {TxOf(item)}
    BY <2>1 DEF Broadcast, BroadcastFails, responderVars, networkVars, TxOf
  <2>3. item \in issued
    BY DEF ResponderInv, StoreInv, IssuedInv
  <2> QED
    BY <1>4, <2>2, <2>3
<1>8. CASE \E n \in 0..MaxPerBlock : \E txs \in [1..n -> sent] : Mine(txs)
  <2>0. PICK n \in 0..MaxPerBlock : \E txs \in [1..n -> sent] : Mine(txs)
    BY <1>8
  <2>1. PICK txs \in [1..n -> sent] : Mine(txs)
    BY <2>0
  <2>2. /\ UNCHANGED <<queue, transactions, issued, sent>>
        /\ used' = used \cup {txs[i] : i \in 1..n} /\ \A i \in 1..n : txs[i] \in sent
    BY <2>1 DEF Mine, responderVars
  <2> QED
    BY <1>4, <2>2
<1>9. CASE \/ \E r \in Response, block \in 1..Len(chain) : WatcherStarts(r, block)
           \/ CallFails \/ UNCHANGED vars
           \/ \E depth \in 1..Confirmations : Reorg(depth)
           \/ NewBlock \/ NewHead
  <2>1. UNCHANGED <<queue, transactions, issued>>
    BY <1>9, StoreIsKept
  <2>2. UNCHANGED <<used, sent>>
    BY <1>9 DEF WatcherStarts, CallFails, vars, Reorg, NewBlock, NewHead, networkVars
  <2> QED
    BY <1>4, <2>1, <2>2
<1> QED
  BY <1>5, <1>6, <1>7, <1>8, <1>9 DEF Next, Serve

-----------------------------------------------------------------------------
(* The nonces of the chain *)

(* The transactions up to each block are one at each nonce, and are there   *)
(* only once.                                                               *)
NoncesInv ==
    /\ \A b \in DOMAIN chain : \E f : Run(Upto(chain, b), f)
    /\ \A a, b \in DOMAIN chain : \A t : Holds(chain, a, t) /\ Holds(chain, b, t) => a = b

(* Where the blocks that remain are as they were, so are their nonces. *)
LEMMA NoncesFrame ==
    ASSUME ChainInv, ChainInv', NoncesInv,
           \A b \in DOMAIN chain' : b \in DOMAIN chain /\ chain'[b].txs = chain[b].txs
    PROVE  NoncesInv'
<1>1. DOMAIN chain' = 1..Len(chain') /\ Len(chain') \in Nat
  BY BlockTypes DEF ChainInv, ChainOK
<1>2. ASSUME NEW b \in DOMAIN chain' PROVE Upto(chain', b) = Upto(chain, b)
  <2>1. \A a \in 1..b : chain'[a].txs = chain[a].txs
    BY <1>1
  <2> QED
    BY <2>1, UptoSame
<1>3. (\A b \in DOMAIN chain : \E f : Run(Upto(chain, b), f))'
  BY <1>2 DEF NoncesInv
<1>4. \A b \in DOMAIN chain' : \A t : Holds(chain', b, t) <=> Holds(chain, b, t)
  BY DEF Holds
<1>5. (\A a, b \in DOMAIN chain : \A t : Holds(chain, a, t) /\ Holds(chain, b, t) => a = b)'
  BY <1>4 DEF NoncesInv
<1> QED
  BY <1>3, <1>5 DEF NoncesInv

(* The next nonce is the one after those of the chain. *)
LEMMA NextAfterMined ==
    ASSUME ChainInv, NoncesInv
    PROVE  Run(Mined, NextNonce)
<1>1. Len(chain) \in DOMAIN chain /\ \A t : t \in Mined <=> t \in Upto(chain, Len(chain))
  BY ChainShape
<1>2. Mined = Upto(chain, Len(chain))
  BY <1>1
<1>3. PICK f : Run(Mined, f)
  BY <1>1, <1>2 DEF NoncesInv
<1>4. FirstNonce + Cardinality(Mined) = f
  BY <1>3, RunSize
<1> QED
  BY <1>3, <1>4 DEF NextNonce

(* A block goes on from the nonce that is next. *)
LEMMA MineNonces ==
    ASSUME ChainInv, NoncesInv, NEW n \in 0..MaxPerBlock, NEW txs \in [1..n -> sent], Mine(txs)
    PROVE  NoncesInv'
<1> DEFINE f    == NextNonce
           last == Len(chain) + 1
<1>1. /\ Len(chain') = last /\ DOMAIN chain' = 1..last
      /\ \A b \in DOMAIN chain : chain'[b] = chain[b]
      /\ chain'[last] = [txs |-> txs, state |-> <<>>, known |-> FALSE, emitted |-> FALSE]
      /\ n \in Nat /\ DOMAIN txs = 1..n
      /\ \A i \in 1..n : txs[i] \in sent /\ txs[i].nonce = NextNonce + i - 1
  BY MineShape
<1>2. /\ Len(chain') = last /\ DOMAIN chain' = 1..last
      /\ \A b \in DOMAIN chain : chain'[b] = chain[b]
      /\ chain'[last].txs = txs
      /\ n \in Nat /\ DOMAIN txs = 1..n
      /\ \A i \in 1..n : txs[i] \in sent /\ txs[i].nonce = NextNonce + i - 1
  BY <1>1
<1>3. /\ Len(chain) \in Nat /\ DOMAIN chain = 1..Len(chain)
      /\ \A b \in DOMAIN chain : Upto(chain, b) \subseteq Mined
  BY ChainShape
<1>4. Run(Mined, f)
  BY NextAfterMined
<1>5. f \in Nat /\ FirstNonce \in Nat /\ f >= FirstNonce
  BY <1>4, SizesAreNatural DEF Run
<1> HIDE DEF f
<1>6. last \in Nat /\ DOMAIN chain' = DOMAIN chain \cup {last} /\ last \notin DOMAIN chain
  BY <1>2, <1>3
<1>7. \A i \in 1..n : txs[i].nonce = f + i - 1
  BY <1>2 DEF f
<1>8. ASSUME NEW b \in DOMAIN chain
      PROVE  /\ Upto(chain', b) = Upto(chain, b)
             /\ \A t : Holds(chain', b, t) <=> Holds(chain, b, t)
  <2>1. \A a \in 1..b : chain'[a].txs = chain[a].txs
    BY <1>2, <1>3
  <2> QED
    BY <1>2, <2>1, UptoSame DEF Holds
<1>9. \A t : Holds(chain', last, t) <=> \E i \in 1..n : t = txs[i]
  BY <1>2 DEF Holds
<1>10. ASSUME NEW b \in DOMAIN chain, NEW t, Holds(chain, b, t)
      PROVE  t \in Mined /\ t.nonce \in FirstNonce..(f - 1)
  <2>1. b \in 1..b
    BY <1>3
  <2>2. t \in Mined
    BY <1>3, <1>10, <2>1, UptoHolds
  <2> QED
    BY <1>4, <2>2 DEF Run
<1>11. \A t : t \in Upto(chain', last) <=> t \in Mined \/ \E i \in 1..n : t = txs[i]
  <2>1. \A t : t \in Mined <=> \E a \in DOMAIN chain : Holds(chain, a, t)
    BY <1>3, ChainShape, UptoHolds
  <2>2. \A t : t \in Upto(chain', last) <=> \E a \in 1..last : Holds(chain', a, t)
    BY UptoHolds
  <2> HIDE DEF last
  <2>3. \A t : t \in Upto(chain', last) <=> \/ \E a \in DOMAIN chain : Holds(chain', a, t)
                                           \/ Holds(chain', last, t)
    BY <1>2, <1>6, <2>2
  <2> QED
    BY <1>8, <1>9, <2>1, <2>3
<1> DEFINE S == Upto(chain', last)
           g == f + n
<1>12. \A t : t \in S <=> t \in Mined \/ \E i \in 1..n : t = txs[i]
  BY <1>11
<1> HIDE DEF S
<1>13. g \in Nat /\ g >= f
  BY <1>2, <1>5
<1>14. Run(S, g)
  <2>1. ASSUME NEW t \in S
        PROVE  /\ t.nonce \in FirstNonce..(g - 1)
               /\ t.nonce \in Nat
               /\ \/ t \in Mined /\ t.nonce < f
                  \/ \E i \in 1..n : t = txs[i] /\ t.nonce = f + i - 1
    <3>1. CASE t \in Mined
      <4>1. t.nonce \in FirstNonce..(f - 1)
        BY <1>4, <3>1 DEF Run
      <4> QED
        BY <1>2, <1>5, <3>1, <4>1
    <3>2. CASE \E i \in 1..n : t = txs[i]
      <4>1. PICK i \in 1..n : t = txs[i]
        BY <3>2
      <4> QED
        BY <1>2, <1>5, <1>7, <4>1
    <3> QED
      BY <1>12, <3>1, <3>2
  <2>2. ASSUME NEW m \in FirstNonce..(g - 1) PROVE \E t \in S : t.nonce = m
    <3>1. CASE m < f
      <4>1. m \in FirstNonce..(f - 1)
        BY <1>5, <3>1
      <4> QED
        BY <1>4, <1>12, <4>1 DEF Run
    <3>2. CASE m >= f
      <4>1. m - f + 1 \in 1..n /\ f + (m - f + 1) - 1 = m
        BY <1>2, <1>5, <3>2
      <4> QED
        BY <1>7, <1>12, <4>1
    <3> QED
      BY <1>5, <3>1, <3>2
  <2>3. ASSUME NEW t \in S, NEW u \in S, t.nonce = u.nonce
        PROVE  t = u
    <3>1. CASE t.nonce < f
      <4>1. t \in Mined /\ u \in Mined
        BY <1>5, <2>1, <2>3, <3>1
      <4> QED
        BY <1>4, <2>3, <4>1 DEF Run
    <3>2. CASE ~(t.nonce < f)
      <4>1. PICK i \in 1..n : t = txs[i] /\ t.nonce = f + i - 1
        BY <2>1, <3>2
      <4>2. PICK j \in 1..n : u = txs[j] /\ u.nonce = f + j - 1
        BY <2>1, <2>3, <3>2
      <4>3. i = j
        BY <1>5, <2>3, <4>1, <4>2
      <4> QED
        BY <4>1, <4>2, <4>3
    <3> QED
      BY <3>1, <3>2
  <2> QED
    BY <1>5, <1>13, <2>1, <2>2, <2>3 DEF Run
<1>15. (\A b \in DOMAIN chain : \E e : Run(Upto(chain, b), e))'
  <2>1. ASSUME NEW b \in DOMAIN chain' PROVE \E e : Run(Upto(chain', b), e)
    <3>1. CASE b \in DOMAIN chain
      BY <1>8, <3>1 DEF NoncesInv
    <3>2. CASE b = last
      BY <1>14, <3>2 DEF S
    <3> QED
      BY <1>6, <3>1, <3>2
  <2> QED
    BY <2>1
<1>16. ASSUME NEW a \in DOMAIN chain', NEW b \in DOMAIN chain', NEW t,
              Holds(chain', a, t), Holds(chain', b, t)
       PROVE  a = b
  <2>1. CASE a \in DOMAIN chain /\ b \in DOMAIN chain
    BY <1>8, <1>16, <2>1 DEF NoncesInv
  <2>2. ASSUME NEW c \in DOMAIN chain, Holds(chain, c, t), Holds(chain', last, t) PROVE FALSE
    <3>1. t.nonce \in FirstNonce..(f - 1)
      BY <1>10, <2>2
    <3>2. PICK i \in 1..n : t = txs[i]
      BY <1>9, <2>2
    <3> QED
      BY <1>5, <1>7, <3>1, <3>2
  <2> QED
    BY <1>6, <1>8, <1>16, <2>1, <2>2
<1> QED
  BY <1>15, <1>16 DEF NoncesInv

(* The nonces of the chain are kept by every step. *)
LEMMA NoncesStep ==
    ASSUME ResponderInv, ResponderInv', NoncesInv, [Next]_vars
    PROVE  NoncesInv'
<1>1. ChainInv /\ ChainInv' /\ CallsInv
  BY DEF ResponderInv
<1>2. CASE chain' = chain
  BY <1>1, <1>2, NoncesFrame
<1>3. CASE \E n \in 0..MaxPerBlock : \E txs \in [1..n -> sent] : Mine(txs)
  BY <1>1, <1>3, MineNonces
<1>4. CASE \E depth \in 1..Confirmations : Reorg(depth)
  BY <1>1, <1>4, NoncesFrame, ReorgShape
<1>5. CASE NewBlock
  BY <1>1, <1>5, NoncesFrame, NewBlockShape
<1>6. CASE NewHead
  BY <1>1, <1>6, NoncesFrame, NewHeadShape
<1> QED
  BY <1>2, <1>3, <1>4, <1>5, <1>6, ChainIsKept DEF Next

-----------------------------------------------------------------------------
(* The blocks that the tower knows *)

EachOnce(state) == \A i, j \in DOMAIN state : state[i].id = state[j].id => i = j

(* The tower knows a block after those below it, and of each response at    *)
(* most one state; no reorganisation is deeper than the confirmations.      *)
HeadsInv ==
    /\ reorgs \in Nat
    /\ Top(chain, visible) <= Len(chain) + Confirmations
    /\ chain[1].emitted
    /\ \A b \in DOMAIN chain : chain[b].emitted => chain[b].known
    /\ \A b \in DOMAIN chain : \A a \in 1..b : chain[b].known => chain[a].known
    /\ \A b \in DOMAIN chain : EachOnce(chain[b].state)
    /\ \A b \in DOMAIN chain : \A i \in DOMAIN chain[b].state :
           chain[b].state[i].id \in Tracked \/ Deep(chain, visible, chain[b].state[i].id)

(* The blocks there were are as they were, and a new one is not known. *)
LEMMA HeadsFrame ==
    ASSUME ChainInv, ChainInv', HeadsInv, TracksStay, reorgs' \in Nat,
           Top(chain', visible') <= Len(chain') + Confirmations,
           \A b \in DOMAIN chain' :
              IF b \in DOMAIN chain THEN chain'[b] = chain[b]
              ELSE ~chain'[b].known /\ ~chain'[b].emitted /\ chain'[b].state = <<>>
    PROVE  HeadsInv'
<1>1. /\ DOMAIN chain' = 1..Len(chain') /\ Len(chain') \in Nat
      /\ DOMAIN chain = 1..Len(chain) /\ Len(chain) \in Nat
  BY BlockTypes DEF ChainInv, ChainOK
<1>2. ASSUME NEW b \in DOMAIN chain'
      PROVE  /\ chain'[b].emitted => chain'[b].known
             /\ EachOnce(chain'[b].state)
             /\ \A i \in DOMAIN chain'[b].state :
                    \/ chain'[b].state[i].id \in Tracked'
                    \/ Deep(chain', visible', chain'[b].state[i].id)
  <2>1. CASE b \in DOMAIN chain /\ chain'[b] = chain[b]
    BY <2>1 DEF HeadsInv, TracksStay
  <2>2. CASE ~chain'[b].known /\ ~chain'[b].emitted /\ chain'[b].state = <<>>
    BY <2>2 DEF EachOnce
  <2> QED
    BY <2>1, <2>2
<1>3. ASSUME NEW b \in DOMAIN chain', NEW a \in 1..b, chain'[b].known
      PROVE  chain'[a].known
  <2>1. b \in DOMAIN chain /\ chain'[b] = chain[b]
    BY <1>3
  <2>2. a \in DOMAIN chain' /\ a \in DOMAIN chain
    BY <1>1, <2>1
  <2>3. chain[a].known
    BY <1>3, <2>1 DEF HeadsInv
  <2> QED
    BY <2>2, <2>3
<1>4. 1 \in DOMAIN chain /\ 1 \in DOMAIN chain'
  BY <1>1 DEF ChainInv, ChainOK
<1>5. chain'[1].emitted
  BY <1>4 DEF HeadsInv
<1> QED
  BY <1>2, <1>3, <1>5 DEF HeadsInv

(* component.ts:94-106: the state of a response is of this response. *)
LEMMA StateIsOf ==
    ASSUME ChainInv, NEW r \in Response, NEW b \in DOMAIN chain,
           Record(r).request.observed \in Nat \ {0}
    PROVE  /\ StateAt(r, b).id = r
           /\ ~StateAt(r, b).mined =>
                 \/ b > 1 /\ Find(r, b) = {} /\ \E s \in Entry(b - 1, r) : ~s.mined
                 \/ \A a \in Record(r).request.observed..b : Find(r, a) = {}
<1>1. DOMAIN chain = 1..Len(chain) /\ Len(chain) \in Nat
  BY BlockTypes DEF ChainInv, ChainOK
<1> DEFINE from  == Record(r).request.observed
           found == UNION {Find(r, a) : a \in from..b}
           last  == CHOOSE s \in found : \A t \in found : t.block <= s.block
<1>2. InitialState(r, b) = IF found = {} THEN Pending(r) ELSE last
  BY DEF InitialState
<1>3. ASSUME NEW a \in DOMAIN chain, NEW s \in Find(r, a) PROVE s.id = r /\ s.mined
  BY DEF Find
<1>4. \A a \in from..b : a \in DOMAIN chain
  BY <1>1
<1>5. ASSUME NEW s \in found PROVE s.mined /\ s.id = r /\ s.block \in 1..b
  <2>1. PICK a \in from..b : s \in Find(r, a)
    BY <1>5
  <2>2. a \in DOMAIN chain /\ a \in 1..b
    BY <1>1, <2>1
  <2>3. s.mined /\ s.block = a
    BY <2>1, <2>2, FoundIsThere DEF ChainInv
  <2> QED
    BY <1>3, <2>1, <2>2, <2>3
<1>6. \A a \in from..b : \A s \in Find(r, a) : s \in found
  OBVIOUS
<1> HIDE DEF found
<1>7. ASSUME found # {} PROVE last \in found
  <2> DEFINE heights == {b - s.block : s \in found}
  <2>1. heights \subseteq Nat /\ heights # {}
    BY <1>1, <1>5, <1>7
  <2>2. \E h \in heights : \A g \in heights : h <= g
    <3> HIDE DEF heights
    <3> QED
      BY <2>1, LeastPlace
  <2>3. PICK s \in found : \A g \in heights : b - s.block <= g
    BY <2>2
  <2>4. \A t \in found : b - s.block <= b - t.block
    BY <2>3
  <2>5. \A t \in found : t.block <= s.block
    BY <1>1, <1>5, <2>4
  <2> QED
    BY <2>5
<1> HIDE DEF last
<1>8. /\ InitialState(r, b).id = r
      /\ ~InitialState(r, b).mined => \A a \in from..b : Find(r, a) = {}
  <2>1. CASE found = {}
    <3>1. InitialState(r, b) = Pending(r) /\ \A a \in from..b : Find(r, a) = {}
      BY <1>2, <1>6, <2>1
    <3> QED
      BY <3>1 DEF Pending
  <2>2. CASE found # {}
    BY <1>2, <1>5, <1>7, <2>2
  <2> QED
    BY <2>1, <2>2
<1> DEFINE before == IF b > 1 THEN {chain[b-1].state[i] : i \in DOMAIN chain[b-1].state}
                     ELSE {}
           mine   == {s \in before : s.id = r}
           prev   == CHOOSE s \in mine : TRUE
<1>9. StateAt(r, b) = IF mine = {} THEN InitialState(r, b)
                      ELSE IF prev.mined \/ Find(r, b) = {} THEN prev
                      ELSE CHOOSE s \in Find(r, b) : TRUE
  BY DEF StateAt
<1>10. ASSUME mine # {} PROVE prev.id = r /\ b > 1 /\ prev \in Entry(b - 1, r)
  BY <1>10 DEF Entry
<1> HIDE DEF mine, prev
<1>11. CASE mine = {}
  BY <1>8, <1>9, <1>11
<1>12. CASE mine # {} /\ (prev.mined \/ Find(r, b) = {})
  BY <1>9, <1>10, <1>12
<1>13. CASE mine # {} /\ ~prev.mined /\ Find(r, b) # {}
  <2> DEFINE s == CHOOSE t \in Find(r, b) : TRUE
  <2>1. s \in Find(r, b) /\ StateAt(r, b) = s
    BY <1>9, <1>13
  <2> HIDE DEF s
  <2> QED
    BY <1>3, <2>1
<1> QED
  BY <1>11, <1>12, <1>13

(* A block is known once what it says of the tracked responses is. *)
LEMMA NewBlockKeepsHeads ==
    ASSUME ResponderInv, ChainInv', HeadsInv, TracksStay, NewBlock
    PROVE  HeadsInv'
<1>1. PICK b \in Unknown :
         /\ \A a \in Unknown : b <= a
         /\ Len(chain') = Len(chain) /\ DOMAIN chain' = DOMAIN chain
         /\ \A a \in DOMAIN chain : /\ chain'[a].txs = chain[a].txs
                                    /\ chain'[a].emitted = chain[a].emitted
         /\ \A a \in DOMAIN chain \ {b} : chain'[a] = chain[a]
         /\ chain'[b].known
         /\ chain'[b].state = [i \in DOMAIN transactions |->
                                  StateAt(transactions[i].request.id, b)]
  BY NewBlockShape DEF ResponderInv
<1>2. UNCHANGED <<transactions, visible, reorgs>>
  BY DEF NewBlock, responderVars, countVars
<1>3. /\ DOMAIN chain = 1..Len(chain) /\ Len(chain) \in Nat /\ Len(chain) >= 1
      /\ b \in DOMAIN chain /\ ~chain[b].known
  BY BlockTypes DEF ResponderInv, ChainInv, ChainOK, Unknown
<1>4. \A a \in 1..(b - 1) : a \in DOMAIN chain /\ chain[a].known
  BY <1>1, <1>3 DEF Unknown
<1>5. transactions \in Seq(KeptItems) /\ NothingTwice(transactions)
  BY DEF ResponderInv, StoreInv, RecordsInv
<1>6. ASSUME NEW i \in DOMAIN transactions
      PROVE  /\ StateAt(transactions[i].request.id, b).id = transactions[i].request.id
             /\ transactions[i].request.id \in Tracked
  <2>1. transactions[i] \in KeptItems
    BY <1>5
  <2>2. transactions[i].request \in Observations
    BY <2>1 DEF KeptItems
  <2>3. /\ transactions[i].request.id \in Response
        /\ transactions[i].request.observed \in Nat \ {0}
    BY <2>2 DEF Observations
  <2>4. Record(transactions[i].request.id) = transactions[i]
    BY <1>5, RecordIsKept
  <2>5. transactions[i].request.id \in Tracked
    BY DEF Tracked, Ids
  <2> QED
    BY <1>3, <2>3, <2>4, <2>5, StateIsOf DEF ResponderInv
<1>7. /\ EachOnce(chain'[b].state)
      /\ \A i \in DOMAIN chain'[b].state : chain'[b].state[i].id \in Tracked'
  BY <1>1, <1>2, <1>5, <1>6 DEF EachOnce, NothingTwice, Tracked
<1>8. \A a \in DOMAIN chain' : chain'[a].emitted => chain'[a].known
  BY <1>1 DEF HeadsInv
<1>9. ASSUME NEW c \in DOMAIN chain', NEW a \in 1..c, chain'[c].known PROVE chain'[a].known
  <2>1. c \in DOMAIN chain /\ a \in DOMAIN chain
    BY <1>1, <1>3
  <2>2. CASE a = b
    BY <1>1, <2>2
  <2>3. CASE a # b /\ c = b
    <3>1. a \in 1..(b - 1)
      BY <1>3, <2>3
    <3> QED
      BY <1>1, <1>4, <2>1, <2>3, <3>1
  <2>4. CASE a # b /\ c # b
    BY <1>1, <1>9, <2>1, <2>4 DEF HeadsInv
  <2> QED
    BY <2>2, <2>3, <2>4
<1>10. ASSUME NEW a \in DOMAIN chain'
       PROVE  /\ EachOnce(chain'[a].state)
              /\ \A i \in DOMAIN chain'[a].state :
                     \/ chain'[a].state[i].id \in Tracked'
                     \/ Deep(chain', visible', chain'[a].state[i].id)
  <2>1. CASE a = b
    BY <1>7, <2>1
  <2>2. CASE a # b
    BY <1>1, <2>2 DEF HeadsInv, TracksStay
  <2> QED
    BY <2>1, <2>2
<1>11. /\ reorgs' \in Nat /\ chain'[1].emitted
       /\ Top(chain', visible') <= Len(chain') + Confirmations
  <2>1. 1 \in DOMAIN chain
    BY <1>3
  <2> QED
    BY <1>1, <1>2, <2>1 DEF HeadsInv, Top
<1> QED
  BY <1>8, <1>9, <1>10, <1>11 DEF HeadsInv

(* What the tower knows of the blocks is kept by every step. *)
LEMMA HeadsStep ==
    ASSUME ResponderInv, ResponderInv', HeadsInv, TracksStay, [Next]_vars
    PROVE  HeadsInv'
<1>1. ChainInv /\ ChainInv'
  BY DEF ResponderInv
<1>2. /\ DOMAIN chain = 1..Len(chain) /\ Len(chain) \in Nat /\ Len(chain) >= 1
      /\ visible \in Nat /\ Confirmations \in Nat /\ reorgs \in Nat
  BY <1>1, ChainShape, SizesAreNatural DEF HeadsInv
<1>3. CASE UNCHANGED <<chain, visible, reorgs>>
  <2>1. Top(chain', visible') <= Len(chain') + Confirmations
    BY <1>3 DEF HeadsInv
  <2> QED
    BY <1>1, <1>2, <1>3, <2>1, HeadsFrame
<1>4. CASE \E n \in 0..MaxPerBlock : \E txs \in [1..n -> sent] : Mine(txs)
  <2>1. PICK n \in 0..MaxPerBlock : \E txs \in [1..n -> sent] : Mine(txs)
    BY <1>4
  <2>2. PICK txs \in [1..n -> sent] : Mine(txs)
    BY <2>1
  <2>3. /\ Len(chain') = Len(chain) + 1 /\ DOMAIN chain' = 1..(Len(chain) + 1)
        /\ \A b \in DOMAIN chain : chain'[b] = chain[b]
        /\ chain'[Len(chain) + 1] = [txs |-> txs, state |-> <<>>, known |-> FALSE,
                                     emitted |-> FALSE]
    BY <1>1, <2>2, MineShape
  <2>4. visible' = visible /\ reorgs' = reorgs
    BY <2>2 DEF Mine
  <2>5. Top(chain', visible') <= Len(chain') + Confirmations
    BY <1>2, <2>3, <2>4 DEF HeadsInv, Top
  <2>6. \A b \in DOMAIN chain' : b \in DOMAIN chain \/ b = Len(chain) + 1
    BY <1>2, <2>3
  <2>7. ASSUME NEW b \in DOMAIN chain'
        PROVE  IF b \in DOMAIN chain THEN chain'[b] = chain[b]
               ELSE ~chain'[b].known /\ ~chain'[b].emitted /\ chain'[b].state = <<>>
    BY <2>3, <2>6
  <2> QED
    BY <1>1, <1>2, <2>4, <2>5, <2>7, HeadsFrame
<1>5. CASE \E depth \in 1..Confirmations : Reorg(depth)
  <2>1. PICK depth \in 1..Confirmations : Reorg(depth)
    BY <1>5
  <2>2. /\ Len(chain') = Len(chain) - depth /\ Len(chain') \in 1..Len(chain)
        /\ \A b \in DOMAIN chain' : b \in DOMAIN chain /\ chain'[b] = chain[b]
        /\ visible' = IF visible > Len(chain) THEN visible ELSE Len(chain) + 1
        /\ visible - 1 - Len(chain') <= Confirmations
        /\ depth \in Nat /\ depth <= Confirmations
    BY <1>1, <2>1, ReorgShape
  <2>3. reorgs' = reorgs + 1
    BY <2>1 DEF Reorg
  <2>4. Top(chain', visible') <= Len(chain') + Confirmations
    BY <1>2, <2>2 DEF Top
  <2> QED
    BY <1>1, <1>2, <2>2, <2>3, <2>4, HeadsFrame
<1>6. CASE NewBlock
  BY <1>1, <1>6, NewBlockKeepsHeads
<1>7. CASE NewHead
  <2>1. /\ Len(chain') = Len(chain) /\ DOMAIN chain' = DOMAIN chain
        /\ \A a \in DOMAIN chain : /\ chain'[a].known = chain[a].known
                                   /\ chain'[a].state = chain[a].state
        /\ \A a \in DOMAIN chain \ {Len(chain)} : chain'[a] = chain[a]
        /\ chain'[Len(chain)].emitted
    BY <1>1, <1>7, NewHeadShape
  <2>2. UNCHANGED <<visible, reorgs>> /\ chain[Len(chain)].known
    BY <1>7 DEF NewHead
  <2>3. \A b \in DOMAIN chain' : chain'[b].emitted => chain'[b].known
    BY <2>1, <2>2 DEF HeadsInv
  <2>4. \A b \in DOMAIN chain' : \A a \in 1..b : chain'[b].known => chain'[a].known
    <3>1. \A b \in DOMAIN chain : \A a \in 1..b : a \in DOMAIN chain
      BY <1>2
    <3> QED
      BY <2>1, <3>1 DEF HeadsInv
  <2>5. \A b \in DOMAIN chain' : EachOnce(chain'[b].state)
    BY <2>1 DEF HeadsInv
  <2>6. \A b \in DOMAIN chain' : \A i \in DOMAIN chain'[b].state :
            chain'[b].state[i].id \in Tracked' \/ Deep(chain', visible', chain'[b].state[i].id)
    BY <2>1 DEF HeadsInv, TracksStay
  <2>7. Top(chain', visible') <= Len(chain') + Confirmations
    BY <2>1, <2>2 DEF HeadsInv, Top
  <2>8. chain'[1].emitted
    <3>1. 1 \in DOMAIN chain
      BY <1>2
    <3> QED
      BY <2>1, <3>1 DEF HeadsInv
  <2> QED
    BY <1>2, <2>2, <2>3, <2>4, <2>5, <2>6, <2>7, <2>8 DEF HeadsInv
<1> QED
  BY <1>3, <1>4, <1>5, <1>6, <1>7, ChainIsKept DEF Next

(* What holds of the ledger, the nonces and the blocks, whatever happens *)
LinkInv == LedgerInv /\ NoncesInv /\ HeadsInv

(* The ledger, the nonces and the blocks are kept by every step, with the   *)
(* invariant of the responder.                                              *)
LEMMA LinkStep ==
    ASSUME ResponderInv, LinkInv, [Next]_vars
    PROVE  LinkInv' /\ TracksStay /\ ResponderInv'
<1>1. ResponderInv' /\ LeavesMined
  BY StepInv DEF StepSays
<1>2. LedgerInv' /\ TracksStay
  BY <1>1, LedgerStep DEF LinkInv
<1>3. NoncesInv'
  BY <1>1, NoncesStep DEF LinkInv
<1>4. HeadsInv'
  BY <1>1, <1>2, HeadsStep DEF LinkInv
<1> QED
  BY <1>1, <1>2, <1>3, <1>4 DEF LinkInv

-----------------------------------------------------------------------------
(* What the calls that are served do *)

(* Once a call is served, each of the others is one place further. *)
LEMMA TailShape ==
    ASSUME CallsInv, calls # <<>>, calls' = Tail(calls)
    PROVE  /\ Len(calls) \in Nat /\ Len(calls) >= 1 /\ DOMAIN calls = 1..Len(calls)
           /\ Len(calls') = Len(calls) - 1 /\ DOMAIN calls' = 1..(Len(calls) - 1)
           /\ \A k \in 1..(Len(calls) - 1) : calls'[k] = calls[k + 1]
           /\ Call = calls[1]
<1>1. calls \in Seq(Calls)
  BY DEF CallsInv, CallsOK
<1> HIDE DEF Calls
<1> QED
  BY <1>1 DEF Call

(* The queue is one of the requests that were made. *)
LEMMA QueueAsks ==
    ASSUME ResponderInv, LedgerInv, NEW q \in Observations
    PROVE  /\ Priced(Asked \cup {q}) /\ QueueOf(Asked \cup {q}, queue, emptyNonce)
           /\ Priced(Asked) /\ QueueOf(Asked, queue, emptyNonce)
           /\ Asked \subseteq Observations
<1>1. Asked \subseteq Observations
  <2>1. \A x \in issued : x \in KeptItems
    BY DEF ResponderInv, StoreInv, IssuedInv
  <2>2. \A x \in issued : x.request \in Observations
    BY <2>1 DEF KeptItems
  <2> QED
    BY <2>2 DEF Asked
<1>2. Priced(Asked \cup {q}) /\ Priced(Asked)
  BY <1>1, ObservationsPriced DEF Priced
<1>3. /\ queue \in Seq(KeptItems) /\ emptyNonce \in Nat /\ WellFormed(queue, emptyNonce)
      /\ Len(queue) \in Nat /\ DOMAIN queue = 1..Len(queue)
  BY QueueIsOne DEF ResponderInv, StoreInv, QueueInv
<1>4. ASSUME NEW S, Asked \subseteq S PROVE QueueOf(S, queue, emptyNonce)
  <2>1. ASSUME NEW i \in DOMAIN queue PROVE queue[i] \in ItemOf(S)
    <3>1. queue[i] \in KeptItems /\ queue[i].request \in S
      BY <1>3, <1>4 DEF LedgerInv
    <3> QED
      BY <3>1 DEF KeptItems, ItemOf
  <2>2. queue \in Seq(ItemOf(S))
    BY <1>3, <2>1
  <2> QED
    BY <1>3, <2>2 DEF QueueOf
<1> QED
  BY <1>1, <1>2, <1>4

(* What updateQueue issues is asked for by the items of the queue. *)
LEMMA UpdateAsks ==
    ASSUME NEW S, NEW items, NEW nonce, UpdateQueue(items, nonce), items \in Seq(ItemOf(S))
    PROVE  Asked \subseteq Asked' /\ Asked' \subseteq Asked \cup S
<1>1. issued' = issued \cup Difference(items, queue)
  BY DEF UpdateQueue
<1>2. \A i \in DOMAIN items : items[i] \in ItemOf(S)
  OBVIOUS
<1>3. \A i \in DOMAIN items : items[i].request \in S
  BY <1>2 DEF ItemOf
<1>4. \A x \in Difference(items, queue) : x.request \in S
  BY <1>3 DEF Difference
<1> QED
  BY <1>1, <1>4 DEF Asked

(* A response is started at the end of the nonces, or not at all. *)
LEMMA StartServes ==
    ASSUME ResponderInv, ResponderInv', LedgerInv,
           NEW price \in Price, StartResponse(price), Call.id \notin Started
    PROVE  /\ calls # <<>> /\ Call.op = "startResponse" /\ Served
           /\ UNCHANGED <<full, overtaken>>
           /\ \/ NoUpdate
              \/ /\ Ids(queue') = Ids(queue) \cup {Call.id}
                 /\ Front' = Front
                 /\ Started' = Started \cup {Call.id}
                 /\ \A q \in Asked' : q \in Asked \/ (q.id = Call.id /\ q.observed = Call.observed)
                 /\ \E items, nonce : UpdateQueue(items, nonce)
<1> DEFINE request == [id |-> Call.id, ideal |-> price, observed |-> Call.observed]
           added   == Add(queue, emptyNonce, request)
           nonce   == emptyNonce + 1
<1>1. /\ calls # <<>> /\ Call.op = "startResponse" /\ Served
      /\ UNCHANGED <<full, overtaken>>
      /\ \/ /\ ~DepthReached(queue) /\ WellFormed(added, emptyNonce + 1)
            /\ UpdateQueue(added, emptyNonce + 1)
         \/ NoUpdate
  BY DEF StartResponse, Owner
<1>2. ResponderInv /\ StoreInv /\ ChainInv /\ CallsInv /\ NetInv /\ QueueInv'
  BY DEF ResponderInv, StoreInv
<1>3. request \in Observations /\ request.id = Call.id /\ request.observed = Call.observed
  <2>1. CallOK(chain, visible, used, Call)
    BY <1>1, <1>2, ServedKeepsCalls
  <2> QED
    BY <1>1, <2>1 DEF CallOK, Observations
<1> HIDE DEF request
<1>4. SUFFICES ASSUME ~DepthReached(queue), WellFormed(added, emptyNonce + 1),
                      UpdateQueue(added, emptyNonce + 1)
               PROVE  /\ Ids(queue') = Ids(queue) \cup {Call.id}
                      /\ Front' = Front
                      /\ Started' = Started \cup {Call.id}
                      /\ \A q \in Asked' :
                             q \in Asked \/ (q.id = Call.id /\ q.observed = Call.observed)
  BY <1>1
<1>5. Ids(queue) \subseteq Started
  BY DEF LedgerInv, Ids, Started
<1>6. ~Contains(queue, request.id)
  BY <1>3, <1>5 DEF Contains
<1>7. /\ Priced(Asked \cup {request}) /\ QueueOf(Asked \cup {request}, queue, emptyNonce)
      /\ Priced(Observations) /\ QueueOf(Observations, queue, emptyNonce)
  BY <1>2, <1>3, QueueAsks, ObservationsPriced, QueueIsOne DEF StoreInv
<1>8. Ids(added) = Ids(queue) \cup {request.id}
  BY <1>3, <1>4, <1>6, <1>7, AddMakesQueue
<1>9. emptyNonce + 1 - Len(added) = Front /\ emptyNonce \in Nat
  BY <1>2, <1>3, <1>4, AddUpdates DEF StoreInv, QueueInv
<1>10. added \in Seq(ItemOf(Asked \cup {request}))
  <2>1. request \in Asked \cup {request}
    OBVIOUS
  <2> QED
    BY <1>7, <2>1, AddInserts
<1> HIDE DEF added
<1>11. queue' = added /\ emptyNonce' = emptyNonce + 1
  BY <1>4 DEF UpdateQueue
<1>12. Asked \subseteq Asked' /\ Asked' \subseteq Asked \cup {request}
  BY <1>4, <1>10, UpdateAsks
<1>13. Call.id \in Started'
  <2>1. PICK i \in DOMAIN added : added[i].request.id = Call.id
    BY <1>3, <1>8 DEF Ids
  <2>2. added[i] \in Difference(added, queue)
    BY <1>3, <1>6, <2>1 DEF Difference, Contains, Ids
  <2>3. added[i] \in issued'
    BY <1>4, <2>2 DEF UpdateQueue
  <2> QED
    BY <2>1, <2>3 DEF Started, Asked
<1>14. Started' = Started \cup {Call.id}
  BY <1>3, <1>12, <1>13 DEF Started
<1>15. Front' = Front
  BY <1>9, <1>11 DEF Front
<1> QED
  BY <1>3, <1>8, <1>11, <1>12, <1>14, <1>15

(* A mined response leaves the queue at its front nonce, or stays. *)
LEMMA MinedServes ==
    ASSUME ResponderInv, ResponderInv', LedgerInv, TxMined
    PROVE  /\ calls # <<>> /\ Call.op = "txMined" /\ Served /\ full' = full
           /\ [id |-> Call.id, nonce |-> Call.nonce] \in used
           /\ overtaken \subseteq overtaken'
           /\ \/ NoUpdate /\ (~Contains(queue, Call.id) \/ Front # Call.nonce)
              \/ /\ Call.id \in Ids(queue)
                 /\ Ids(queue') = Ids(queue) \ {Call.id}
                 /\ Front' = Front + 1 /\ Front = Call.nonce
                 /\ Asked' = Asked
                 /\ overtaken' = {} => queue[1].request.id = Call.id
                 /\ \E items, nonce : UpdateQueue(items, nonce)
<1> DEFINE items == Removed(queue, Call.id)
<1>1. /\ calls # <<>> /\ Call.op = "txMined" /\ Served /\ full' = full
      /\ \/ /\ ~Contains(queue, Call.id) \/ queue[1].nonce # Call.nonce
            /\ NoUpdate /\ overtaken' = overtaken
         \/ /\ Contains(queue, Call.id) /\ queue[1].nonce = Call.nonce
            /\ UpdateQueue(items, emptyNonce) /\ overtaken' = OvertakenBy(Call.id)
  BY DEF TxMined, Owner, Removed, OvertakenBy
<1>2. ResponderInv /\ StoreInv /\ ChainInv /\ CallsInv /\ NetInv /\ QueueInv'
  BY DEF ResponderInv, StoreInv
<1>3. [id |-> Call.id, nonce |-> Call.nonce] \in used
  <2>1. CallOK(chain, visible, used, Call)
    BY <1>1, <1>2, ServedKeepsCalls
  <2> QED
    BY <1>1, <2>1 DEF CallOK
<1>4. Contains(queue, Call.id) => queue[1].nonce = Front
  BY <1>2, RemovalUpdates
<1>5. CASE ~Contains(queue, Call.id) \/ queue[1].nonce # Call.nonce
  BY <1>1, <1>3, <1>4, <1>5
<1>6. CASE Contains(queue, Call.id) /\ queue[1].nonce = Call.nonce
  <2>1. UpdateQueue(items, emptyNonce) /\ overtaken' = OvertakenBy(Call.id)
    BY <1>1, <1>6
  <2>2. Ids(items) = Ids(queue) \ {Call.id} /\ emptyNonce - Len(items) = Front + 1
    BY <1>2, <1>6, RemovalUpdates
  <2>3. queue' = items /\ emptyNonce' = emptyNonce
    BY <2>1 DEF UpdateQueue
  <2>4. items \in Seq(ItemOf(Asked))
    <3>1. Call.id \in Ids(queue)
      BY <1>6 DEF Contains
    <3>2. PICK i \in DOMAIN queue : TRUE
      BY <3>1 DEF Ids
    <3>3. queue[i].request \in Observations
      <4>1. queue[i] \in KeptItems
        BY <1>2, QueueIsOne DEF StoreInv
      <4> QED
        BY <4>1 DEF KeptItems
    <3>4. Priced(Asked) /\ QueueOf(Asked, queue, emptyNonce)
      BY <3>3, QueueAsks
    <3>5. QueueOf(Asked, items, emptyNonce)
      BY <1>6, <3>4, RemovalReissues
    <3> QED
      BY <3>5 DEF QueueOf
  <2> HIDE DEF items
  <2>5. Asked' = Asked
    BY <2>1, <2>4, UpdateAsks
  <2>6. Front' = Front + 1
    BY <2>2, <2>3 DEF Front
  <2>7. overtaken \subseteq overtaken' /\ (overtaken' = {} => queue[1].request.id = Call.id)
    BY <2>1 DEF OvertakenBy
  <2> QED
    BY <1>1, <1>3, <1>4, <1>6, <2>1, <2>2, <2>3, <2>5, <2>6, <2>7 DEF Contains
<1> QED
  BY <1>5, <1>6

(* The transactions of a run that a shorter run lacks are those after it. *)
LEMMA RunBehind ==
    ASSUME NEW S, NEW T, NEW e, NEW g, Run(S, e), Run(T, g), T \subseteq S,
           NEW m \in Nat, NEW of \in [1..m -> S \ T],
           \A i, j \in 1..m : of[i] = of[j] => i = j,
           \A t \in S \ T : \E i \in 1..m : of[i] = t
    PROVE  /\ g = e - m
           /\ \A i \in 1..m : of[i].nonce \in g..(e - 1)
           /\ \A i, j \in 1..m : of[i].nonce = of[j].nonce => i = j
<1>1. /\ e \in Nat /\ g \in Nat /\ FirstNonce \in Nat /\ e >= FirstNonce /\ g >= FirstNonce
      /\ \A t \in S : t.nonce \in FirstNonce..(e - 1)
      /\ \A n \in FirstNonce..(e - 1) : \E t \in S : t.nonce = n
      /\ \A t, u \in S : t.nonce = u.nonce => t = u
      /\ \A t \in T : t.nonce \in FirstNonce..(g - 1)
      /\ \A n \in FirstNonce..(g - 1) : \E t \in T : t.nonce = n
  BY SizesAreNatural DEF Run
<1>2. g <= e
  <2> SUFFICES ASSUME g > e PROVE FALSE
    BY <1>1
  <2>1. e \in FirstNonce..(g - 1)
    BY <1>1
  <2>2. PICK t \in T : t.nonce = e
    BY <1>1, <2>1
  <2>3. t.nonce \in FirstNonce..(e - 1)
    BY <1>1, <2>2
  <2> QED
    BY <1>1, <2>2, <2>3
<1>3. ASSUME NEW t \in S \ T PROVE t.nonce \in g..(e - 1)
  <2>1. t.nonce \in FirstNonce..(e - 1)
    BY <1>1
  <2>2. CASE t.nonce < g
    <3>1. t.nonce \in FirstNonce..(g - 1)
      BY <1>1, <2>1, <2>2
    <3>2. PICK u \in T : u.nonce = t.nonce
      BY <1>1, <3>1
    <3>3. u = t
      BY <1>1, <3>2
    <3> QED
      BY <3>2, <3>3
  <2>3. CASE ~(t.nonce < g)
    BY <1>1, <2>1, <2>3
  <2> QED
    BY <2>2, <2>3
<1> DEFINE nonce == [i \in 1..m |-> of[i].nonce]
           last  == e - 1
<1>4. /\ \A i \in 1..m : of[i] \in S \ T /\ nonce[i] = of[i].nonce
      /\ DOMAIN nonce = 1..m
  OBVIOUS
<1>5. \A i \in 1..m : nonce[i] \in g..last
  BY <1>3, <1>4
<1>6. \A i, j \in 1..m : nonce[i] = nonce[j] => i = j
  BY <1>1, <1>4
<1>7. ASSUME NEW n \in g..last PROVE \E i \in 1..m : nonce[i] = n
  <2>1. n \in FirstNonce..(e - 1)
    BY <1>1
  <2>2. PICK t \in S : t.nonce = n
    BY <1>1, <2>1
  <2>3. t \notin T
    BY <1>1, <2>2
  <2>4. PICK i \in 1..m : of[i] = t
    BY <2>3
  <2> QED
    BY <1>4, <2>2, <2>4
<1>8. nonce \in [1..m -> g..last]
  BY <1>5
<1> HIDE DEF nonce, last
<1>9. nonce \in Bijection(1..m, g..last)
  BY <1>6, <1>7, <1>8 DEF Bijection, Injection, IsInjective, Surjection
<1>10. last \in Int /\ g \in Int /\ g <= last + 1 /\ last = e - 1
  BY <1>1, <1>2 DEF last
<1>11. Cardinality(1..m) = last - g + 1
  BY <1>9, <1>10, OneEach
<1>12. Cardinality(1..m) = m
  BY FS_Interval
<1>13. g = e - m
  BY <1>1, <1>10, <1>11, <1>12
<1>14. \A i \in 1..m : of[i].nonce \in g..(e - 1)
  BY <1>4, <1>3
<1>15. \A i, j \in 1..m : of[i].nonce = of[j].nonce => i = j
  BY <1>4, <1>6
<1> QED
  BY <1>13, <1>14, <1>15

-----------------------------------------------------------------------------
(* What the queue does not have, and why *)

(* What a call makes of the transactions that the queue is past *)
After(call, S) ==
    IF call.op = "reEnqueueMissingItems"
    THEN {t \in S : \A i \in DOMAIN call.ids : call.ids[i] # t.id}
    ELSE IF call.op = "txMined" THEN S \cup {[id |-> call.id, nonce |-> call.nonce]}
    ELSE S

(* The records have the nonces of the transactions. *)
Kept(S) ==
    \A t \in S : \A j \in DOMAIN transactions :
        transactions[j].request.id = t.id => transactions[j].nonce = t.nonce

(* The queue is past these: they are those of the responses that it lacks,  *)
(* one at each nonce up to its front.                                       *)
Gone(S) ==
    /\ Run(S, Front)
    /\ \A r : r \in Started /\ r \notin Ids(queue) <=> \E t \in S : t.id = r
    /\ \A t \in used : t.id \notin Tracked => t \in S
    /\ overtaken = {} => Kept(S)

(* No response has transactions at two nonces. *)
OneNonce == \A t, u \in used : t.id = u.id => t = u

(* No transaction is of a response that gets a record again. *)
NoneAgain == \A t \in used : t.id \in Tracked' => t.id \in Tracked

(* Whoever is in the queue has a record: it would be past them otherwise. *)
LEMMA QueuedTracked ==
    ASSUME LedgerInv, ChainInv, NEW S, Gone(S)
    PROVE  Ids(queue) \subseteq Tracked
<1> SUFFICES ASSUME NEW r \in Ids(queue), r \notin Tracked PROVE FALSE
  OBVIOUS
<1>1. r \in Started
  BY DEF LedgerInv, Ids, Started
<1>2. Deep(chain, visible, r)
  BY <1>1 DEF LedgerInv
<1>3. PICK b \in DOMAIN chain : \E i \in DOMAIN chain[b].txs : chain[b].txs[i].id = r
  BY <1>2 DEF Deep
<1>4. PICK t \in used : t.id = r
  BY <1>3 DEF ChainInv, ChainOK
<1> QED
  BY <1>4 DEF Gone

(* An update whose items all have records, or are of a response that has no *)
(* transaction, keeps what the records say of the others.                   *)
LEMMA UpdateKeepsKept ==
    ASSUME StoreInv, QueueInv', NEW items, NEW nonce, UpdateQueue(items, nonce),
           NEW S, Kept(S), \A t \in S : t.id \notin Ids(queue')
    PROVE  Kept(S)'
<1>1. /\ queue' = items
      /\ \A j \in DOMAIN transactions' :
             \/ \E i \in DOMAIN items : transactions'[j] = items[i]
             \/ \E k \in DOMAIN transactions : transactions'[j] = transactions[k]
  BY UpdateRecords
<1>2. ASSUME NEW t \in S, NEW j \in DOMAIN transactions', transactions'[j].request.id = t.id
      PROVE  transactions'[j].nonce = t.nonce
  <2>1. ~ \E i \in DOMAIN items : transactions'[j] = items[i]
    BY <1>1, <1>2 DEF Ids
  <2>2. PICK k \in DOMAIN transactions : transactions'[j] = transactions[k]
    BY <1>1, <2>1
  <2> QED
    BY <1>2, <2>2 DEF Kept
<1> QED
  BY <1>2 DEF Kept

(* updateQueue gives records only to those that are in its queue. *)
LEMMA UpdateTracks ==
    ASSUME StoreInv, QueueInv', NEW items, NEW nonce, UpdateQueue(items, nonce)
    PROVE  Tracked' \subseteq Tracked \cup Ids(queue')
<1>1. /\ queue' = items
      /\ \A j \in DOMAIN transactions' :
             \/ \E i \in DOMAIN items : transactions'[j] = items[i]
             \/ \E k \in DOMAIN transactions : transactions'[j] = transactions[k]
  BY UpdateRecords
<1> QED
  BY <1>1 DEF Tracked, Ids

(* multiResponder.ts:184-207: whoever is pending comes back to the nonces   *)
(* before the front that are no longer used.                                *)
LEMMA ReEnqueueServes ==
    ASSUME ResponderInv, ResponderInv', LedgerInv, ReEnqueueMissingItems, ~full', OneNonce,
           NEW S \in SUBSET used, Gone(S), NEW T, T = After(Call, S), \E f : Run(T, f),
           \A i, j \in DOMAIN Call.ids : Call.ids[i] = Call.ids[j] => i = j,
           \A i \in DOMAIN Call.ids : Call.ids[i] \in Tracked,
           reorgs = 0 \/ overtaken = {}, reorgs = 0 => S \subseteq T
    PROVE  Gone(T)' /\ NoneAgain /\ Asked' = Asked
<1> DEFINE missing   == Among(Call.ids, Response \ Ids(queue))
           items     == [i \in DOMAIN missing |-> Record(missing[i])]
           prepended == Prepend(queue, items)
           m         == Len(missing)
<1>1. /\ calls # <<>> /\ Call.op = "reEnqueueMissingItems" /\ Served
      /\ overtaken' = overtaken
      /\ IF missing # <<>> /\ WellFormed(prepended, emptyNonce)
         THEN UpdateQueue(prepended, emptyNonce) ELSE NoUpdate
      /\ missing # <<>> => Len(missing) + Len(queue) <= MaxQueueDepth
  <2> HIDE DEF missing
  <2>1. /\ calls # <<>> /\ Call.op = "reEnqueueMissingItems" /\ Served
        /\ overtaken' = overtaken
        /\ IF /\ \A i \in DOMAIN Call.ids : Call.ids[i] \in Tracked
              /\ missing # <<>>
              /\ WellFormed(prepended, emptyNonce)
           THEN UpdateQueue(prepended, emptyNonce) ELSE NoUpdate
        /\ full' = \/ full
                   \/ missing # <<>> /\ Len(missing) + Len(queue) > MaxQueueDepth
    BY ZenonT(30) DEF ReEnqueueMissingItems, Owner, missing
  <2> HIDE DEF items, prepended, m
  <2>2. QueueInv /\ missing \in Seq(Response)
    <3>1. Call.ids \in Seq(Response)
      <4>1. CallOK(chain, visible, used, Call)
        BY <2>1, ServedKeepsCalls DEF ResponderInv
      <4> QED
        BY <2>1, <4>1 DEF CallOK
    <3> QED
      BY <3>1, AmongSelects DEF missing, ResponderInv, StoreInv
  <2>3. Len(missing) \in Nat /\ Len(queue) \in Nat /\ MaxQueueDepth \in Nat
    BY <2>2, QueueIsOne, QueueAssumption DEF QueueInv, QueueOf
  <2>4. missing # <<>> => ~(Len(missing) + Len(queue) > MaxQueueDepth)
    BY <2>1
  <2> QED
    BY <2>1, <2>3, <2>4
<1>2. /\ StoreInv /\ ChainInv /\ CallsInv /\ NetInv /\ QueueInv /\ QueueInv'
      /\ used' = used
  BY <1>1 DEF ResponderInv, StoreInv, Served
<1>3. Call.ids \in Seq(Response)
  <2>1. CallOK(chain, visible, used, Call)
    BY <1>1, <1>2, ServedKeepsCalls
  <2> QED
    BY <1>1, <2>1 DEF CallOK
<1>4. /\ missing \in Seq(Response)
      /\ m \in Nat /\ DOMAIN missing = 1..m
      /\ \A i \in 1..m : missing[i] \notin Ids(queue)
      /\ \A i \in 1..m : \E j \in DOMAIN Call.ids : missing[i] = Call.ids[j]
      /\ \A j \in DOMAIN Call.ids :
             Call.ids[j] \notin Ids(queue) => \E i \in 1..m : missing[i] = Call.ids[j]
      /\ \A i, j \in 1..m : missing[i] = missing[j] => i = j
  <2>1. /\ missing \in Seq(Response)
        /\ \A i \in DOMAIN missing : missing[i] \in Response \ Ids(queue)
        /\ \A j \in DOMAIN Call.ids : Call.ids[j] \in Response \ Ids(queue)
               => \E i \in DOMAIN missing : missing[i] = Call.ids[j]
        /\ \E nth \in [DOMAIN missing -> DOMAIN Call.ids] :
               /\ \A i \in DOMAIN missing : missing[i] = Call.ids[nth[i]]
               /\ \A i, j \in DOMAIN missing : nth[i] = nth[j] => i = j
    BY <1>3, AmongSelects
  <2> HIDE DEF missing
  <2>2. m \in Nat /\ DOMAIN missing = 1..m
    BY <2>1
  <2>3. \A j \in DOMAIN Call.ids : Call.ids[j] \in Response
    BY <1>3
  <2>4. PICK nth \in [DOMAIN missing -> DOMAIN Call.ids] :
           /\ \A i \in DOMAIN missing : missing[i] = Call.ids[nth[i]]
           /\ \A i, j \in DOMAIN missing : nth[i] = nth[j] => i = j
    BY <2>1
  <2>5. \A i, j \in DOMAIN missing : missing[i] = missing[j] => i = j
    BY <2>4
  <2>6. \A i \in DOMAIN missing : \E j \in DOMAIN Call.ids : missing[i] = Call.ids[j]
    BY <2>4
  <2> HIDE DEF m
  <2> QED
    BY <2>1, <2>2, <2>3, <2>5, <2>6
<1> HIDE DEF missing
<1>5. \A t : t \in T <=> t \in S /\ \A j \in DOMAIN Call.ids : Call.ids[j] # t.id
  BY <1>1 DEF After
<1>6. /\ Run(S, Front)
      /\ \A r : r \in Started /\ r \notin Ids(queue) <=> \E t \in S : t.id = r
      /\ \A t \in used : t.id \notin Tracked => t \in S
      /\ overtaken = {} => Kept(S)
  BY DEF Gone
<1>7. ASSUME NEW t \in S
      PROVE  t \in T <=> \A i \in 1..m : missing[i] # t.id
  <2>1. t.id \notin Ids(queue)
    BY <1>6
  <2> QED
    BY <1>4, <1>5, <2>1
<1>8. \A t \in used : t.id \notin Tracked => t \in T
  BY <1>5, <1>6
<1>9. CASE missing = <<>>
  <2>1. m = 0
    BY <1>9
  <2>2. T = S
    BY <1>5, <1>7, <2>1
  <2>3. UNCHANGED <<queue, emptyNonce, transactions, issued>>
    BY <1>1, <1>9 DEF NoUpdate, responderVars
  <2>4. Gone(S)'
    BY <1>1, <1>2, <1>6, <2>3 DEF Gone, Front, Started, Asked, Tracked, Kept
  <2> QED
    BY <2>2, <2>3, <2>4 DEF NoneAgain, Tracked, Asked
<1>10. CASE missing # <<>>
  <2>1. /\ transactions \in Seq(KeptItems) /\ NothingTwice(transactions)
        /\ \A id \in Tracked : Record(id) \in KeptItems /\ Record(id).request.id = id
        /\ \A j \in DOMAIN transactions : Record(transactions[j].request.id) = transactions[j]
    BY <1>2, RecordIsKept DEF StoreInv, RecordsInv
  <2>2. \A i \in 1..m : missing[i] \in Tracked
    BY <1>4
  <2>3. ASSUME NEW i \in 1..m PROVE \E t \in S : t.id = missing[i]
    <3>1. missing[i] \in Started
      BY <2>2 DEF LedgerInv, Tracked, Ids, Started
    <3> QED
      BY <1>4, <1>6, <3>1
  <2> DEFINE of == [i \in 1..m |-> CHOOSE t \in S : t.id = missing[i]]
  <2>4. \A i \in 1..m : of[i] \in S /\ of[i].id = missing[i]
    BY <2>3
  <2>5. of \in [1..m -> S \ T]
    BY <1>7, <2>4
  <2> HIDE DEF of
  <2>6. /\ \A i, j \in 1..m : of[i] = of[j] => i = j
        /\ \A t \in S \ T : \E i \in 1..m : of[i] = t
    BY <1>4, <1>7, <2>4 DEF OneNonce
  <2>7. 1 \in 1..m
    BY <1>4, <1>10
  <2>8. overtaken = {} /\ Kept(S)
    BY <1>6, <2>5, <2>7
  <2>9. PICK g : Run(T, g)
    OBVIOUS
  <2>10. T \subseteq S
    BY <1>5
  <2>11. /\ g = Front - m
         /\ \A i \in 1..m : of[i].nonce \in g..(Front - 1)
         /\ \A i, j \in 1..m : of[i].nonce = of[j].nonce => i = j
    <3>1. Run(S, Front) /\ m \in Nat
      BY <1>4, <1>6
    <3> HIDE DEF m
    <3> QED
      BY <2>5, <2>6, <2>9, <2>10, <3>1, RunBehind
  <2>12. ASSUME NEW i \in 1..m
         PROVE  /\ items[i] \in KeptItems /\ items[i].request.id = missing[i]
                /\ items[i].nonce = of[i].nonce
                /\ items[i].request \in Asked
    <3>1. items[i] = Record(missing[i])
      BY <1>4
    <3>2. items[i] \in KeptItems /\ items[i].request.id = missing[i]
      BY <2>1, <2>2, <3>1
    <3>3. PICK j \in DOMAIN transactions : transactions[j].request.id = missing[i]
      BY <2>2 DEF Tracked, Ids
    <3>4. items[i] = transactions[j]
      BY <2>1, <3>1, <3>3
    <3> QED
      BY <2>4, <2>8, <3>2, <3>3, <3>4 DEF Kept, LedgerInv
  <2>13. Len(items) = m /\ DOMAIN items = 1..m /\ items \in Seq(KeptItems)
    <3>1. DOMAIN items = 1..m
      BY <1>4
    <3>2. \A i \in DOMAIN items : items[i] \in KeptItems
      BY <2>12, <3>1
    <3>3. items = [i \in 1..m |-> items[i]]
      BY <3>1
    <3> HIDE DEF items, m
    <3> QED
      BY <1>4, <3>1, <3>2, <3>3
  <2> HIDE DEF items
  <2>14. items \in Seq(ItemOf(Observations))
    BY <2>13, KeptAreItems
  <2>15. items \in Seq(ItemOf(Asked))
    <3>1. \A i \in 1..m : items[i] \in ItemOf(Asked)
      BY <2>12 DEF KeptItems, ItemOf
    <3> HIDE DEF m
    <3> QED
      BY <2>13, <3>1
  <2>16. /\ QueueOf(Observations, queue, emptyNonce) /\ Priced(Observations)
         /\ QueueOf(Asked, queue, emptyNonce) /\ Priced(Asked)
         /\ queue \in Seq(ItemOf(Observations)) /\ queue \in Seq(ItemOf(Asked))
         /\ Len(queue) \in Nat /\ emptyNonce \in Nat
    <3>1. \E q : q \in Observations
      <4>1. items[1] \in KeptItems
        BY <2>7, <2>12
      <4> QED
        BY <4>1 DEF KeptItems
    <3> QED
      BY <1>2, <3>1, QueueAsks, ObservationsPriced, QueueIsOne DEF QueueOf, QueueInv
  <2>17. \A r : r \in Ids(items) <=> \E i \in 1..m : missing[i] = r
    BY <2>12, <2>13 DEF Ids
  <2>18. QueueOf(Observations, prepended, emptyNonce)
    <3>1. NothingTwice(items)
      BY <1>4, <2>12, <2>13 DEF NothingTwice
    <3>2. Ids(items) \cap Ids(queue) = {}
      BY <1>4, <2>17
    <3>3. Len(items) + Len(queue) <= MaxQueueDepth
      BY <1>1, <1>10, <2>13
    <3>4. \A i, j \in DOMAIN items : items[i].nonce = items[j].nonce => i = j
      BY <2>11, <2>12, <2>13
    <3>5. ASSUME NEW i \in DOMAIN items
          PROVE  items[i].nonce \in
                     (emptyNonce - Len(queue) - Len(items))..(emptyNonce - Len(queue) - 1)
      BY <2>11, <2>12, <2>13 DEF Front
    <3> QED
      BY <2>14, <2>16, <3>1, <3>2, <3>3, <3>4, <3>5, PrependMakesQueue
  <2>19. UpdateQueue(prepended, emptyNonce)
    BY <1>1, <1>10, <2>18 DEF QueueOf, items
  <2>20. Ids(prepended) = Ids(items) \cup Ids(queue)
    BY <2>14, <2>16, PrependIds
  <2>21. Len(prepended) = m + Len(queue)
    <3>1. Permuted(prepended, items \o queue)
      BY <2>14, <2>16, PrependPermutes
    <3> QED
      BY <2>13, <2>14, <2>16, <3>1, ConcatPlaces DEF Permuted
  <2>22. prepended \in Seq(ItemOf(Asked))
    BY <2>15, <2>16, PrependPermutes
  <2> HIDE DEF prepended
  <2>23. queue' = prepended /\ emptyNonce' = emptyNonce
    BY <2>19 DEF UpdateQueue
  <2>24. Asked' = Asked /\ Started' = Started
    BY <2>19, <2>22, UpdateAsks DEF Started
  <2>25. Tracked' \subseteq Tracked
    <3>1. Ids(queue) \subseteq Tracked
      BY <1>2, QueuedTracked
    <3>2. Ids(queue') \subseteq Tracked
      BY <2>2, <2>17, <2>20, <2>23, <3>1
    <3> QED
      BY <1>2, <2>19, <3>2, UpdateTracks
  <2>26. Tracked \subseteq Tracked'
    BY <1>2, <2>19, UpdateRecords
  <2>27. Front' = g
    <3>1. Front = emptyNonce - Len(queue) /\ Front' = emptyNonce' - Len(queue')
      BY DEF Front
    <3> HIDE DEF m
    <3> QED
      BY <1>4, <2>11, <2>16, <2>21, <2>23, <3>1
  <2>28. ASSUME NEW r PROVE r \in Started' /\ r \notin Ids(queue') <=> \E t \in T : t.id = r
    <3>1. r \in Ids(queue') <=> r \in Ids(queue) \/ \E i \in 1..m : missing[i] = r
      BY <2>17, <2>20, <2>23
    <3> QED
      BY <1>6, <1>7, <2>10, <2>24, <3>1
  <2>29. Kept(T)'
    <3>1. Kept(T)
      BY <2>8, <2>10 DEF Kept
    <3>2. \A t \in T : t.id \notin Ids(queue')
      BY <2>28
    <3> QED
      BY <1>2, <2>19, <3>1, <3>2, UpdateKeepsKept
  <2>30. \A t \in used' : t.id \notin Tracked' => t \in T
    BY <1>2, <1>8, <2>26
  <2> QED
    BY <2>9, <2>24, <2>25, <2>27, <2>28, <2>29, <2>30 DEF Gone, NoneAgain
<1> QED
  BY <1>9, <1>10

-----------------------------------------------------------------------------
(* The queue, the calls that wait, and the heads they come from *)

(* The response is forgotten, or is about to be. *)
Ends(r) ==
    \/ r \notin Tracked
    \/ \E k \in DOMAIN calls : calls[k].op = "endResponse" /\ calls[k].id = r

(* No head emitted above e *)
LastEmitted(e) == \A a \in DOMAIN chain : chain[a].emitted => a <= e

(* What the queue will be past once it has served all calls is what the     *)
(* last head has; a block the tower knows for a coming head has a state of  *)
(* all of these.                                                            *)
Heads(S) ==
    /\ \A e \in DOMAIN chain : chain[e].emitted => Upto(chain, e) \subseteq S
    /\ \A e \in DOMAIN chain :
           /\ chain[e].emitted /\ LastEmitted(e)
           /\ reorgs = 0 \/ (e = Len(chain) /\ Len(chain) >= visible)
           => S = Upto(chain, e)
    /\ \A x, y \in Mined : Ends(y.id) /\ x.nonce <= y.nonce => x \in S
    /\ \A b \in DOMAIN chain : chain[b].known =>
           \/ b < visible
           \/ \E e \in DOMAIN chain : e >= b /\ chain[e].emitted
           \/ \A t \in S : t.id \in Tracked => Entry(b, t.id) # {}

(* R[k] is what the queue will be past once it has served k calls. *)
Waiting(R) ==
    /\ \A k \in 0..Len(calls) : R[k] \in SUBSET used /\ \E f : Run(R[k], f)
    /\ \A k \in 1..Len(calls) : R[k] = After(calls[k], R[k - 1])
    /\ reorgs = 0 => \A k \in 1..Len(calls) : R[k - 1] \subseteq R[k]
    /\ \A k \in 1..Len(calls) : calls[k].op = "endResponse" =>
           \A t \in used : t.id = calls[k].id => t \in R[k - 1]
    /\ Gone(R[0])
    /\ Heads(R[Len(calls)])

(* A call is served: what was to come after it is the next. *)
LEMMA ServedWaits ==
    ASSUME CallsInv, calls # <<>>, Served, NEW R, Waiting(R), Gone(R[1])', NoneAgain,
           \A t \in used : Ends(t.id)' => Ends(t.id), ChainInv
    PROVE  \E Q : Waiting(Q)'
<1>1. PICK n : n = Len(calls)
  OBVIOUS
<1>2. /\ calls' = Tail(calls)
      /\ UNCHANGED <<chain, visible, used, reorgs>>
  BY DEF Served, networkVars
<1>3. /\ n \in Nat /\ n >= 1 /\ Len(calls') = n - 1
      /\ \A k \in 1..(n - 1) : calls'[k] = calls[k + 1]
  BY <1>2, <1>1, TailShape
<1>4. PICK Q : Q = [k \in 0..(n - 1) |-> R[k + 1]]
  OBVIOUS
<1>5. \A k \in 0..(n - 1) : Q[k] = R[k + 1] /\ k + 1 \in 0..n /\ k + 1 \in 1..n
  BY <1>3, <1>4
<1>6. (\A k \in 0..Len(calls) : Q[k] \in SUBSET used /\ \E f : Run(Q[k], f))'
  <2>1. \A k \in 0..n : R[k] \in SUBSET used /\ \E f : Run(R[k], f)
    BY <1>1 DEF Waiting
  <2>2. \A k \in 0..(n - 1) : Q[k] \in SUBSET used /\ \E f : Run(Q[k], f)
    BY <1>5, <2>1
  <2> QED
    BY <1>2, <1>3, <2>2
<1>7. ASSUME NEW k \in 1..(n - 1)
      PROVE  /\ k - 1 \in 0..(n - 1) /\ k \in 0..(n - 1)
             /\ Q[k] = R[k + 1] /\ Q[k - 1] = R[(k + 1) - 1]
             /\ k + 1 \in 1..n /\ calls'[k] = calls[k + 1]
  <2>1. /\ k - 1 \in 0..(n - 1) /\ k \in 0..(n - 1) /\ k + 1 \in 1..n
        /\ (k - 1) + 1 = (k + 1) - 1
    BY <1>3
  <2> QED
    BY <1>3, <1>5, <2>1
<1>8. (\A k \in 1..Len(calls) : Q[k] = After(calls[k], Q[k - 1]))'
  <2>1. \A k \in 1..n : R[k] = After(calls[k], R[k - 1])
    BY <1>1 DEF Waiting
  <2> QED
    BY <1>3, <1>7, <2>1
<1>9. (reorgs = 0 => \A k \in 1..Len(calls) : Q[k - 1] \subseteq Q[k])'
  <2>1. reorgs = 0 => \A k \in 1..n : R[k - 1] \subseteq R[k]
    BY <1>1 DEF Waiting
  <2> QED
    BY <1>2, <1>3, <1>7, <2>1
<1>10. (\A k \in 1..Len(calls) : calls[k].op = "endResponse" =>
            \A t \in used : t.id = calls[k].id => t \in Q[k - 1])'
  <2>1. \A k \in 1..n : calls[k].op = "endResponse" =>
            \A t \in used : t.id = calls[k].id => t \in R[k - 1]
    BY <1>1 DEF Waiting
  <2> QED
    BY <1>2, <1>3, <1>7, <2>1
<1>11. Gone(Q[0])'
  <2>1. 0 \in 0..(n - 1) /\ 0 + 1 = 1
    BY <1>3
  <2>2. Q[0] = R[1]
    BY <1>5, <2>1
  <2> QED
    BY <2>2
<1>12. Heads(Q[Len(calls)])'
  <2>1. n - 1 \in 0..(n - 1) /\ (n - 1) + 1 = n
    BY <1>3
  <2>2. Q[Len(calls')] = R[n] /\ Heads(R[n])
    BY <1>3, <1>5, <1>1, <2>1 DEF Waiting
  <2>13. PICK S : S = R[n]
    OBVIOUS
  <2>3. Heads(S)
    BY <2>2, <2>13
  <2>4. Mined \subseteq used
    BY ChainShape
  <2>5. Mined' = Mined
    BY <1>2 DEF Mined
  <2>6. (\A x, y \in Mined : Ends(y.id) /\ x.nonce <= y.nonce => x \in S)'
    BY <2>3, <2>4, <2>5 DEF Heads
  <2>7. (\A e \in DOMAIN chain : chain[e].emitted => Upto(chain, e) \subseteq S)'
    BY <1>2, <2>3 DEF Heads, Upto
  <2>8. (\A e \in DOMAIN chain :
           /\ chain[e].emitted /\ LastEmitted(e)
           /\ reorgs = 0 \/ (e = Len(chain) /\ Len(chain) >= visible)
           => S = Upto(chain, e))'
    BY <1>2, <2>3 DEF Heads, Upto, LastEmitted
  <2>9. S \subseteq used
    BY <1>3, <1>1, <2>13 DEF Waiting
  <2>10. \A b, r : Entry(b, r)' = Entry(b, r)
    BY <1>2 DEF Entry
  <2>11. (\A b \in DOMAIN chain : chain[b].known =>
           \/ b < visible
           \/ \E e \in DOMAIN chain : e >= b /\ chain[e].emitted
           \/ \A t \in S : t.id \in Tracked => Entry(b, t.id) # {})'
    BY <1>2, <2>3, <2>9, <2>10 DEF Heads, NoneAgain
  <2>12. Heads(S)'
    BY <2>6, <2>7, <2>8, <2>11 DEF Heads
  <2> QED
    BY <2>2, <2>12, <2>13
<1>13. Waiting(Q)'
  BY <1>6, <1>8, <1>9, <1>10, <1>11, <1>12 DEF Waiting
<1> QED
  BY <1>13

(* A call that throws leaves the queue past what it was past. *)
LEMMA NoUpdateGone ==
    ASSUME NoUpdate, UNCHANGED <<used, overtaken>>, NEW S, Gone(S)
    PROVE  Gone(S)' /\ NoneAgain /\ Asked' = Asked /\ Tracked' = Tracked
<1>1. UNCHANGED <<queue, emptyNonce, transactions, issued, used, overtaken>>
  BY DEF NoUpdate, responderVars
<1>2. Front' = Front /\ Started' = Started /\ Asked' = Asked /\ Tracked' = Tracked
  BY <1>1 DEF Front, Started, Asked, Tracked
<1> QED
  BY <1>1, <1>2 DEF Gone, Kept, NoneAgain

(* multiResponder.ts:69-118: a new response waits behind the others. *)
LEMMA StartGone ==
    ASSUME ResponderInv, ResponderInv', LedgerInv,
           NEW price \in Price, StartResponse(price), Call.id \notin Started,
           NEW S, Gone(S)
    PROVE  Gone(S)' /\ NoneAgain /\ Tracked \subseteq Tracked'
<1>1. /\ calls # <<>> /\ Call.op = "startResponse" /\ Served
      /\ UNCHANGED <<full, overtaken>>
      /\ \/ NoUpdate
         \/ /\ Ids(queue') = Ids(queue) \cup {Call.id}
            /\ Front' = Front
            /\ Started' = Started \cup {Call.id}
            /\ \A q \in Asked' : q \in Asked \/ (q.id = Call.id /\ q.observed = Call.observed)
            /\ \E items, nonce : UpdateQueue(items, nonce)
  BY StartServes
<1>2. /\ StoreInv /\ ChainInv /\ QueueInv' /\ used' = used
  BY <1>1 DEF ResponderInv, StoreInv, Served
<1>3. CASE NoUpdate
  BY <1>1, <1>2, <1>3, NoUpdateGone
<1>4. ASSUME NEW items, NEW nonce, UpdateQueue(items, nonce),
             Ids(queue') = Ids(queue) \cup {Call.id}, Front' = Front,
             Started' = Started \cup {Call.id}
      PROVE  Gone(S)' /\ NoneAgain /\ Tracked \subseteq Tracked'
  <2>1. Tracked \subseteq Tracked' /\ Tracked' \subseteq Tracked \cup Ids(queue')
    BY <1>2, <1>4, UpdateRecords, UpdateTracks
  <2>2. Ids(queue) \subseteq Tracked
    BY <1>2, QueuedTracked
  <2>3. \A t \in used : t.id \in Started
    BY DEF LedgerInv, Started, Asked, TxOf
  <2>4. NoneAgain
    BY <1>4, <2>1, <2>2, <2>3 DEF NoneAgain
  <2>5. \A r : r \in Started /\ r \notin Ids(queue) <=> \E t \in S : t.id = r
    BY DEF Gone
  <2>6. ASSUME NEW r PROVE r \in Started' /\ r \notin Ids(queue') <=> \E t \in S : t.id = r
    BY <1>4, <2>5
  <2>7. Kept(S) => Kept(S)'
    <3>1. \A t \in S : t.id \notin Ids(queue')
      BY <2>6
    <3> QED
      BY <1>2, <1>4, <3>1, UpdateKeepsKept
  <2>8. \A t \in used' : t.id \notin Tracked' => t \in S
    BY <1>2, <2>1 DEF Gone
  <2>9. Run(S, Front) /\ (overtaken = {} => Kept(S))
    BY DEF Gone
  <2> QED
    BY <1>1, <1>4, <2>1, <2>4, <2>6, <2>7, <2>8, <2>9 DEF Gone
<1> QED
  BY <1>1, <1>3, <1>4

(* A run with one transaction more ends one nonce later, with this one. *)
LEMMA RunGrows ==
    ASSUME NEW S, NEW f, Run(S, f), NEW t, t \notin S, NEW g, Run(S \cup {t}, g)
    PROVE  g = f + 1 /\ t.nonce = f
<1>1. /\ IsFiniteSet(S) /\ FirstNonce + Cardinality(S) = f
      /\ FirstNonce + Cardinality(S \cup {t}) = g
  BY RunSize
<1>2. Cardinality(S \cup {t}) = Cardinality(S) + 1 /\ Cardinality(S) \in Nat
  BY <1>1, FS_AddElement, FS_CardinalityType
<1>3. FirstNonce \in Nat
  BY SizesAreNatural
<1>4. g = f + 1 /\ f \in Nat
  BY <1>1, <1>2, <1>3
<1>5. t.nonce \in FirstNonce..f /\ (t.nonce \in FirstNonce..(f - 1) => FALSE)
  <2>1. t.nonce \in FirstNonce..(g - 1)
    BY DEF Run
  <2>2. ASSUME t.nonce \in FirstNonce..(f - 1) PROVE FALSE
    <3>1. PICK u \in S : u.nonce = t.nonce
      BY <2>2 DEF Run
    <3>2. u = t
      BY <3>1 DEF Run
    <3> QED
      BY <3>1, <3>2
  <2> QED
    BY <1>4, <2>1, <2>2
<1> QED
  BY <1>3, <1>4, <1>5

(* multiResponder.ts:124-160: the queue is past what was mined. *)
LEMMA MinedGone ==
    ASSUME ResponderInv, ResponderInv', LedgerInv, TxMined, OneNonce,
           NEW S \in SUBSET used, Gone(S), NEW T, T = After(Call, S), NEW g, Run(T, g)
    PROVE  Gone(T)' /\ NoneAgain /\ Tracked \subseteq Tracked' /\ Asked' = Asked
<1>1. PICK t : t = [id |-> Call.id, nonce |-> Call.nonce]
  OBVIOUS
<1>2. /\ calls # <<>> /\ Call.op = "txMined" /\ Served
      /\ t \in used /\ t.id = Call.id /\ t.nonce = Call.nonce
      /\ overtaken \subseteq overtaken'
      /\ \/ NoUpdate /\ (~Contains(queue, Call.id) \/ Front # Call.nonce)
         \/ /\ Call.id \in Ids(queue)
            /\ Ids(queue') = Ids(queue) \ {Call.id}
            /\ Front' = Front + 1 /\ Front = Call.nonce
            /\ Asked' = Asked
            /\ overtaken' = {} => queue[1].request.id = Call.id
            /\ \E items, nonce : UpdateQueue(items, nonce)
  BY <1>1, MinedServes
<1>3. /\ StoreInv /\ ChainInv /\ QueueInv /\ QueueInv' /\ RecordsInv /\ used' = used
  BY <1>2 DEF ResponderInv, StoreInv, Served
<1>4. T = S \cup {t}
  BY <1>2, <1>1 DEF After
<1>5. /\ Run(S, Front)
      /\ \A r : r \in Started /\ r \notin Ids(queue) <=> \E u \in S : u.id = r
      /\ \A u \in used : u.id \notin Tracked => u \in S
      /\ overtaken = {} => Kept(S)
  BY DEF Gone
<1>6. t.id \in Started
  BY <1>2 DEF LedgerInv, Started, Asked, TxOf
<1>7. CASE NoUpdate /\ (~Contains(queue, Call.id) \/ Front # Call.nonce)
  <2>1. t \in S
    <3>1. CASE ~Contains(queue, Call.id)
      <4>1. PICK u \in S : u.id = t.id
        BY <1>2, <1>5, <1>6, <3>1 DEF Contains
      <4> QED
        BY <1>2, <4>1 DEF OneNonce
    <3>2. CASE Front # Call.nonce
      BY <1>2, <1>4, <1>5, <3>2, RunGrows
    <3> QED
      BY <1>7, <3>1, <3>2
  <2>2. overtaken' = overtaken
    <3>1. Contains(queue, Call.id) => queue[1].nonce = Front
      BY <1>3, RemovalUpdates
    <3>2. ~Contains(queue, Call.id) \/ queue[1].nonce # Call.nonce
      BY <1>7, <3>1
    <3> QED
      BY <3>2 DEF TxMined
  <2> QED
    BY <1>3, <1>4, <1>7, <2>1, <2>2, NoUpdateGone
<1>8. ASSUME Call.id \in Ids(queue), Ids(queue') = Ids(queue) \ {Call.id},
             Front' = Front + 1, Front = Call.nonce, Asked' = Asked,
             overtaken' = {} => queue[1].request.id = Call.id,
             NEW items, NEW nonce, UpdateQueue(items, nonce)
      PROVE  Gone(T)' /\ NoneAgain /\ Tracked \subseteq Tracked' /\ Asked' = Asked
  <2>1. t \notin S
    BY <1>2, <1>5, <1>8
  <2>2. Run(T, Front')
    BY <1>4, <1>5, <1>8, <2>1, RunGrows
  <2>3. Started' = Started
    BY <1>8 DEF Started
  <2>4. ASSUME NEW r PROVE r \in Started' /\ r \notin Ids(queue') <=> \E u \in T : u.id = r
    BY <1>2, <1>4, <1>5, <1>6, <1>8, <2>3
  <2>5. Tracked \subseteq Tracked' /\ Tracked' \subseteq Tracked
    <3>1. Ids(queue) \subseteq Tracked
      BY <1>3, QueuedTracked
    <3> QED
      BY <1>3, <1>8, <3>1, UpdateRecords, UpdateTracks
  <2>6. overtaken' = {} => Kept(T)'
    <3>1. SUFFICES ASSUME overtaken' = {} PROVE Kept(T)'
      OBVIOUS
    <3>2. Kept(S) /\ queue[1].request.id = t.id /\ overtaken = {}
      BY <1>2, <1>5, <1>8, <3>1
    <3>3. 1 \in DOMAIN queue /\ queue[1].nonce = t.nonce
      <4>1. Contains(queue, Call.id)
        BY <1>8 DEF Contains
      <4>2. queue[1].nonce = Front
        BY <1>3, <4>1, RemovalUpdates
      <4>3. PICK i \in DOMAIN queue : queue[i].request.id = Call.id
        BY <1>8 DEF Ids
      <4>4. DOMAIN queue = 1..Len(queue) /\ Len(queue) \in Nat
        BY <1>3, QueueIsOne
      <4> QED
        BY <1>2, <1>8, <4>2, <4>3, <4>4
    <3>4. \A j \in DOMAIN transactions :
              transactions[j].request.id = t.id => transactions[j].nonce = t.nonce
      BY <1>3, <3>2, <3>3 DEF RecordsInv
    <3>5. Kept(T)
      BY <1>4, <3>2, <3>4 DEF Kept
    <3>6. \A u \in T : u.id \notin Ids(queue')
      BY <2>4
    <3> QED
      BY <1>3, <1>8, <3>5, <3>6, UpdateKeepsKept
  <2>7. \A u \in used' : u.id \notin Tracked' => u \in T
    BY <1>3, <1>4, <1>5, <2>5
  <2>8. NoneAgain
    BY <2>5 DEF NoneAgain
  <2> QED
    BY <1>8, <2>2, <2>4, <2>5, <2>6, <2>7, <2>8 DEF Gone
<1> QED
  BY <1>2, <1>7, <1>8

(* multiResponder.ts:214-216: a response is forgotten that the queue is past. *)
LEMMA EndGone ==
    ASSUME ResponderInv, EndResponse, NEW S, Gone(S),
           \A t \in used : t.id = Call.id => t \in S
    PROVE  Gone(S)' /\ NoneAgain /\ Asked' = Asked
<1>1. /\ Served /\ UNCHANGED <<queue, emptyNonce, outbox, issued, full, overtaken>>
      /\ \A j \in DOMAIN transactions' :
             \E k \in DOMAIN transactions : transactions'[j] = transactions[k]
      /\ \A r : r \in Tracked' <=> r \in Tracked /\ r # Call.id
  BY EndForgets
<1>2. used' = used
  BY <1>1 DEF Served
<1>3. Front' = Front /\ Started' = Started /\ Asked' = Asked
  BY <1>1 DEF Front, Started, Asked
<1>4. Kept(S) => Kept(S)'
  BY <1>1 DEF Kept
<1>5. \A t \in used' : t.id \notin Tracked' => t \in S
  BY <1>1, <1>2 DEF Gone
<1>6. NoneAgain
  BY <1>1 DEF NoneAgain
<1> QED
  BY <1>1, <1>3, <1>4, <1>5, <1>6 DEF Gone

(* A response is asked for once, and asks for the lock once. *)
OnceInv ==
    /\ \A r \in Started : starts[r] >= 1
    /\ \A k \in DOMAIN calls : calls[k].op = "startResponse" =>
           calls[k].id \notin Started /\ starts[calls[k].id] >= 1
    /\ \A j, k \in DOMAIN calls :
           /\ calls[j].op = "startResponse" /\ calls[k].op = "startResponse"
           /\ calls[j].id = calls[k].id
           => j = k

(* What is to be put back has a record, and will still have it. *)
MissingInv ==
    \A k \in DOMAIN calls : calls[k].op = "reEnqueueMissingItems" =>
        /\ \A i, j \in DOMAIN calls[k].ids : calls[k].ids[i] = calls[k].ids[j] => i = j
        /\ \A i \in DOMAIN calls[k].ids :
               /\ calls[k].ids[i] \in Tracked
               /\ \A j \in 1..(k - 1) : calls[j].op = "endResponse" =>
                      calls[j].id # calls[k].ids[i]

(* Whatever call is served, the queue is then past what it was to be past. *)
LEMMA ServeWaits ==
    ASSUME ResponderInv, ResponderInv', LedgerInv, Serve, OneNonce, ~full',
           reorgs = 0 \/ overtaken = {}, OnceInv, MissingInv, NEW R, Waiting(R)
    PROVE  /\ NoneAgain /\ \E Q : Waiting(Q)'
           /\ calls # <<>> /\ Served
           /\ \A q \in Asked' : \/ q \in Asked
                                \/ /\ Call.op = "startResponse"
                                   /\ q.id = Call.id /\ q.observed = Call.observed
           /\ Tracked \subseteq Tracked' \/ Call.op = "endResponse"
           /\ \A r \in Tracked \ Tracked' : r = Call.id
<1>1. /\ StoreInv /\ ChainInv /\ CallsInv
      /\ calls # <<>> /\ Served
  BY DEF ResponderInv, Serve, StartResponse, TxMined, ReEnqueueMissingItems, EndResponse, Owner
<1>2. /\ calls' = Tail(calls) /\ UNCHANGED <<chain, visible, used, reorgs>>
  BY <1>1 DEF Served, networkVars
<1>3. /\ Len(calls) \in Nat /\ Len(calls) >= 1 /\ DOMAIN calls = 1..Len(calls)
      /\ Len(calls') = Len(calls) - 1 /\ DOMAIN calls' = 1..(Len(calls) - 1)
      /\ \A k \in 1..(Len(calls) - 1) : calls'[k] = calls[k + 1]
      /\ Call = calls[1]
  BY <1>1, <1>2, TailShape
<1>4. PICK S, T, g : S = R[0] /\ T = R[1] /\ Run(T, g)
  BY <1>3 DEF Waiting
<1>5. /\ S \in SUBSET used /\ Gone(S) /\ T = After(Call, S)
      /\ (reorgs = 0 => S \subseteq T)
      /\ (Call.op = "endResponse" => \A t \in used : t.id = Call.id => t \in S)
  <2>1. 0 \in 0..Len(calls) /\ 1 \in 1..Len(calls) /\ 1 - 1 = 0
    BY <1>3
  <2> QED
    BY <1>3, <1>4, <2>1 DEF Waiting
<1> DEFINE Says ==
               /\ Gone(T)' /\ NoneAgain
               /\ \A q \in Asked' : \/ q \in Asked
                                    \/ /\ Call.op = "startResponse"
                                       /\ q.id = Call.id /\ q.observed = Call.observed
               /\ \/ Tracked \subseteq Tracked'
                  \/ Call.op = "endResponse" /\ \A r \in Tracked \ Tracked' : r = Call.id
<1>6. SUFFICES Says
  <2> SUFFICES ASSUME Gone(T)', NoneAgain,
                      \/ Tracked \subseteq Tracked'
                      \/ Call.op = "endResponse" /\ \A r \in Tracked \ Tracked' : r = Call.id
               PROVE  \E Q : Waiting(Q)'
    BY <1>1
  <2>1. Gone(R[1])'
    BY <1>4
  <2>2. ASSUME NEW r, Ends(r)' PROVE Ends(r)
    <3>1. CASE r \in Tracked /\ r \notin Tracked'
      <4>1. Call.op = "endResponse" /\ r = Call.id
        BY <3>1
      <4> QED
        BY <1>3, <4>1 DEF Ends
    <3>2. CASE \E k \in DOMAIN calls' : calls'[k].op = "endResponse" /\ calls'[k].id = r
      <4>1. PICK k \in 1..(Len(calls) - 1) : calls'[k].op = "endResponse" /\ calls'[k].id = r
        BY <1>3, <3>2
      <4>2. k + 1 \in DOMAIN calls /\ calls'[k] = calls[k + 1]
        BY <1>3
      <4> QED
        BY <4>1, <4>2 DEF Ends
    <3> QED
      BY <2>2, <3>1, <3>2 DEF Ends
  <2> QED
    BY <1>1, <2>1, <2>2, ServedWaits
<1>7. ASSUME NEW price \in Price, StartResponse(price) PROVE Says
  <2>1. Call.op = "startResponse" /\ Call.id \notin Started
    <3>1. Call.op = "startResponse"
      BY <1>7 DEF StartResponse, Owner
    <3> QED
      BY <1>3, <3>1 DEF OnceInv
  <2>2. T = S
    BY <1>5, <2>1 DEF After
  <2>3. Gone(S)' /\ NoneAgain /\ Tracked \subseteq Tracked'
    BY <1>5, <1>7, <2>1, StartGone
  <2>4. \A q \in Asked' : q \in Asked \/ (q.id = Call.id /\ q.observed = Call.observed)
    <3>1. \/ NoUpdate
          \/ \A q \in Asked' : q \in Asked \/ (q.id = Call.id /\ q.observed = Call.observed)
      BY <1>7, <2>1, StartServes
    <3>2. NoUpdate => Asked' = Asked
      BY DEF NoUpdate, Asked
    <3> QED
      BY <3>1, <3>2
  <2> QED
    BY <2>1, <2>2, <2>3, <2>4
<1>8. ASSUME TxMined PROVE Says
  BY <1>4, <1>5, <1>8, MinedGone
<1>9. ASSUME ReEnqueueMissingItems PROVE Says
  <2>1. Call.op = "reEnqueueMissingItems"
    BY <1>9 DEF ReEnqueueMissingItems, Owner
  <2>2. /\ \A i, j \in DOMAIN Call.ids : Call.ids[i] = Call.ids[j] => i = j
        /\ \A i \in DOMAIN Call.ids : Call.ids[i] \in Tracked
    BY <1>3, <2>1 DEF MissingInv
  <2>3. Gone(T)' /\ NoneAgain /\ Asked' = Asked
    BY <1>4, <1>5, <1>9, <2>2, ReEnqueueServes
  <2>4. Tracked \subseteq Tracked'
    <3>1. NoUpdate => Tracked' = Tracked
      BY DEF NoUpdate, responderVars, Tracked
    <3>2. NoUpdate \/ \E items, nonce : UpdateQueue(items, nonce)
      BY <1>9, ServedUpdates
    <3>3. QueueInv'
      BY DEF ResponderInv, StoreInv
    <3> QED
      BY <1>1, <3>1, <3>2, <3>3, UpdateRecords
  <2> QED
    BY <2>3, <2>4
<1>10. ASSUME EndResponse PROVE Says
  <2>1. Call.op = "endResponse" /\ \A r \in Tracked \ Tracked' : r = Call.id
    BY <1>10, EndForgets
  <2>2. T = S
    BY <1>5, <2>1 DEF After
  <2>3. Gone(S)' /\ NoneAgain /\ Asked' = Asked
    BY <1>5, <1>10, <2>1, EndGone
  <2> QED
    BY <2>1, <2>2, <2>3
<1> QED
  <2> HIDE DEF Says
  <2> QED
    BY <1>7, <1>8, <1>9, <1>10 DEF Serve

-----------------------------------------------------------------------------
(* The steps that serve no call *)

(* The calls stay; whatever is mined now is of no response that is to be    *)
(* forgotten.                                                               *)
LEMMA StillWaits ==
    ASSUME calls' = calls, used \subseteq used', reorgs' = 0 => reorgs = 0,
           NEW R, Waiting(R), Gone(R[0])', NEW S, S = R[Len(calls)], Heads(S)',
           \A t \in used' \ used : ~ \E k \in DOMAIN calls :
               calls[k].op = "endResponse" /\ calls[k].id = t.id,
           CallsInv
    PROVE  Waiting(R)'
<1>1. DOMAIN calls = 1..Len(calls) /\ Len(calls) \in Nat
  <2>1. calls \in Seq(Calls)
    BY DEF CallsInv, CallsOK
  <2> QED
    BY <2>1
<1>2. (\A k \in 0..Len(calls) : R[k] \in SUBSET used /\ \E f : Run(R[k], f))'
  <2>1. \A k \in 0..Len(calls) : R[k] \in SUBSET used /\ \E f : Run(R[k], f)
    BY DEF Waiting
  <2> QED
    BY <2>1
<1>3. (\A k \in 1..Len(calls) : R[k] = After(calls[k], R[k - 1]))'
  BY DEF Waiting
<1>4. (reorgs = 0 => \A k \in 1..Len(calls) : R[k - 1] \subseteq R[k])'
  BY DEF Waiting
<1>5. (\A k \in 1..Len(calls) : calls[k].op = "endResponse" =>
           \A t \in used : t.id = calls[k].id => t \in R[k - 1])'
  <2>1. SUFFICES ASSUME NEW k \in 1..Len(calls), calls[k].op = "endResponse",
                        NEW t \in used', t.id = calls[k].id
                 PROVE  t \in R[k - 1]
    OBVIOUS
  <2>2. t \in used
    BY <1>1, <2>1
  <2> QED
    BY <2>1, <2>2 DEF Waiting
<1>6. Heads(R[Len(calls)])'
  BY DEF Heads
<1> QED
  BY <1>2, <1>3, <1>4, <1>5, <1>6 DEF Waiting

(* New calls wait behind the others. *)
LEMMA MoreWaits ==
    ASSUME CallsInv, NEW more \in Seq(Calls), calls' = calls \o more,
           UNCHANGED <<used, reorgs>>, NEW R, Waiting(R), Gone(R[0])',
           NEW P, P[0] = R[Len(calls)],
           \A k \in 1..Len(more) :
               /\ P[k] \in SUBSET used /\ \E f : Run(P[k], f)
               /\ P[k] = After(more[k], P[k - 1])
               /\ reorgs = 0 => P[k - 1] \subseteq P[k]
               /\ more[k].op = "endResponse" =>
                      \A t \in used : t.id = more[k].id => t \in P[k - 1],
           Heads(P[Len(more)])'
    PROVE  \E Q : Waiting(Q)'
<1>1. PICK n, m : n = Len(calls) /\ m = Len(more)
  OBVIOUS
<1>2. /\ n \in Nat /\ m \in Nat /\ Len(calls') = n + m
      /\ \A k \in 1..(n + m) : calls'[k] = IF k <= n THEN calls[k] ELSE more[k - n]
  <2>1. calls \in Seq(Calls)
    BY DEF CallsInv, CallsOK
  <2> HIDE DEF Calls
  <2> QED
    BY <1>1, <2>1, ConcatPlaces
<1>3. PICK Q : Q = [k \in 0..(n + m) |-> IF k <= n THEN R[k] ELSE P[k - n]]
  OBVIOUS
<1>4. /\ \A k \in 0..n : Q[k] = R[k]
      /\ \A k \in 0..m : Q[n + k] = P[k]
  <2>1. ASSUME NEW k \in 0..n PROVE Q[k] = R[k]
    BY <1>2, <1>3
  <2>2. ASSUME NEW k \in 0..m PROVE Q[n + k] = P[k]
    <3>1. CASE k = 0
      <4>1. n + k = n /\ n \in 0..n
        BY <1>2, <3>1
      <4> QED
        BY <1>1, <2>1, <3>1, <4>1
    <3>2. CASE k # 0
      <4>1. n + k \in 0..(n + m) /\ ~(n + k <= n) /\ (n + k) - n = k
        BY <1>2, <3>2
      <4> QED
        BY <1>3, <4>1
    <3> QED
      BY <3>1, <3>2
  <2> QED
    BY <2>1, <2>2
<1>5. ASSUME NEW k \in 1..(n + m)
      PROVE  /\ Q[k] \in SUBSET used /\ \E f : Run(Q[k], f)
             /\ Q[k] = After(calls'[k], Q[k - 1])
             /\ reorgs = 0 => Q[k - 1] \subseteq Q[k]
             /\ calls'[k].op = "endResponse" =>
                    \A t \in used : t.id = calls'[k].id => t \in Q[k - 1]
  <2>1. CASE k <= n
    <3>1. k \in 1..n /\ k \in 0..n /\ k - 1 \in 0..n
      BY <1>2, <2>1
    <3>2. Q[k] = R[k] /\ Q[k - 1] = R[k - 1] /\ calls'[k] = calls[k]
      BY <1>2, <1>4, <2>1, <3>1
    <3> QED
      BY <1>1, <3>1, <3>2 DEF Waiting
  <2>2. CASE ~(k <= n)
    <3>1. PICK j \in 1..m : j = k - n
      BY <1>2, <2>2
    <3>2. j \in 0..m /\ j - 1 \in 0..m /\ n + j = k /\ n + (j - 1) = k - 1
      BY <1>2, <3>1
    <3>3. Q[k] = P[j] /\ Q[k - 1] = P[j - 1] /\ calls'[k] = more[j]
      BY <1>2, <1>4, <2>2, <3>1, <3>2
    <3> QED
      BY <1>1, <3>3
  <2> QED
    BY <2>1, <2>2
<1>6. Q[0] = R[0] /\ 0 \in 0..n /\ Q[n + m] = P[m]
  BY <1>2, <1>4
<1>7. \A k \in 0..(n + m) : Q[k] \in SUBSET used /\ \E f : Run(Q[k], f)
  <2>1. Q[0] \in SUBSET used /\ \E f : Run(Q[0], f)
    BY <1>1, <1>6 DEF Waiting
  <2>2. \A k \in 0..(n + m) : k = 0 \/ k \in 1..(n + m)
    BY <1>2
  <2> QED
    BY <1>5, <2>1, <2>2
<1>8. Gone(Q[0])'
  BY <1>6
<1>9. Heads(Q[Len(calls)])'
  <2>1. PICK S : S = P[m]
    OBVIOUS
  <2>2. Heads(S)' /\ Q[Len(calls')] = S
    BY <1>1, <1>2, <1>6, <2>1
  <2> QED
    BY <2>2
<1>10. Waiting(Q)'
  BY <1>2, <1>5, <1>7, <1>8, <1>9 DEF Waiting
<1> QED
  BY <1>10

(* Nothing that the queue or the heads are about changes. *)
LEMMA HeadsStay ==
    ASSUME UNCHANGED <<chain, visible, reorgs, transactions>>, NEW S, Heads(S),
           \A r : (\E k \in DOMAIN calls' : calls'[k].op = "endResponse" /\ calls'[k].id = r)
                   => \E k \in DOMAIN calls : calls[k].op = "endResponse" /\ calls[k].id = r
    PROVE  Heads(S)'
<1>1. Tracked' = Tracked /\ Mined' = Mined
  BY DEF Tracked, Mined
<1>2. \A r : Ends(r)' => Ends(r)
  BY <1>1 DEF Ends
<1>3. \A b, r : Entry(b, r)' = Entry(b, r)
  BY DEF Entry
<1> QED
  BY <1>1, <1>2, <1>3 DEF Heads, LastEmitted, Upto

(* What the queue is past does not depend on the network, but for the       *)
(* transactions of those that have no record.                               *)
LEMMA GoneStays ==
    ASSUME UNCHANGED <<queue, emptyNonce, transactions, issued, overtaken>>,
           NEW S, Gone(S), \A t \in used' : t \in used \/ t.id \in Tracked
    PROVE  Gone(S)'
<1>1. Front' = Front /\ Started' = Started /\ Tracked' = Tracked
  BY DEF Front, Started, Asked, Tracked
<1>2. Kept(S) => Kept(S)'
  BY DEF Kept
<1> QED
  BY <1>1, <1>2 DEF Gone

(* Who is deep has its transaction on the chain. *)
LEMMA DeepIsMined ==
    ASSUME ChainInv, NEW r, Deep(chain, visible, r)
    PROVE  \E t \in Mined : t \in used /\ t.id = r
<1>1. PICK b \in DOMAIN chain : \E i \in DOMAIN chain[b].txs : chain[b].txs[i].id = r
  BY DEF Deep
<1>2. PICK i \in DOMAIN chain[b].txs : chain[b].txs[i].id = r
  BY <1>1
<1>3. chain[b].txs[i] \in Mined
  BY DEF Mined
<1>4. chain[b].txs[i] \in used
  BY DEF ChainInv, ChainOK
<1> QED
  BY <1>2, <1>3, <1>4

(* Who is to be forgotten is deep. *)
LEMMA EndsIsDeep ==
    ASSUME LedgerInv, CallsInv, NEW t \in used \cup sent, Ends(t.id)
    PROVE  Deep(chain, visible, t.id)
<1>1. t.id \in Started
  BY DEF LedgerInv, Started, Asked, TxOf
<1>2. CASE t.id \notin Tracked
  BY <1>1, <1>2 DEF LedgerInv
<1>3. CASE \E k \in DOMAIN calls : calls[k].op = "endResponse" /\ calls[k].id = t.id
  BY <1>3 DEF CallsInv, CallsOK, CallOK
<1> QED
  BY <1>2, <1>3 DEF Ends

(* What is broadcast changes nothing of what waits. *)
LEMMA BroadcastWaits ==
    ASSUME CallsInv, NEW R, Waiting(R),
           UNCHANGED <<queue, emptyNonce, transactions, issued, overtaken, calls, chain,
                       visible, used, reorgs>>
    PROVE  Waiting(R)'
<1>1. PICK S : S = R[Len(calls)]
  OBVIOUS
<1>2. Heads(S)' /\ Gone(R[0])'
  BY <1>1, HeadsStay, GoneStays DEF Waiting
<1> QED
  BY <1>1, <1>2, StillWaits

(* The watcher's call waits; the queue will be past nothing more for it. *)
LEMMA StartWaits ==
    ASSUME ChainInv, CallsInv, NEW r \in Response, NEW block \in 1..Len(chain),
           WatcherStarts(r, block), NEW R, Waiting(R)
    PROVE  \E Q : Waiting(Q)'
<1>1. /\ calls' = calls \o <<StartCall(r, block)>>
      /\ UNCHANGED <<queue, emptyNonce, transactions, issued, overtaken, chain, visible,
                     used, reorgs>>
  <2>1. calls \in Seq(Calls)
    BY DEF CallsInv, CallsOK
  <2>2. calls' = Append(calls, StartCall(r, block))
    BY DEF WatcherStarts
  <2> HIDE DEF Calls
  <2>3. calls' = calls \o <<StartCall(r, block)>>
    BY <2>1, <2>2
  <2> QED
    BY <2>3 DEF WatcherStarts, responderVars, networkVars
<1>2. PICK more : more = <<StartCall(r, block)>>
  OBVIOUS
<1>3. /\ more \in Seq(Calls) /\ Len(more) = 1 /\ more[1].op = "startResponse"
      /\ \A k \in DOMAIN more : more[k].op # "endResponse"
  <2>1. StartCall(r, block) \in Calls /\ StartCall(r, block).op = "startResponse"
    <3>1. block \in Nat
      <4>1. Len(chain) \in Nat
        BY ChainShape
      <4> QED
        BY <4>1
    <3> QED
      BY <3>1 DEF StartCall, Calls
  <2> HIDE DEF Calls, StartCall
  <2> QED
    BY <1>2, <2>1
<1>4. PICK n : n = Len(calls)
  OBVIOUS
<1>5. PICK S : S = R[n]
  OBVIOUS
<1>6. /\ S \in SUBSET used /\ \E f : Run(S, f)
      /\ Heads(S) /\ Gone(R[0])
  <2>1. Len(calls) \in Nat
    <3>1. calls \in Seq(Calls)
      BY DEF CallsInv, CallsOK
    <3> QED
      BY <3>1
  <2>2. Len(calls) \in 0..Len(calls)
    BY <2>1
  <2> QED
    BY <1>4, <1>5, <2>2 DEF Waiting
<1>7. PICK P : P = [k \in 0..1 |-> S]
  OBVIOUS
<1>8. P[0] = S /\ P[1] = S
  BY <1>7
<1>9. \A q : (\E k \in DOMAIN calls' : calls'[k].op = "endResponse" /\ calls'[k].id = q)
              => \E k \in DOMAIN calls : calls[k].op = "endResponse" /\ calls[k].id = q
  <2>1. calls \in Seq(Calls)
    BY DEF CallsInv, CallsOK
  <2>2. /\ DOMAIN calls' = 1..(n + 1) /\ DOMAIN calls = 1..n /\ n \in Nat
        /\ \A k \in 1..(n + 1) : calls'[k] = IF k <= n THEN calls[k] ELSE more[k - n]
    <3> HIDE DEF Calls
    <3> QED
      BY <1>1, <1>2, <1>3, <1>4, <2>1, ConcatPlaces
  <2>3. SUFFICES ASSUME NEW q, NEW k \in 1..(n + 1),
                        calls'[k].op = "endResponse", calls'[k].id = q
                 PROVE  \E j \in 1..n : calls[j].op = "endResponse" /\ calls[j].id = q
    BY <2>2
  <2>4. k <= n
    <3>1. SUFFICES ASSUME ~(k <= n) PROVE FALSE
      OBVIOUS
    <3>2. calls'[k] = more[k - n] /\ k - n = 1
      BY <2>2, <3>1
    <3> QED
      BY <1>3, <2>3, <3>2
  <2> QED
    BY <2>2, <2>3, <2>4
<1>10. Heads(S)'
  BY <1>1, <1>6, <1>9, HeadsStay
<1>11. Gone(R[0])'
  BY <1>1, <1>6, GoneStays
<1>12. ASSUME NEW k \in 1..Len(more)
       PROVE  /\ P[k] \in SUBSET used /\ \E f : Run(P[k], f)
              /\ P[k] = After(more[k], P[k - 1])
              /\ reorgs = 0 => P[k - 1] \subseteq P[k]
              /\ more[k].op = "endResponse" =>
                     \A t \in used : t.id = more[k].id => t \in P[k - 1]
  <2>1. k = 1 /\ k - 1 = 0
    BY <1>3
  <2> QED
    BY <1>3, <1>6, <1>8, <2>1 DEF After
<1>13. P[0] = R[Len(calls)] /\ UNCHANGED <<used, reorgs>> /\ calls' = calls \o more
  BY <1>1, <1>2, <1>5, <1>8, <1>4
<1>14. Heads(P[Len(more)])'
  <2>1. P[Len(more)] = S
    BY <1>3, <1>8
  <2> QED
    BY <1>10, <2>1
<1> QED
  BY <1>3, <1>11, <1>12, <1>13, <1>14, MoreWaits

(* A transaction that is mined for the first time is of no response that is *)
(* forgotten, or is to be.                                                  *)
LEMMA MinedAnew ==
    ASSUME ChainInv, ChainInv', CallsInv, LedgerInv, NoncesInv', OneNonce',
           NEW n \in 0..MaxPerBlock, NEW txs \in [1..n -> sent], Mine(txs),
           NEW i \in 1..n
    PROVE  ~Ends(txs[i].id)
<1>1. /\ Len(chain) \in Nat /\ DOMAIN chain = 1..Len(chain)
      /\ \A t : t \in Mined <=> t \in Upto(chain, Len(chain))
  BY ChainShape
<1>2. /\ Len(chain') = Len(chain) + 1 /\ DOMAIN chain' = 1..(Len(chain) + 1)
      /\ \A b \in DOMAIN chain : chain'[b] = chain[b]
      /\ chain'[Len(chain) + 1].txs = txs
      /\ DOMAIN txs = 1..n /\ txs[i] \in sent /\ txs[i] \in used'
      /\ used \subseteq used'
  <2>1. /\ Len(chain') = Len(chain) + 1 /\ DOMAIN chain' = 1..(Len(chain) + 1)
        /\ \A b \in DOMAIN chain : chain'[b] = chain[b]
        /\ chain'[Len(chain) + 1] = [txs |-> txs, state |-> <<>>, known |-> FALSE,
                                     emitted |-> FALSE]
        /\ DOMAIN txs = 1..n /\ \A j \in 1..n : txs[j] \in sent
        /\ used' = used \cup {txs[j] : j \in 1..n}
    BY MineShape
  <2> QED
    BY <2>1
<1>3. SUFFICES ASSUME Ends(txs[i].id) PROVE FALSE
  OBVIOUS
<1>4. PICK t \in Mined : t \in used /\ t.id = txs[i].id
  BY <1>2, <1>3, EndsIsDeep, DeepIsMined
<1>5. t = txs[i]
  BY <1>2, <1>4 DEF OneNonce
<1>6. PICK b \in 1..Len(chain) : Holds(chain, b, t)
  BY <1>1, <1>4, UptoHolds
<1>7. Holds(chain', b, t) /\ Holds(chain', Len(chain) + 1, t)
  BY <1>1, <1>2, <1>5, <1>6 DEF Holds
<1>8. b = Len(chain) + 1
  <2>1. b \in DOMAIN chain' /\ Len(chain) + 1 \in DOMAIN chain'
    BY <1>1, <1>2
  <2> QED
    BY <1>7, <2>1 DEF NoncesInv
<1> QED
  BY <1>1, <1>8

(* A mined block changes nothing of what the queue will be past: no head is *)
(* emitted yet.                                                             *)
LEMMA MineWaits ==
    ASSUME ChainInv, ChainInv', CallsInv, LedgerInv, NoncesInv, NoncesInv', OneNonce',
           NEW n \in 0..MaxPerBlock, NEW txs \in [1..n -> sent], Mine(txs),
           NEW R, Waiting(R)
    PROVE  Waiting(R)'
<1>1. /\ Len(chain) \in Nat /\ DOMAIN chain = 1..Len(chain)
      /\ \A t : t \in Mined <=> \E b \in DOMAIN chain : Holds(chain, b, t)
      /\ \A t : t \in Mined' <=> \E b \in DOMAIN chain' : Holds(chain', b, t)
  <2>1. Len(chain) \in Nat /\ DOMAIN chain = 1..Len(chain)
    BY ChainShape
  <2> QED
    BY <2>1 DEF Mined, Holds
<1>2. /\ Len(chain') = Len(chain) + 1 /\ DOMAIN chain' = 1..(Len(chain) + 1)
      /\ \A b \in DOMAIN chain : chain'[b] = chain[b]
      /\ chain'[Len(chain) + 1] = [txs |-> txs, state |-> <<>>, known |-> FALSE,
                                   emitted |-> FALSE]
      /\ DOMAIN txs = 1..n /\ n \in Nat
      /\ \A i \in 1..n : txs[i] \in sent /\ txs[i].nonce = NextNonce + i - 1
      /\ used' = used \cup {txs[i] : i \in 1..n}
  BY MineShape
<1>3. UNCHANGED <<queue, emptyNonce, transactions, issued, overtaken, calls, visible, reorgs>>
  BY DEF Mine, responderVars
<1>4. \A i \in 1..n : ~Ends(txs[i].id)
  BY MinedAnew
<1>5. PICK S : S = R[Len(calls)]
  OBVIOUS
<1>6. Heads(S) /\ Gone(R[0])
  BY <1>5 DEF Waiting
<1>7. Tracked' = Tracked /\ \A r : Ends(r)' <=> Ends(r)
  BY <1>3 DEF Ends, Tracked
<1>8. \A b \in DOMAIN chain : Upto(chain', b) = Upto(chain, b)
  <2>1. ASSUME NEW b \in DOMAIN chain PROVE \A a \in 1..b : chain'[a].txs = chain[a].txs
    <3>1. b \in 1..Len(chain)
      BY <1>1
    <3>2. ASSUME NEW a \in 1..b PROVE a \in DOMAIN chain
      BY <1>1, <3>1
    <3>3. \A a \in DOMAIN chain : chain'[a] = chain[a]
      BY <1>2
    <3> QED
      BY <3>2, <3>3
  <2> QED
    BY <2>1, UptoSame
<1>9. \A e \in DOMAIN chain' : chain'[e].emitted \/ chain'[e].known => e \in DOMAIN chain
  <2>1. ~chain'[Len(chain) + 1].emitted /\ ~chain'[Len(chain) + 1].known
    BY <1>2
  <2>2. SUFFICES ASSUME NEW e \in 1..(Len(chain) + 1), e # Len(chain) + 1
                 PROVE  e \in 1..Len(chain)
    BY <1>1, <1>2, <2>1
  <2> QED
    BY <1>1, <2>2
<1>10. (\A e \in DOMAIN chain : chain[e].emitted => Upto(chain, e) \subseteq S)'
  BY <1>2, <1>6, <1>8, <1>9 DEF Heads
<1>11. (\A e \in DOMAIN chain :
           /\ chain[e].emitted /\ LastEmitted(e)
           /\ reorgs = 0 \/ (e = Len(chain) /\ Len(chain) >= visible)
           => S = Upto(chain, e))'
  <2>1. SUFFICES ASSUME NEW e \in DOMAIN chain', chain'[e].emitted, LastEmitted(e)',
                        reorgs' = 0 \/ (e = Len(chain') /\ Len(chain') >= visible')
                 PROVE  S = Upto(chain', e)
    OBVIOUS
  <2>2. e \in DOMAIN chain /\ chain[e].emitted /\ reorgs = 0
    BY <1>1, <1>2, <1>3, <1>9, <2>1
  <2>3. LastEmitted(e)
    BY <1>1, <1>2, <2>1 DEF LastEmitted
  <2> QED
    BY <1>6, <1>8, <2>2, <2>3 DEF Heads
<1>12. (\A x, y \in Mined : Ends(y.id) /\ x.nonce <= y.nonce => x \in S)'
  <2>1. SUFFICES ASSUME NEW x \in Mined', NEW y \in Mined', Ends(y.id), x.nonce <= y.nonce
                 PROVE  x \in S
    BY <1>7
  <2>2. ASSUME NEW z \in Mined' PROVE z \in Mined \/ \E i \in 1..n : z = txs[i]
    <3>1. PICK b \in 1..(Len(chain) + 1) : Holds(chain', b, z)
      BY <1>1, <1>2
    <3>2. CASE b = Len(chain) + 1
      <4>1. chain'[b].txs = txs
        BY <1>2, <3>2
      <4> QED
        BY <1>2, <3>1, <4>1 DEF Holds
    <3>3. CASE b # Len(chain) + 1
      <4>1. b \in 1..Len(chain) /\ Holds(chain, b, z)
        BY <1>1, <1>2, <3>1, <3>3 DEF Holds
      <4> QED
        BY <1>1, <4>1
    <3> QED
      BY <3>2, <3>3
  <2>3. y \in Mined
    BY <1>4, <2>1, <2>2
  <2>4. Run(Mined, NextNonce)
    BY NextAfterMined
  <2>5. y.nonce \in Nat /\ y.nonce < NextNonce /\ NextNonce \in Nat
    <3>1. y.nonce \in FirstNonce..(NextNonce - 1) /\ NextNonce \in Nat
      BY <2>3, <2>4 DEF Run
    <3> QED
      BY <3>1, SizesAreNatural
  <2>6. x \in Mined
    <3>1. SUFFICES ASSUME NEW i \in 1..n, x = txs[i] PROVE FALSE
      BY <2>2
    <3>2. x.nonce = NextNonce + i - 1
      BY <1>2, <3>1
    <3> QED
      BY <1>2, <2>1, <2>5, <3>2
  <2> QED
    BY <1>6, <2>1, <2>3, <2>6 DEF Heads
<1>13. (\A b \in DOMAIN chain : chain[b].known =>
           \/ b < visible
           \/ \E e \in DOMAIN chain : e >= b /\ chain[e].emitted
           \/ \A t \in S : t.id \in Tracked => Entry(b, t.id) # {})'
  <2>1. SUFFICES ASSUME NEW b \in DOMAIN chain', chain'[b].known
                 PROVE  (\/ b < visible
                         \/ \E e \in DOMAIN chain : e >= b /\ chain[e].emitted
                         \/ \A t \in S : t.id \in Tracked => Entry(b, t.id) # {})'
    OBVIOUS
  <2>2. b \in DOMAIN chain /\ chain'[b] = chain[b] /\ chain[b].known
    BY <1>2, <1>9, <2>1
  <2>3. \/ b < visible
        \/ \E e \in DOMAIN chain : e >= b /\ chain[e].emitted
        \/ \A t \in S : t.id \in Tracked => Entry(b, t.id) # {}
    BY <1>6, <2>2 DEF Heads
  <2>4. \A r : Entry(b, r)' = Entry(b, r)
    BY <2>2 DEF Entry
  <2>5. \A e \in DOMAIN chain : e \in DOMAIN chain' /\ chain'[e] = chain[e]
    BY <1>1, <1>2
  <2> QED
    BY <1>3, <1>7, <2>3, <2>4, <2>5
<1>14. Heads(S)'
  BY <1>10, <1>11, <1>12, <1>13 DEF Heads
<1>15. Gone(R[0])'
  <2>1. \A t \in used' : t \in used \/ t.id \in Tracked
    BY <1>2, <1>4 DEF Ends
  <2> QED
    BY <1>3, <1>6, <2>1, GoneStays
<1>16. \A t \in used' \ used : ~ \E k \in DOMAIN calls :
           calls[k].op = "endResponse" /\ calls[k].id = t.id
  BY <1>2, <1>4 DEF Ends
<1>17. used \subseteq used'
  BY <1>2
<1> QED
  BY <1>3, <1>5, <1>14, <1>15, <1>16, <1>17, StillWaits

(* Neither does a reorganisation: the heads that were emitted and remain    *)
(* are as they were.                                                        *)
LEMMA ReorgWaits ==
    ASSUME ChainInv, ChainInv', CallsInv, HeadsInv, NEW depth \in 1..Confirmations, Reorg(depth),
           NEW R, Waiting(R)
    PROVE  Waiting(R)'
<1>1. Len(chain) \in Nat /\ DOMAIN chain = 1..Len(chain) /\ visible \in Nat
  BY ChainShape
<1>2. /\ Len(chain') = Len(chain) - depth /\ Len(chain') \in 1..Len(chain)
      /\ DOMAIN chain' = 1..Len(chain')
      /\ \A b \in DOMAIN chain' : b \in DOMAIN chain /\ chain'[b] = chain[b]
      /\ visible' = IF visible > Len(chain) THEN visible ELSE Len(chain) + 1
      /\ depth \in Nat
  BY ReorgShape
<1>3. UNCHANGED <<queue, emptyNonce, transactions, issued, overtaken, calls, used>>
  BY DEF Reorg, responderVars
<1>4. reorgs' # 0 /\ Len(chain') < visible'
  <2>1. reorgs' = reorgs + 1 /\ reorgs \in Nat
    BY DEF Reorg, HeadsInv
  <2> QED
    BY <1>1, <1>2, <2>1
<1>5. PICK S : S = R[Len(calls)]
  OBVIOUS
<1>6. Heads(S) /\ Gone(R[0])
  BY <1>5 DEF Waiting
<1>7. Tracked' = Tracked /\ \A r : Ends(r)' <=> Ends(r)
  BY <1>3 DEF Ends, Tracked
<1>8. \A b \in DOMAIN chain' : Upto(chain', b) = Upto(chain, b)
  <2>1. ASSUME NEW b \in DOMAIN chain' PROVE \A a \in 1..b : chain'[a].txs = chain[a].txs
    BY <1>1, <1>2
  <2> QED
    BY <2>1, UptoSame
<1>9. Mined' \subseteq Mined
  BY <1>2 DEF Mined
<1>10. (\A e \in DOMAIN chain : chain[e].emitted => Upto(chain, e) \subseteq S)'
  BY <1>2, <1>6, <1>8 DEF Heads
<1>11. (\A e \in DOMAIN chain :
           /\ chain[e].emitted /\ LastEmitted(e)
           /\ reorgs = 0 \/ (e = Len(chain) /\ Len(chain) >= visible)
           => S = Upto(chain, e))'
  BY <1>1, <1>2, <1>4
<1>12. (\A x, y \in Mined : Ends(y.id) /\ x.nonce <= y.nonce => x \in S)'
  BY <1>6, <1>7, <1>9 DEF Heads
<1>13. (\A b \in DOMAIN chain : chain[b].known =>
           \/ b < visible
           \/ \E e \in DOMAIN chain : e >= b /\ chain[e].emitted
           \/ \A t \in S : t.id \in Tracked => Entry(b, t.id) # {})'
  <2>1. \A b \in DOMAIN chain' : b < visible'
    BY <1>1, <1>2
  <2> QED
    BY <2>1
<1>14. Heads(S)'
  BY <1>10, <1>11, <1>12, <1>13 DEF Heads
<1>15. Gone(R[0])'
  BY <1>3, <1>6, GoneStays
<1> QED
  BY <1>3, <1>4, <1>5, <1>14, <1>15, StillWaits

(* Nor does a block that the tower comes to know: its state has whomever    *)
(* the queue is past.                                                       *)
LEMMA NewBlockWaits ==
    ASSUME ChainInv, CallsInv, RecordsInv, NewBlock, NEW R, Waiting(R),
           \A j \in DOMAIN transactions : \A b \in DOMAIN chain :
               StateAt(transactions[j].request.id, b).id = transactions[j].request.id
    PROVE  Waiting(R)'
<1>1. /\ Len(chain) \in Nat /\ DOMAIN chain = 1..Len(chain) /\ visible \in Nat
  BY ChainShape
<1>2. PICK b \in Unknown :
         /\ \A a \in Unknown : b <= a
         /\ Len(chain') = Len(chain) /\ DOMAIN chain' = DOMAIN chain
         /\ \A a \in DOMAIN chain : /\ chain'[a].txs = chain[a].txs
                                    /\ chain'[a].emitted = chain[a].emitted
         /\ \A a \in DOMAIN chain \ {b} : chain'[a] = chain[a]
         /\ chain'[b].known
         /\ chain'[b].state = [i \in DOMAIN transactions |->
                                  StateAt(transactions[i].request.id, b)]
  BY NewBlockShape
<1>3. UNCHANGED <<queue, emptyNonce, transactions, issued, overtaken, calls, used, visible, reorgs>>
  BY DEF NewBlock, responderVars, countVars
<1>4. PICK S : S = R[Len(calls)]
  OBVIOUS
<1>5. Heads(S) /\ Gone(R[0])
  BY <1>4 DEF Waiting
<1>6. Tracked' = Tracked /\ \A r : Ends(r)' <=> Ends(r)
  BY <1>3 DEF Ends, Tracked
<1>7. \A a \in DOMAIN chain : Upto(chain', a) = Upto(chain, a)
  <2>1. ASSUME NEW a \in DOMAIN chain PROVE \A e \in 1..a : chain'[e].txs = chain[e].txs
    BY <1>1, <1>2
  <2> QED
    BY <2>1, UptoSame
<1>8. Mined' = Mined
  BY <1>2 DEF Mined
<1>9. (\A e \in DOMAIN chain : chain[e].emitted => Upto(chain, e) \subseteq S)'
  BY <1>2, <1>5, <1>7 DEF Heads
<1>10. (\A e \in DOMAIN chain :
           /\ chain[e].emitted /\ LastEmitted(e)
           /\ reorgs = 0 \/ (e = Len(chain) /\ Len(chain) >= visible)
           => S = Upto(chain, e))'
  <2>1. SUFFICES ASSUME NEW e \in DOMAIN chain', chain'[e].emitted, LastEmitted(e)',
                        reorgs' = 0 \/ (e = Len(chain') /\ Len(chain') >= visible')
                 PROVE  S = Upto(chain', e)
    OBVIOUS
  <2>2. e \in DOMAIN chain /\ chain[e].emitted
        /\ (reorgs = 0 \/ (e = Len(chain) /\ Len(chain) >= visible))
    BY <1>2, <1>3, <2>1
  <2>3. LastEmitted(e)
    BY <1>2, <2>1 DEF LastEmitted
  <2> QED
    BY <1>5, <1>7, <2>2, <2>3 DEF Heads
<1>11. (\A x, y \in Mined : Ends(y.id) /\ x.nonce <= y.nonce => x \in S)'
  BY <1>5, <1>6, <1>8 DEF Heads
<1>12. (\A a \in DOMAIN chain : chain[a].known =>
           \/ a < visible
           \/ \E e \in DOMAIN chain : e >= a /\ chain[e].emitted
           \/ \A t \in S : t.id \in Tracked => Entry(a, t.id) # {})'
  <2>1. SUFFICES ASSUME NEW a \in DOMAIN chain', chain'[a].known
                 PROVE  (\/ a < visible
                         \/ \E e \in DOMAIN chain : e >= a /\ chain[e].emitted
                         \/ \A t \in S : t.id \in Tracked => Entry(a, t.id) # {})'
    OBVIOUS
  <2>2. CASE a = b
    <3>1. ASSUME NEW t \in S, t.id \in Tracked' PROVE Entry(a, t.id)' # {}
      <4>1. PICK j \in DOMAIN transactions : transactions[j].request.id = t.id
        BY <1>6, <3>1 DEF Tracked, Ids
      <4>2. chain'[a].state[j] = StateAt(t.id, b) /\ j \in DOMAIN chain'[a].state
        BY <1>2, <2>2, <4>1
      <4>3. StateAt(t.id, b).id = t.id
        BY <4>1 DEF Unknown
      <4> QED
        BY <4>2, <4>3 DEF Entry
    <3> QED
      BY <3>1
  <2>3. CASE a # b
    <3>1. a \in DOMAIN chain /\ chain'[a] = chain[a] /\ chain[a].known
      BY <1>2, <2>1, <2>3
    <3>2. \/ a < visible
          \/ \E e \in DOMAIN chain : e >= a /\ chain[e].emitted
          \/ \A t \in S : t.id \in Tracked => Entry(a, t.id) # {}
      BY <1>5, <3>1 DEF Heads
    <3>3. \A r : Entry(a, r)' = Entry(a, r)
      BY <3>1 DEF Entry
    <3> QED
      BY <1>2, <1>3, <1>6, <3>2, <3>3
  <2> QED
    BY <2>2, <2>3
<1>13. Heads(S)'
  BY <1>9, <1>10, <1>11, <1>12 DEF Heads
<1>14. Gone(R[0])'
  BY <1>3, <1>5, GoneStays
<1> QED
  BY <1>3, <1>4, <1>13, <1>14, StillWaits

-----------------------------------------------------------------------------
(* What the blocks and their states say of the requests *)

Observed(c, seen, block) == block + Confirmations <= Top(c, seen) + 1

(* An event is observed in a block that is confirmed, or was; the response  *)
(* to it is mined in no earlier one.                                        *)
ObservedInv ==
    /\ \A k \in DOMAIN calls : calls[k].op = "startResponse" =>
             Observed(chain, visible, calls[k].observed)
    /\ \A q \in Asked : Observed(chain, visible, q.observed)
    /\ \A q \in Asked, b \in DOMAIN chain, t \in used :
           Holds(chain, b, t) /\ t.id = q.id => q.observed <= b

(* A state says of whom it has whether it is mined, and has each that is    *)
(* mined and has a record.                                                  *)
StatesInv ==
    \A b \in DOMAIN chain : chain[b].known =>
        /\ \A i \in DOMAIN chain[b].state : ~chain[b].state[i].mined =>
               \A t \in Upto(chain, b) : t.id # chain[b].state[i].id
        /\ \A t \in Upto(chain, b) : t.id \in Tracked => Entry(b, t.id) # {}

(* Whoever a state calls pending is tracked, and stays so. *)
LEMMA PendingStays ==
    ASSUME ChainInv, CallsInv, HeadsInv, StatesInv, Len(chain) >= visible,
           NEW b \in DOMAIN chain, b = Len(chain), chain[b].known,
           NEW i \in DOMAIN chain[b].state, ~chain[b].state[i].mined
    PROVE  ~Ends(chain[b].state[i].id)
<1>1. /\ Len(chain) \in Nat /\ DOMAIN chain = 1..Len(chain)
      /\ \A t : t \in Mined <=> t \in Upto(chain, Len(chain))
  BY ChainShape
<1> DEFINE r == chain[b].state[i].id
<1>2. ~Deep(chain, visible, r)
  <2>1. SUFFICES ASSUME Deep(chain, visible, r) PROVE FALSE
    OBVIOUS
  <2>2. PICK t \in Mined : t.id = r
    BY <2>1, DeepIsMined
  <2>3. t \in Upto(chain, b)
    BY <1>1, <2>2
  <2> QED
    BY <2>2, <2>3 DEF StatesInv
<1>3. r \in Tracked
  BY <1>2 DEF HeadsInv
<1>4. ASSUME NEW k \in DOMAIN calls, calls[k].op = "endResponse", calls[k].id = r PROVE FALSE
  BY <1>2, <1>4 DEF CallsInv, CallsOK, CallOK
<1> QED
  BY <1>3, <1>4 DEF Ends

-----------------------------------------------------------------------------
(* component.ts:239-283: what a head asks for, in which order *)

(* The responses that are pending at b, and the transaction of an entry     *)
PendingAt(b) == Among(chain[b].state, {Pending(r) : r \in Response})
PendingIds(b) == [i \in DOMAIN PendingAt(b) |-> PendingAt(b)[i].id]
MinedOf(b, i) == MinedCall(chain[b].state[i].id, chain[b].state[i].nonce)

(* First what is pending, then of each response what is mined and what ends *)
LEMMA ChangesShape ==
    ASSUME ChainInv, NEW a, NEW b \in DOMAIN chain, EachOnce(chain[b].state),
           NEW D, D = DetectChanges(a, b)
    PROVE  /\ \A k \in DOMAIN D :
                 \/ k = 1 /\ D[k] = ReEnqueueCall(PendingIds(b))
                 \/ \E i \in NewlyMined(a, b) : D[k] = MinedOf(b, i)
                 \/ \E i \in DOMAIN chain[b].state :
                       /\ D[k] = EndCall(chain[b].state[i].id)
                       /\ chain[b].state[i].mined
                       /\ i \in NewlyMined(a, b) => \E j \in 1..(k - 1) : D[j] = MinedOf(b, i)
           /\ PendingAt(b) # <<>> => 1 \in DOMAIN D /\ D[1] = ReEnqueueCall(PendingIds(b))
           /\ \A i \in NewlyMined(a, b) : \E k \in DOMAIN D : D[k] = MinedOf(b, i)
           /\ Len(D) \in Nat /\ DOMAIN D = 1..Len(D)
<1> DEFINE state   == chain[b].state
           L       == Len(state)
           Nothing == [op |-> "nothing"]
           requeue == IF PendingAt(b) = <<>> THEN Nothing
                      ELSE ReEnqueueCall(PendingIds(b))
           mined(i) == IF i \notin NewlyMined(a, b) THEN Nothing ELSE MinedOf(b, i)
           ended(i) == IF ShouldBeRemoved(b, state[i].id)
                          /\ ~ShouldBeRemoved(a, state[i].id)
                       THEN EndCall(state[i].id) ELSE Nothing
           ofEach  == [k \in 1..(2 * Len(state)) |->
                          IF k % 2 = 1 THEN mined((k + 1) \div 2) ELSE ended(k \div 2)]
           all     == <<requeue>> \o ofEach
           some    == {all[k] : k \in DOMAIN all} \ {Nothing}
<1>1. D = Among(all, some)
  BY DEF DetectChanges, PendingAt, PendingIds, MinedOf
<1>2. /\ L \in Nat /\ DOMAIN state = 1..L
      /\ \A i \in NewlyMined(a, b) : i \in 1..L /\ state[i].mined
  <2>1. state \in Seq(Entries)
    BY BlockTypes DEF ChainInv, ChainOK
  <2> QED
    BY <2>1 DEF NewlyMined
<1>3. \A i \in DOMAIN state : ended(i) # Nothing =>
            ended(i) = EndCall(state[i].id) /\ state[i].mined
  BY DEF ShouldBeRemoved, Entry, EachOnce
<1>4. \A i : mined(i) # Nothing <=> i \in NewlyMined(a, b)
  BY DEF MinedOf, MinedCall
<1>5. requeue # Nothing <=> PendingAt(b) # <<>>
  BY DEF ReEnqueueCall
<1> DEFINE T == {requeue} \cup {ofEach[k] : k \in 1..(2 * L)}
<1>6. /\ ofEach \in Seq(T) /\ Len(ofEach) = 2 * L
      /\ \A i \in 1..L : ofEach[2 * i - 1] = mined(i) /\ ofEach[2 * i] = ended(i)
      /\ \A k \in 1..(2 * L) : \E i \in 1..L : k = 2 * i - 1 \/ k = 2 * i
  <2>1. ASSUME NEW i \in 1..L
        PROVE  /\ 2 * i - 1 \in 1..(2 * L) /\ 2 * i \in 1..(2 * L)
               /\ (2 * i - 1) % 2 = 1 /\ ((2 * i - 1) + 1) \div 2 = i
               /\ (2 * i) % 2 = 0 /\ (2 * i) \div 2 = i
    BY <1>2
  <2>2. ASSUME NEW k \in 1..(2 * L) PROVE \E i \in 1..L : k = 2 * i - 1 \/ k = 2 * i
    <3>1. (k + 1) \div 2 \in 1..L /\ (k = 2 * ((k + 1) \div 2) - 1 \/ k = 2 * ((k + 1) \div 2))
      BY <1>2
    <3> QED
      BY <3>1
  <2> HIDE DEF mined, ended, state
  <2>3. \A i \in 1..L : ofEach[2 * i - 1] = mined(i) /\ ofEach[2 * i] = ended(i)
    BY <2>1
  <2>4. ofEach \in Seq(T) /\ Len(ofEach) = 2 * L
    <3>1. \A k \in 1..(2 * L) : ofEach[k] \in T
      OBVIOUS
    <3>2. 2 * L \in Nat /\ DOMAIN ofEach = 1..(2 * L) /\ ofEach = [k \in 1..(2 * L) |-> ofEach[k]]
      BY <1>2
    <3> HIDE DEF ofEach, T, L
    <3> QED
      BY <3>1, <3>2
  <2> QED
    BY <2>2, <2>3, <2>4
<1> HIDE DEF mined, ended, requeue, ofEach
<1>7. /\ all \in Seq(T) /\ Len(all) = 2 * L + 1 /\ DOMAIN all = 1..(2 * L + 1)
      /\ all[1] = requeue
      /\ \A i \in 1..L : all[2 * i] = mined(i) /\ all[2 * i + 1] = ended(i)
      /\ \A k \in 1..(2 * L + 1) : k = 1 \/ \E i \in 1..L : k = 2 * i \/ k = 2 * i + 1
  <2>1. <<requeue>> \in Seq(T) /\ Len(<<requeue>>) = 1 /\ <<requeue>>[1] = requeue
    OBVIOUS
  <2> HIDE DEF T, L
  <2>2. /\ all \in Seq(T) /\ Len(all) = 1 + 2 * L
        /\ \A k \in 1..(1 + 2 * L) : all[k] = IF k <= 1 THEN <<requeue>>[k] ELSE ofEach[k - 1]
    BY <1>6, <2>1, ConcatPlaces
  <2> HIDE DEF all
  <2>3. DOMAIN all = 1..(2 * L + 1) /\ Len(all) = 2 * L + 1 /\ all[1] = requeue
    BY <1>2, <2>1, <2>2
  <2>4. ASSUME NEW i \in 1..L
        PROVE  all[2 * i] = mined(i) /\ all[2 * i + 1] = ended(i)
    <3>1. /\ 2 * i \in 1..(1 + 2 * L) /\ ~(2 * i <= 1)
          /\ 2 * i + 1 \in 1..(1 + 2 * L) /\ ~(2 * i + 1 <= 1) /\ (2 * i + 1) - 1 = 2 * i
      BY <1>2
    <3> QED
      BY <1>6, <2>2, <3>1
  <2>5. ASSUME NEW k \in 1..(2 * L + 1), k # 1
        PROVE  \E i \in 1..L : k = 2 * i \/ k = 2 * i + 1
    <3>1. k - 1 \in 1..(2 * L)
      BY <1>2, <2>5
    <3>2. PICK i \in 1..L : k - 1 = 2 * i - 1 \/ k - 1 = 2 * i
      BY <1>6, <3>1
    <3> QED
      BY <1>2, <3>2
  <2> QED
    BY <2>2, <2>3, <2>4, <2>5
<1> HIDE DEF all, T
<1>8. /\ D \in Seq(T)
      /\ \A k \in DOMAIN D : D[k] \in some
      /\ \E nth : /\ Places(nth, all, D)
                  /\ \A p \in DOMAIN all : all[p] \in some => \E k \in DOMAIN D : nth[k] = p
  <2> HIDE DEF some
  <2>1. all \in Seq(T)
    BY <1>7
  <2> QED
    BY <1>1, <2>1, AmongInOrder
<1>9. PICK nth : /\ Places(nth, all, D)
                 /\ \A p \in DOMAIN all : all[p] \in some => \E k \in DOMAIN D : nth[k] = p
  BY <1>8
<1>10. \A p \in DOMAIN all : all[p] # Nothing => \E k \in DOMAIN D : nth[k] = p /\ D[k] = all[p]
  BY <1>9 DEF Places
<1>11. /\ nth \in [DOMAIN D -> 1..(2 * L + 1)] /\ \A k \in DOMAIN D : D[k] = all[nth[k]]
       /\ \A k, m \in DOMAIN D : k < m => nth[k] < nth[m]
  BY <1>7, <1>9 DEF Places
<1>12. \A k \in DOMAIN D : D[k] # Nothing
  BY <1>8
<1> HIDE DEF some, Nothing, L, state
<1>13. Len(D) \in Nat /\ DOMAIN D = 1..Len(D)
  BY <1>8
<1>14. \A k \in DOMAIN D : nth[k] = 1 => k = 1
  <2>1. SUFFICES ASSUME NEW k \in DOMAIN D, nth[k] = 1, k # 1 PROVE FALSE
    OBVIOUS
  <2>2. 1 \in DOMAIN D /\ 1 < k
    BY <1>13, <2>1
  <2>3. nth[1] < 1 /\ nth[1] \in 1..(2 * L + 1)
    BY <1>11, <2>1, <2>2
  <2> QED
    BY <2>3
<1>15. ASSUME PendingAt(b) # <<>> PROVE 1 \in DOMAIN D /\ D[1] = ReEnqueueCall(PendingIds(b))
  <2>1. 1 \in DOMAIN all /\ all[1] = ReEnqueueCall(PendingIds(b)) /\ all[1] # Nothing
    BY <1>2, <1>5, <1>7, <1>15 DEF requeue
  <2> QED
    BY <1>10, <1>14, <2>1
<1>16. ASSUME NEW i \in NewlyMined(a, b)
       PROVE  \E k \in DOMAIN D : nth[k] = 2 * i /\ D[k] = MinedOf(b, i)
  <2>1. i \in 1..L
    BY <1>2
  <2>2. 2 * i \in DOMAIN all
    BY <1>2, <1>7, <2>1
  <2>3. all[2 * i] = MinedOf(b, i) /\ all[2 * i] # Nothing
    <3>1. all[2 * i] = mined(i)
      BY <1>7, <2>1
    <3> QED
      BY <1>4, <3>1 DEF mined
  <2> QED
    BY <1>10, <2>2, <2>3
<1>17. ASSUME NEW k \in DOMAIN D
       PROVE  \/ k = 1 /\ D[k] = ReEnqueueCall(PendingIds(b))
              \/ \E i \in NewlyMined(a, b) : D[k] = MinedOf(b, i)
              \/ \E i \in DOMAIN state :
                    /\ D[k] = EndCall(state[i].id)
                    /\ state[i].mined
                    /\ i \in NewlyMined(a, b) => \E j \in 1..(k - 1) : D[j] = MinedOf(b, i)
  <2>1. PICK p \in 1..(2 * L + 1) : p = nth[k]
    BY <1>11
  <2>2. D[k] = all[p] /\ all[p] # Nothing
    BY <1>11, <1>12, <2>1
  <2>3. CASE p = 1
    BY <1>5, <1>7, <1>14, <2>1, <2>2, <2>3 DEF requeue
  <2>4. ASSUME NEW i \in 1..L, p = 2 * i
        PROVE  \E j \in NewlyMined(a, b) : D[k] = MinedOf(b, j)
    <3>1. D[k] = mined(i) /\ mined(i) # Nothing
      BY <1>7, <2>2, <2>4
    <3>2. i \in NewlyMined(a, b)
      BY <1>4, <3>1
    <3> QED
      BY <3>1, <3>2 DEF mined
  <2>5. ASSUME NEW i \in 1..L, p = 2 * i + 1
        PROVE  /\ i \in DOMAIN state /\ D[k] = EndCall(state[i].id) /\ state[i].mined
               /\ i \in NewlyMined(a, b) => \E j \in 1..(k - 1) : D[j] = MinedOf(b, i)
    <3>1. D[k] = ended(i) /\ ended(i) # Nothing /\ i \in DOMAIN state
      BY <1>2, <1>7, <2>2, <2>5
    <3>2. ASSUME i \in NewlyMined(a, b) PROVE \E j \in 1..(k - 1) : D[j] = MinedOf(b, i)
      <4>1. PICK j \in DOMAIN D : nth[j] = 2 * i /\ D[j] = MinedOf(b, i)
        BY <1>16, <3>2
      <4>2. k \in Nat /\ j \in Nat /\ j >= 1 /\ i \in Nat
        BY <1>2, <1>13
      <4>3. ~(nth[k] < nth[j]) /\ nth[k] # nth[j]
        BY <2>1, <2>5, <4>1, <4>2
      <4>4. ~(k < j) /\ k # j
        BY <1>11, <4>3
      <4> QED
        BY <4>1, <4>2, <4>4
    <3> QED
      BY <1>3, <3>1, <3>2
  <2> QED
    BY <1>7, <2>3, <2>4, <2>5
<1> QED
  BY <1>13, <1>15, <1>16, <1>17 DEF state

(* The transaction of an entry is on the chain, and its response's only one. *)
TxOfEntry(b, i) == [id |-> chain[b].state[i].id, nonce |-> chain[b].state[i].nonce]

(* A response that a state calls mined has no other transaction than the    *)
(* one that the state says.                                                 *)
LEMMA EntryHolds ==
    ASSUME ChainInv, OneNonce, NEW b \in DOMAIN chain,
           NEW i \in DOMAIN chain[b].state, chain[b].state[i].mined
    PROVE  /\ TxOfEntry(b, i) \in Upto(chain, b) /\ TxOfEntry(b, i) \in used
           /\ \A t \in used : t.id = chain[b].state[i].id => t = TxOfEntry(b, i)
<1> DEFINE s == chain[b].state[i]
           x == TxOfEntry(b, i)
<1>1. s.block \in 1..b /\ Holds(chain, s.block, x)
  BY DEF ChainInv, ChainOK, EntryOK, TxOfEntry
<1>2. x \in Upto(chain, b)
  BY <1>1, UptoHolds
<1>3. x \in used
  BY <1>2, ChainShape
<1>4. x.id = s.id
  BY DEF TxOfEntry
<1> HIDE DEF x, s
<1>5. \A t \in used : t.id = s.id => t = x
  BY <1>3, <1>4 DEF OneNonce
<1> QED
  BY <1>2, <1>3, <1>5 DEF x, s

(* Those that are put back are the pending ones of the state, each once. *)
LEMMA PendingOnes ==
    ASSUME ChainInv, NEW b \in DOMAIN chain
    PROVE  /\ \A r : (\E i \in DOMAIN PendingIds(b) : PendingIds(b)[i] = r)
                       <=> \E i \in DOMAIN chain[b].state :
                              chain[b].state[i].id = r /\ ~chain[b].state[i].mined
           /\ PendingAt(b) = <<>> => DOMAIN PendingIds(b) = {}
           /\ EachOnce(chain[b].state) =>
                 \A i, j \in DOMAIN PendingIds(b) : PendingIds(b)[i] = PendingIds(b)[j] => i = j
<1> DEFINE state == chain[b].state
           P     == {Pending(r) : r \in Response}
           some  == PendingAt(b)
<1>1. /\ state \in Seq(Entries)
      /\ \A i \in DOMAIN state : state[i] \in Entries /\ EntryOK(chain, state[i], b)
  BY BlockTypes DEF ChainInv, ChainOK
<1>2. \A i \in DOMAIN state : state[i] \in P <=> ~state[i].mined
  <2>1. \A r \in Response : Pending(r).mined = FALSE
    BY DEF Pending
  <2>2. ASSUME NEW i \in DOMAIN state, ~state[i].mined PROVE state[i] \in P
    BY <1>1, <2>2 DEF EntryOK, Pending, Entries
  <2> QED
    BY <2>1, <2>2
<1>3. some = Among(state, P)
  BY DEF PendingAt
<1> HIDE DEF state, P, some
<1>4. /\ some \in Seq(Entries)
      /\ \A k \in DOMAIN some : some[k] \in P
      /\ \A i \in DOMAIN state : state[i] \in P => \E k \in DOMAIN some : some[k] = state[i]
      /\ \E nth : Places(nth, state, some)
  BY <1>1, <1>3, AmongInOrder
<1>5. PICK nth : Places(nth, state, some)
  BY <1>4
<1>6. PendingIds(b) = [i \in DOMAIN some |-> some[i].id]
  BY DEF PendingIds, some
<1>7. /\ DOMAIN PendingIds(b) = DOMAIN some
      /\ \A i \in DOMAIN some : PendingIds(b)[i] = some[i].id
  BY <1>6
<1>8. ASSUME NEW r
      PROVE  (\E i \in DOMAIN some : PendingIds(b)[i] = r)
               <=> \E i \in DOMAIN state : state[i].id = r /\ ~state[i].mined
  <2>1. ASSUME NEW k \in DOMAIN some, PendingIds(b)[k] = r
        PROVE  \E i \in DOMAIN state : state[i].id = r /\ ~state[i].mined
    <3>1. nth[k] \in DOMAIN state /\ some[k] = state[nth[k]] /\ some[k] \in P
      BY <1>4, <1>5, <2>1 DEF Places
    <3> QED
      BY <1>2, <1>7, <2>1, <3>1
  <2>2. ASSUME NEW i \in DOMAIN state, state[i].id = r, ~state[i].mined
        PROVE  \E k \in DOMAIN some : PendingIds(b)[k] = r
    BY <1>2, <1>4, <1>7, <2>2
  <2> QED
    BY <2>1, <2>2
<1>9. ASSUME EachOnce(state), NEW i \in DOMAIN some, NEW j \in DOMAIN some,
             PendingIds(b)[i] = PendingIds(b)[j]
      PROVE  i = j
  <2>1. /\ nth[i] \in DOMAIN state /\ some[i] = state[nth[i]]
        /\ nth[j] \in DOMAIN state /\ some[j] = state[nth[j]]
        /\ nth[i] = nth[j] => i = j
    BY <1>5 DEF Places
  <2> QED
    BY <1>7, <1>9, <2>1 DEF EachOnce
<1>10. some = <<>> => DOMAIN some = {}
  OBVIOUS
<1> QED
  BY <1>7, <1>8, <1>9, <1>10 DEF some, state

(* The head before, and what the new one brings *)
LEMMA HeadBrings ==
    ASSUME ChainInv, CallsInv, LedgerInv, NoncesInv, HeadsInv, StatesInv, OneNonce, NewHead,
           NEW S \in SUBSET used, Heads(S),
           NEW h, h = Len(chain), NEW a, a = PrevEmitted(h), NEW U, U = Upto(chain, h)
    PROVE  /\ h \in DOMAIN chain /\ chain[h].known /\ ~chain[h].emitted /\ Len(chain) >= visible
           /\ U \subseteq used /\ \A t : t \in Mined <=> t \in U
           /\ a \in DOMAIN chain /\ Upto(chain, a) \subseteq S /\ Upto(chain, a) \subseteq U
           /\ reorgs = 0 => S \subseteq U
           /\ \A i \in NewlyMined(a, h) : i \in DOMAIN chain[h].state /\ TxOfEntry(h, i) \in U
           /\ \A y \in U : \/ y \in Upto(chain, a) \/ Ends(y.id)
                           \/ \E i \in NewlyMined(a, h) : TxOfEntry(h, i) = y
           /\ \A t \in S : t \in U <=> ~ \E i \in DOMAIN chain[h].state :
                                          chain[h].state[i].id = t.id /\ ~chain[h].state[i].mined
<1>1. /\ h \in Nat /\ h >= 1 /\ DOMAIN chain = 1..h /\ h \in DOMAIN chain
      /\ visible \in Nat
      /\ \A t : t \in Mined <=> t \in U
      /\ \A b \in DOMAIN chain : Upto(chain, b) \subseteq used
  BY ChainShape
<1>2. /\ chain[h].known /\ ~chain[h].emitted /\ h >= visible
  BY DEF NewHead
<1>3. /\ a \in DOMAIN chain /\ chain[a].emitted /\ a < h
      /\ \A e \in DOMAIN chain : chain[e].emitted => e <= a
  <2> DEFINE heights == {h - e : e \in EmittedBefore(h)}
  <2>1. \A e \in EmittedBefore(h) :
            e \in 1..(h - 1) /\ e \in Nat /\ h - e \in Nat /\ chain[e].emitted
    BY <1>1 DEF EmittedBefore
  <2>2. 1 \in EmittedBefore(h)
    <3>1. chain[1].emitted
      BY DEF HeadsInv
    <3> QED
      BY <1>1, <1>2, <3>1 DEF EmittedBefore
  <2>3. heights \subseteq Nat /\ heights # {}
    BY <2>1, <2>2
  <2>4. \E m \in heights : \A g \in heights : m <= g
    <3> HIDE DEF heights
    <3> QED
      BY <2>3, LeastPlace
  <2>5. PICK e \in EmittedBefore(h) : \A g \in heights : h - e <= g
    BY <2>4
  <2>6. \A c \in EmittedBefore(h) : h - e <= h - c
    BY <2>5
  <2>7. \A c \in EmittedBefore(h) : c <= e
    BY <1>1, <2>1, <2>6
  <2>8. a \in EmittedBefore(h) /\ \A c \in EmittedBefore(h) : c <= a
    BY <2>7 DEF PrevEmitted
  <2>9. \A c \in DOMAIN chain : chain[c].emitted => c \in EmittedBefore(h)
    BY <1>1, <1>2 DEF EmittedBefore
  <2> QED
    BY <1>1, <2>1, <2>8, <2>9
<1>4. Upto(chain, a) \subseteq S /\ Upto(chain, a) \subseteq U
  <2>1. Upto(chain, a) \subseteq S
    BY <1>3 DEF Heads
  <2>2. a \in Nat /\ a <= h
    BY <1>1, <1>3
  <2> QED
    BY <1>1, <2>1, <2>2, UptoMore
<1>5. reorgs = 0 => S \subseteq U
  BY <1>3, <1>4 DEF Heads, LastEmitted
<1>6. ASSUME NEW i \in NewlyMined(a, h)
      PROVE  i \in DOMAIN chain[h].state /\ chain[h].state[i].mined /\ TxOfEntry(h, i) \in U
  BY <1>1, EntryHolds DEF NewlyMined
<1>7. ASSUME NEW y \in U
      PROVE  \/ y \in Upto(chain, a) \/ Ends(y.id)
             \/ \E i \in NewlyMined(a, h) : TxOfEntry(h, i) = y
  <2>1. SUFFICES ASSUME ~Ends(y.id), y \notin Upto(chain, a)
                 PROVE  \E i \in NewlyMined(a, h) : TxOfEntry(h, i) = y
    OBVIOUS
  <2>2. y.id \in Tracked /\ y \in used
    BY <1>1, <2>1 DEF Ends
  <2>3. Entry(h, y.id) # {} /\ \A i \in DOMAIN chain[h].state :
            ~chain[h].state[i].mined => y.id # chain[h].state[i].id
    BY <1>1, <1>2, <2>2 DEF StatesInv
  <2>4. PICK i \in DOMAIN chain[h].state : chain[h].state[i].id = y.id
    BY <2>3 DEF Entry
  <2>5. chain[h].state[i].mined /\ y = TxOfEntry(h, i)
    BY <1>1, <2>2, <2>3, <2>4, EntryHolds
  <2>6. ~HasBeenMined(a, y.id)
    <3>1. SUFFICES ASSUME HasBeenMined(a, y.id) PROVE FALSE
      OBVIOUS
    <3>2. PICK j \in DOMAIN chain[a].state : chain[a].state[j].id = y.id /\ chain[a].state[j].mined
      BY <3>1 DEF HasBeenMined, Entry
    <3> QED
      BY <1>3, <2>1, <2>2, <3>2, EntryHolds
  <2> QED
    BY <2>4, <2>5, <2>6 DEF NewlyMined
<1>8. ASSUME NEW t \in S
      PROVE  t \in U <=> ~ \E i \in DOMAIN chain[h].state :
                            chain[h].state[i].id = t.id /\ ~chain[h].state[i].mined
  <2>1. t \in used /\ t.id \in Started
    BY DEF LedgerInv, Started, Asked, TxOf
  <2>2. t \in U => ~ \E i \in DOMAIN chain[h].state :
                        chain[h].state[i].id = t.id /\ ~chain[h].state[i].mined
    BY <1>1, <1>2 DEF StatesInv
  <2>3. ASSUME ~ \E i \in DOMAIN chain[h].state :
                    chain[h].state[i].id = t.id /\ ~chain[h].state[i].mined
        PROVE  t \in U
    <3>1. CASE t.id \notin Tracked
      <4>1. PICK u \in Mined : u \in used /\ u.id = t.id
        BY <2>1, <3>1, DeepIsMined DEF LedgerInv
      <4>2. u = t
        BY <2>1, <4>1 DEF OneNonce
      <4> QED
        BY <1>1, <4>1, <4>2
    <3>2. CASE t.id \in Tracked
      <4>1. \/ h < visible \/ \E e \in DOMAIN chain : e >= h /\ chain[e].emitted
            \/ \A u \in S : u.id \in Tracked => Entry(h, u.id) # {}
        BY <1>1, <1>2 DEF Heads
      <4>2. ~(h < visible) /\ ~ \E e \in DOMAIN chain : e >= h /\ chain[e].emitted
        BY <1>1, <1>2, <1>3
      <4>3. PICK i \in DOMAIN chain[h].state : chain[h].state[i].id = t.id
        BY <3>2, <4>1, <4>2 DEF Entry
      <4>4. chain[h].state[i].mined
        BY <2>3, <4>3
      <4> QED
        BY <1>1, <2>1, <4>3, <4>4, EntryHolds
    <3> QED
      BY <3>1, <3>2
  <2> QED
    BY <2>2, <2>3
<1> QED
  BY <1>1, <1>2, <1>3, <1>4, <1>5, <1>6, <1>7, <1>8

(* The transactions K and what is newly mined make those of the new head. *)
NewOnes(a, h, K, U) ==
    /\ \E f : Run(K, f)
    /\ \E f : Run(U, f)
    /\ NewlyMined(a, h) = {} => K = U
    /\ \A i \in NewlyMined(a, h) : K \cup {TxOfEntry(h, i)} = U

(* Two things that differ are two. *)
LEMMA TwoOfThem ==
    ASSUME NEW x, NEW y, x # y
    PROVE  Cardinality({x, y}) = 2
<1> DEFINE one == {x}
<1>1. IsFiniteSet(one) /\ Cardinality(one) = 1
  BY FS_Singleton
<1>2. y \notin one /\ {x, y} = one \cup {y}
  OBVIOUS
<1> HIDE DEF one
<1>3. Cardinality(one \cup {y}) = Cardinality(one) + 1
  BY <1>1, <1>2, FS_AddElement
<1>4. Cardinality(one \cup {y}) = 2
  BY <1>1, <1>3
<1> QED
  BY <1>2, <1>4

(* component.ts:219-237, one head at a time: what is newly mined is the next *)
(* transaction, unless the queue is to be past it already.                   *)
LEMMA HeadGoesOn ==
    ASSUME ChainInv, CallsInv, LedgerInv, NoncesInv, HeadsInv, StatesInv, OneNonce, NewHead,
           ~crowded', NEW S \in SUBSET used, Heads(S),
           NEW h, h = Len(chain), NEW a, a = PrevEmitted(h), NEW U, U = Upto(chain, h)
    PROVE  NewOnes(a, h, S \cap U, U)
<1> DEFINE K == S \cap U
<1>1. /\ h \in DOMAIN chain /\ chain[h].known
      /\ U \subseteq used /\ \A t : t \in Mined <=> t \in U
      /\ a \in DOMAIN chain /\ Upto(chain, a) \subseteq S /\ Upto(chain, a) \subseteq U
      /\ \A i \in NewlyMined(a, h) : i \in DOMAIN chain[h].state /\ TxOfEntry(h, i) \in U
      /\ \A y \in U : \/ y \in Upto(chain, a) \/ Ends(y.id)
                      \/ \E i \in NewlyMined(a, h) : TxOfEntry(h, i) = y
  BY HeadBrings
<1>2. \A x, y \in U : Ends(y.id) /\ x.nonce <= y.nonce => x \in S
  BY <1>1 DEF Heads
<1>3. \A t \in U : t.nonce \in Nat
  <2>1. \A t \in U : t \in sent \cup used
    BY <1>1
  <2>2. \E f : Run(U, f)
    BY <1>1 DEF NoncesInv
  <2>3. FirstNonce \in Nat
    BY SizesAreNatural
  <2> QED
    BY <2>2, <2>3 DEF Run
<1>4. \A i, j \in NewlyMined(a, h) : i = j
  <2>1. ~(Cardinality(NewlyMined(a, h)) > 1)
    BY DEF NewHead
  <2>2. IsFiniteSet(NewlyMined(a, h))
    <3>1. chain[h].state \in Seq(Entries)
      BY <1>1, BlockTypes DEF ChainInv, ChainOK
    <3>2. Len(chain[h].state) \in Nat /\ DOMAIN chain[h].state = 1..Len(chain[h].state)
      BY <3>1
    <3>3. NewlyMined(a, h) \subseteq 1..Len(chain[h].state)
      BY <3>2 DEF NewlyMined
    <3>4. IsFiniteSet(1..Len(chain[h].state))
      <4> DEFINE L == Len(chain[h].state)
      <4>1. L \in Int /\ 1 \in Int
        BY <3>2
      <4> HIDE DEF L
      <4>2. IsFiniteSet(1..L)
        BY <4>1, FS_Interval
      <4> QED
        BY <4>2 DEF L
    <3> DEFINE new == NewlyMined(a, h)
               all == 1..Len(chain[h].state)
    <3>5. new \subseteq all /\ IsFiniteSet(all)
      BY <3>3, <3>4
    <3> HIDE DEF new, all
    <3>6. IsFiniteSet(new)
      BY <3>5, FS_Subset
    <3> QED
      BY <3>6 DEF new
  <2>3. SUFFICES ASSUME NEW i \in NewlyMined(a, h), NEW j \in NewlyMined(a, h), i # j
                 PROVE  FALSE
    OBVIOUS
  <2> DEFINE new == NewlyMined(a, h)
  <2>4. Cardinality({i, j}) = 2
    BY ONLY <2>3, TwoOfThem
  <2>5. Cardinality({i, j}) <= Cardinality(new) /\ Cardinality(new) \in Nat
    BY <2>2, <2>3, FS_Subset, FS_CardinalityType
  <2> QED
    BY <2>1, <2>4, <2>5
<1>5. \A y \in U : y \in S \/ \E i \in NewlyMined(a, h) : TxOfEntry(h, i) = y
  <2>1. \A y \in U : Ends(y.id) => y \in S
    BY <1>2, <1>3
  <2> QED
    BY <1>1, <2>1
<1>6. PICK f : Run(U, f)
  BY <1>1 DEF NoncesInv
<1>7. NewlyMined(a, h) = {} => K = U
  BY <1>5
<1>8. ASSUME NEW i \in NewlyMined(a, h) PROVE K \cup {TxOfEntry(h, i)} = U
  <2>1. \A y \in U : y \in S \/ y = TxOfEntry(h, i)
    BY <1>4, <1>5
  <2> QED
    BY <1>1, <2>1
<1>9. \E g : Run(K, g)
  <2>1. CASE K = U
    BY <1>6, <2>1
  <2>2. CASE K # U
    <3>1. PICK i \in NewlyMined(a, h) : TRUE
      BY <1>7, <2>2
    <3>2. PICK x : x = TxOfEntry(h, i)
      OBVIOUS
    <3>3. x \in U /\ K \cup {x} = U /\ x \notin K /\ x \notin S
      BY <1>1, <1>8, <2>2, <3>2
    <3>4. /\ f \in Nat /\ f >= FirstNonce /\ FirstNonce \in Nat
          /\ \A t \in U : t.nonce \in FirstNonce..(f - 1)
          /\ \A n \in FirstNonce..(f - 1) : \E t \in U : t.nonce = n
          /\ \A t, u \in U : t.nonce = u.nonce => t = u
      BY <1>6, SizesAreNatural DEF Run
    <3>5. ASSUME NEW y \in U PROVE y.nonce <= x.nonce
      <4>1. SUFFICES ASSUME ~(y.nonce <= x.nonce) PROVE FALSE
        OBVIOUS
      <4>2. x.nonce \in Nat /\ y.nonce \in Nat /\ x.nonce <= y.nonce /\ y # x
            /\ x.nonce >= FirstNonce
        BY <1>3, <3>3, <3>4, <4>1
      <4>3. y \in Upto(chain, a)
        <5>1. ~Ends(y.id)
          BY <1>2, <3>3, <4>2
        <5>2. ~ \E j \in NewlyMined(a, h) : TxOfEntry(h, j) = y
          BY <1>4, <3>2, <4>2
        <5> QED
          BY <1>1, <5>1, <5>2
      <4>4. PICK e : Run(Upto(chain, a), e)
        BY <1>1 DEF NoncesInv
      <4>5. x.nonce \in FirstNonce..(e - 1)
        <5>1. y.nonce \in FirstNonce..(e - 1) /\ e \in Nat
          BY <4>3, <4>4 DEF Run
        <5> QED
          BY <3>4, <4>2, <5>1
      <4>6. PICK z \in Upto(chain, a) : z.nonce = x.nonce
        BY <4>4, <4>5 DEF Run
      <4>7. z = x
        BY <1>1, <3>3, <3>4, <4>6
      <4> QED
        BY <1>1, <3>3, <4>6, <4>7
    <3>6. \A y \in K : y \in U /\ y # x
      BY <3>3
    <3>7. x.nonce \in Nat /\ x.nonce >= FirstNonce /\ x.nonce <= f - 1
      BY <3>3, <3>4
    <3>8. \A t \in K : t.nonce \in FirstNonce..(x.nonce - 1)
      <4>1. ASSUME NEW t \in K PROVE t.nonce \in FirstNonce..(x.nonce - 1)
        <5>1. t.nonce # x.nonce /\ t.nonce \in FirstNonce..(f - 1) /\ t.nonce <= x.nonce
          BY <3>3, <3>4, <3>5, <3>6
        <5> QED
          BY <3>4, <3>7, <5>1
      <4> QED
        BY <4>1
    <3>9. \A n \in FirstNonce..(x.nonce - 1) : \E t \in K : t.nonce = n
      <4>1. ASSUME NEW n \in FirstNonce..(x.nonce - 1) PROVE \E t \in K : t.nonce = n
        <5>1. n \in FirstNonce..(f - 1) /\ n # x.nonce
          BY <3>4, <3>7
        <5>2. PICK t \in U : t.nonce = n
          BY <3>4, <5>1
        <5> QED
          BY <3>3, <5>1, <5>2
      <4> QED
        BY <4>1
    <3> QED
      BY <3>4, <3>6, <3>7, <3>8, <3>9 DEF Run
  <2> QED
    BY <2>1, <2>2
<1> QED
  BY <1>6, <1>7, <1>8, <1>9 DEF NewOnes

(* What the queue will be past while it serves these calls *)
Passes(P, more) ==
    \A k \in 1..Len(more) :
        /\ P[k] \in SUBSET used /\ \E f : Run(P[k], f)
        /\ P[k] = After(more[k], P[k - 1])
        /\ reorgs = 0 => P[k - 1] \subseteq P[k]
        /\ more[k].op = "endResponse" =>
               \A t \in used : t.id = more[k].id => t \in P[k - 1]

(* It will be past what the chain has, once it has served the new head. *)
LEMMA HeadServes ==
    ASSUME ChainInv, CallsInv, LedgerInv, NoncesInv, HeadsInv, StatesInv, OneNonce, NewHead,
           ~crowded', NEW S \in SUBSET used, Heads(S),
           NEW h, h = Len(chain), NEW a, a = PrevEmitted(h), NEW U, U = Upto(chain, h),
           NEW D, D = DetectChanges(a, h)
    PROVE  \E P : P[0] = S /\ P[Len(D)] = U /\ Passes(P, D)
<1>1. /\ h \in DOMAIN chain /\ chain[h].known
      /\ U \subseteq used
      /\ a \in DOMAIN chain /\ Upto(chain, a) \subseteq S /\ Upto(chain, a) \subseteq U
      /\ reorgs = 0 => S \subseteq U
      /\ \A i \in NewlyMined(a, h) : i \in DOMAIN chain[h].state /\ TxOfEntry(h, i) \in U
      /\ \A t \in S : t \in U <=> ~ \E i \in DOMAIN chain[h].state :
                                     chain[h].state[i].id = t.id /\ ~chain[h].state[i].mined
  BY HeadBrings
<1>2. PICK K : K = S \cap U
  OBVIOUS
<1>3. /\ \E f : Run(K, f)
      /\ \E f : Run(U, f)
      /\ NewlyMined(a, h) = {} => K = U
      /\ \A i \in NewlyMined(a, h) : K \cup {TxOfEntry(h, i)} = U
  <2>1. NewOnes(a, h, S \cap U, U)
    BY HeadGoesOn
  <2> QED
    BY <1>2, <2>1 DEF NewOnes
<1>4. EachOnce(chain[h].state)
  BY <1>1 DEF HeadsInv
<1>5. /\ \A k \in DOMAIN D :
             \/ k = 1 /\ D[k] = ReEnqueueCall(PendingIds(h))
             \/ \E i \in NewlyMined(a, h) : D[k] = MinedOf(h, i)
             \/ \E i \in DOMAIN chain[h].state :
                   /\ D[k] = EndCall(chain[h].state[i].id)
                   /\ chain[h].state[i].mined
                   /\ i \in NewlyMined(a, h) => \E j \in 1..(k - 1) : D[j] = MinedOf(h, i)
      /\ PendingAt(h) # <<>> => 1 \in DOMAIN D /\ D[1] = ReEnqueueCall(PendingIds(h))
      /\ \A i \in NewlyMined(a, h) : \E k \in DOMAIN D : D[k] = MinedOf(h, i)
      /\ Len(D) \in Nat /\ DOMAIN D = 1..Len(D)
  BY <1>1, <1>4, ChangesShape
<1>6. /\ \A i : MinedOf(h, i).op = "txMined"
               /\ [id |-> MinedOf(h, i).id, nonce |-> MinedOf(h, i).nonce] = TxOfEntry(h, i)
      /\ \A r : EndCall(r).op = "endResponse" /\ EndCall(r).id = r
      /\ ReEnqueueCall(PendingIds(h)).op = "reEnqueueMissingItems"
      /\ ReEnqueueCall(PendingIds(h)).ids = PendingIds(h)
  BY DEF MinedOf, MinedCall, EndCall, ReEnqueueCall, TxOfEntry
<1>7. /\ \A r : (\E i \in DOMAIN PendingIds(h) : PendingIds(h)[i] = r)
                    <=> \E i \in DOMAIN chain[h].state :
                           chain[h].state[i].id = r /\ ~chain[h].state[i].mined
      /\ PendingAt(h) = <<>> => DOMAIN PendingIds(h) = {}
  BY <1>1, PendingOnes
<1> DEFINE Past(k) == \E i \in NewlyMined(a, h) : \E j \in 1..k : D[j] = MinedOf(h, i)
           P == [k \in 0..Len(D) |-> IF k = 0 THEN S ELSE IF Past(k) THEN U ELSE K]
<1>8. /\ P[0] = S
      /\ \A k \in 1..Len(D) : P[k] = IF Past(k) THEN U ELSE K
  BY <1>5
<1> HIDE DEF P
<1>9. ~Past(0)
  OBVIOUS
<1>10. 1 \notin DOMAIN D \/ D[1] # ReEnqueueCall(PendingIds(h)) => S = K
  <2>1. SUFFICES ASSUME PendingAt(h) = <<>> PROVE S = K
    BY <1>5
  <2>2. DOMAIN PendingIds(h) = {}
    BY <1>7, <2>1
  <2>3. ~ \E i \in DOMAIN chain[h].state : ~chain[h].state[i].mined
    BY <1>7, <2>2
  <2> QED
    BY <1>1, <1>2, <2>3
<1>11. ASSUME D # <<>> => D[1] = ReEnqueueCall(PendingIds(h)), 1 \in DOMAIN D
       PROVE  After(D[1], S) = K
  <2>1. D[1] = ReEnqueueCall(PendingIds(h))
    BY <1>5, <1>11
  <2>2. After(D[1], S) = {t \in S : \A i \in DOMAIN PendingIds(h) : PendingIds(h)[i] # t.id}
    BY <1>6, <2>1 DEF After
  <2>3. \A t \in S : t \in U <=> \A i \in DOMAIN PendingIds(h) : PendingIds(h)[i] # t.id
    <3>1. \A t \in S : (\E i \in DOMAIN PendingIds(h) : PendingIds(h)[i] = t.id)
                           <=> \E i \in DOMAIN chain[h].state :
                                  chain[h].state[i].id = t.id /\ ~chain[h].state[i].mined
      BY <1>7
    <3> QED
      BY <1>1, <3>1
  <2> QED
    BY <1>2, <2>2, <2>3
<1> HIDE DEF Past
<1>12. ASSUME NEW k \in 1..Len(D)
       PROVE  /\ P[k] \in SUBSET used /\ \E f : Run(P[k], f)
              /\ P[k] = After(D[k], P[k - 1])
              /\ reorgs = 0 => P[k - 1] \subseteq P[k]
              /\ D[k].op = "endResponse" =>
                     \A t \in used : t.id = D[k].id => t \in P[k - 1]
  <2>1. P[k] \in SUBSET used /\ \E f : Run(P[k], f)
    <3>1. P[k] = U \/ P[k] = K
      BY <1>8
    <3>2. U \subseteq used /\ K \subseteq used
      BY <1>1, <1>2
    <3> QED
      BY <1>3, <3>1, <3>2
  <2>2. k \in DOMAIN D /\ k - 1 \in 0..Len(D)
    BY <1>5
  <2>3. \/ k = 1 /\ D[k] = ReEnqueueCall(PendingIds(h))
        \/ P[k - 1] = IF Past(k - 1) THEN U ELSE K
    <3>1. CASE k = 1
      BY <1>5, <1>8, <1>9, <1>10, <2>2, <3>1
    <3>2. CASE k # 1
      <4>1. k - 1 \in 1..Len(D)
        BY <1>5, <3>2
      <4> QED
        BY <1>8, <4>1
    <3> QED
      BY <3>1, <3>2
  <2>4. Past(k) <=> Past(k - 1) \/ \E i \in NewlyMined(a, h) : D[k] = MinedOf(h, i)
    <3>1. \A j : j \in 1..k <=> j \in 1..(k - 1) \/ j = k
      BY <1>5
    <3> QED
      BY <3>1 DEF Past
  <2>5. CASE k = 1 /\ D[k] = ReEnqueueCall(PendingIds(h))
    <3>1. ~Past(k)
      BY <1>6, <1>9, <2>4, <2>5
    <3>2. P[k] = K /\ P[k - 1] = S
      BY <1>8, <2>5, <3>1
    <3>3. After(D[k], S) = K
      BY <1>11, <2>2, <2>5
    <3>4. D[k].op # "endResponse"
      BY <1>6, <2>5
    <3> QED
      BY <1>1, <1>2, <2>1, <3>2, <3>3, <3>4
  <2>6. ASSUME NEW i \in NewlyMined(a, h), D[k] = MinedOf(h, i)
        PROVE  /\ P[k] = After(D[k], P[k - 1]) /\ P[k - 1] \subseteq P[k]
               /\ D[k].op # "endResponse"
    <3>1. P[k] = U
      BY <1>8, <2>4, <2>6
    <3>2. P[k - 1] = U \/ P[k - 1] = K
      BY <1>6, <2>3, <2>6
    <3>3. After(D[k], P[k - 1]) = P[k - 1] \cup {TxOfEntry(h, i)}
      BY <1>6, <2>6 DEF After
    <3>4. P[k - 1] \cup {TxOfEntry(h, i)} = U
      BY <1>1, <1>3, <3>2
    <3>5. D[k].op # "endResponse"
      BY <1>6, <2>6
    <3> QED
      BY <1>2, <3>1, <3>2, <3>3, <3>4, <3>5
  <2>7. ASSUME NEW i \in DOMAIN chain[h].state, D[k] = EndCall(chain[h].state[i].id),
               chain[h].state[i].mined,
               i \in NewlyMined(a, h) => \E j \in 1..(k - 1) : D[j] = MinedOf(h, i)
        PROVE  /\ P[k] = After(D[k], P[k - 1]) /\ P[k - 1] \subseteq P[k]
               /\ \A t \in used : t.id = D[k].id => t \in P[k - 1]
    <3>1. D[k].op = "endResponse" /\ D[k].id = chain[h].state[i].id
      BY <1>6, <2>7
    <3>2. P[k - 1] = IF Past(k - 1) THEN U ELSE K
      BY <1>6, <2>3, <3>1
    <3>3. P[k] = P[k - 1]
      <4>1. Past(k) <=> Past(k - 1)
        BY <1>6, <2>4, <3>1
      <4> QED
        BY <1>8, <3>2, <4>1
    <3>4. After(D[k], P[k - 1]) = P[k - 1]
      BY <3>1 DEF After
    <3>5. ASSUME NEW t \in used, t.id = D[k].id PROVE t \in P[k - 1]
      <4>1. t = TxOfEntry(h, i)
        BY <1>1, <2>7, <3>1, <3>5, EntryHolds
      <4>2. CASE i \in NewlyMined(a, h)
        BY <1>1, <2>7, <3>2, <4>1, <4>2 DEF Past
      <4>3. CASE i \notin NewlyMined(a, h)
        <5>1. HasBeenMined(a, chain[h].state[i].id)
          BY <2>7, <4>3 DEF NewlyMined
        <5>2. PICK j \in DOMAIN chain[a].state :
                 chain[a].state[j].id = t.id /\ chain[a].state[j].mined
          BY <3>1, <3>5, <5>1 DEF HasBeenMined, Entry
        <5>3. t \in Upto(chain, a)
          BY <1>1, <5>2, EntryHolds
        <5> QED
          BY <1>1, <1>2, <3>2, <5>3
      <4> QED
        BY <4>2, <4>3
    <3> QED
      BY <3>3, <3>4, <3>5
  <2> QED
    BY <1>5, <2>1, <2>2, <2>5, <2>6, <2>7
<1>13. P[Len(D)] = U
  <2>1. CASE Len(D) = 0
    <3>1. NewlyMined(a, h) = {} /\ 1 \notin DOMAIN D
      BY <1>5, <2>1
    <3> QED
      BY <1>3, <1>8, <1>10, <2>1, <3>1
  <2>2. CASE Len(D) # 0
    <3>1. Len(D) \in 1..Len(D)
      BY <1>5, <2>2
    <3>2. CASE NewlyMined(a, h) = {}
      BY <1>3, <1>8, <3>1, <3>2
    <3>3. CASE NewlyMined(a, h) # {}
      <4>1. Past(Len(D))
        BY <1>5, <3>3 DEF Past
      <4> QED
        BY <1>8, <3>1, <4>1
    <3> QED
      BY <3>2, <3>3
  <2> QED
    BY <2>1, <2>2
<1> QED
  BY <1>8, <1>12, <1>13 DEF Passes

(* multiResponder.ts and component.ts:219-237: the queue is to be past what  *)
(* the chain has up to the new head.                                         *)
LEMMA NewHeadWaits ==
    ASSUME ChainInv, CallsInv, LedgerInv, NoncesInv, HeadsInv, StatesInv, OneNonce, NewHead,
           ~crowded', NEW R, Waiting(R)
    PROVE  \E Q : Waiting(Q)'
<1>1. PICK h, a, U, D, S : /\ h = Len(chain) /\ a = PrevEmitted(h) /\ U = Upto(chain, h)
                           /\ D = DetectChanges(a, h) /\ S = R[Len(calls)]
  OBVIOUS
<1>2. S \in SUBSET used /\ Heads(S)
  <2>1. Len(calls) \in 0..Len(calls)
    BY DEF CallsInv, CallsOK
  <2> QED
    BY <1>1, <2>1 DEF Waiting
<1>3. PICK P : P[0] = S /\ P[Len(D)] = U /\ Passes(P, D)
  BY <1>1, <1>2, HeadServes
<1>4. D \in Seq(Calls) /\ calls' = calls \o D /\ UNCHANGED <<used, reorgs, visible>>
  <2>1. Len(chain) >= visible
    BY DEF NewHead
  <2>2. D \in Seq(Calls)
    BY <1>1, <2>1, ChangesAreTrue DEF ChainInv, CallsOK
  <2> QED
    BY <1>1, <2>2 DEF NewHead
<1>5. UNCHANGED <<queue, emptyNonce, transactions, issued, overtaken>>
  BY StoreIsKept
<1>6. Gone(R[0])'
  BY <1>4, <1>5, GoneStays DEF Waiting
<1>7. /\ Len(chain') = Len(chain) /\ DOMAIN chain' = DOMAIN chain
      /\ \A b \in DOMAIN chain : /\ chain'[b].txs = chain[b].txs
                                 /\ chain'[b].known = chain[b].known
                                 /\ chain'[b].state = chain[b].state
      /\ chain'[h].emitted
  BY <1>1, NewHeadShape
<1>8. /\ h \in Nat /\ h >= 1 /\ DOMAIN chain = 1..h /\ h \in DOMAIN chain
      /\ \A t : t \in Mined <=> t \in U
  BY <1>1, ChainShape
<1>9. \A b \in DOMAIN chain : Upto(chain', b) = Upto(chain, b)
  BY <1>7, <1>8, UptoSame
<1>10. Heads(U)'
  <2>1. \A e \in DOMAIN chain : Upto(chain', e) \subseteq U
    <3>1. \A e \in DOMAIN chain : Upto(chain, e) \subseteq U
      BY <1>1, <1>8, UptoMore
    <3> QED
      BY <1>9, <3>1
  <2>2. \A e \in DOMAIN chain : LastEmitted(e)' => e = h
    BY <1>7, <1>8 DEF LastEmitted
  <2>3. U = Upto(chain', h)
    BY <1>1, <1>8, <1>9
  <2>4. Mined' = Mined
    BY <1>7 DEF Mined
  <2>5. \A b \in DOMAIN chain : h >= b
    BY <1>8
  <2> QED
    BY <1>7, <1>8, <2>1, <2>2, <2>3, <2>4, <2>5 DEF Heads
<1>11. Heads(P[Len(D)])'
  BY <1>3, <1>10
<1>12. P[0] = R[Len(calls)]
  BY <1>1, <1>3
<1> QED
  BY <1>3, <1>4, <1>6, <1>11, <1>12, MoreWaits DEF Passes

-----------------------------------------------------------------------------
(* What the calls, the requests and the states say, step by step *)

(* What all of this is about stays as it was. *)
LEMMA OnceStays ==
    ASSUME OnceInv, UNCHANGED <<calls, issued, starts>>
    PROVE  OnceInv'
  BY DEF OnceInv, Started, Asked

(* What is to be put back keeps its record while no record changes. *)
LEMMA MissingStays ==
    ASSUME MissingInv, UNCHANGED <<calls, transactions>>
    PROVE  MissingInv'
  BY DEF MissingInv, Tracked, Ids

(* What is observed stays so while the chain does. *)
LEMMA ObservedStays ==
    ASSUME ObservedInv, UNCHANGED <<calls, issued, chain, visible, used>>
    PROVE  ObservedInv'
  BY DEF ObservedInv, Observed, Asked, Holds, Top

(* The states stay true of the chain while neither changes. *)
LEMMA StatesStay ==
    ASSUME StatesInv, UNCHANGED <<transactions, chain>>
    PROVE  StatesInv'
  BY DEF StatesInv, Upto, Tracked, Ids, Entry

(* The event of a response is observed in a block that is still confirmed. *)
LEMMA ObservedFrame ==
    ASSUME ObservedInv, UNCHANGED <<calls, issued>>,
           Top(chain, visible) \in Int, Top(chain', visible') \in Int,
           Top(chain, visible) <= Top(chain', visible'),
           CallsInv, \A q \in Asked : q.observed \in Nat,
           \A q \in Asked, b \in DOMAIN chain', t \in used' :
               /\ Holds(chain', b, t) /\ t.id = q.id
               => \/ q.observed <= b
                  \/ b \in DOMAIN chain /\ Holds(chain, b, t) /\ t \in used
    PROVE  ObservedInv'
<1>1. Confirmations \in Nat /\ Asked' = Asked
  BY SizesAreNatural DEF Asked
<1>2. ASSUME NEW block \in Nat, Observed(chain, visible, block)
      PROVE  Observed(chain', visible', block)
  <2> DEFINE top  == Top(chain, visible)
             then == Top(chain', visible')
  <2>1. block + Confirmations <= top + 1 /\ top \in Int /\ then \in Int /\ top <= then
    BY <1>2 DEF Observed
  <2> HIDE DEF top, then
  <2>2. block + Confirmations <= then + 1
    BY <1>1, <2>1
  <2> QED
    BY <2>2 DEF Observed, then
<1>3. \A k \in DOMAIN calls : calls[k].op = "startResponse" => calls[k].observed \in Nat
  BY DEF CallsInv, CallsOK, CallOK
<1> HIDE DEF Top
<1>4. \A k \in DOMAIN calls' : calls'[k].op = "startResponse" =>
            Observed(chain', visible', calls'[k].observed)
  BY <1>2, <1>3 DEF ObservedInv
<1>5. \A q \in Asked' : Observed(chain', visible', q.observed)
  BY <1>1, <1>2 DEF ObservedInv
<1>6. \A q \in Asked', b \in DOMAIN chain', t \in used' :
          Holds(chain', b, t) /\ t.id = q.id => q.observed <= b
  BY <1>1 DEF ObservedInv
<1> QED
  BY <1>4, <1>5, <1>6 DEF ObservedInv

(* The states there were are as they were, and a new block is not known. *)
LEMMA StatesFrame ==
    ASSUME StatesInv, UNCHANGED transactions,
           \A b \in DOMAIN chain' : chain'[b].known =>
               /\ b \in DOMAIN chain /\ chain[b].known /\ chain'[b].state = chain[b].state
               /\ Upto(chain', b) = Upto(chain, b)
    PROVE  StatesInv'
<1>1. Tracked' = Tracked
  BY DEF Tracked, Ids
<1>2. ASSUME NEW b \in DOMAIN chain', chain'[b].known
      PROVE  \A r : Entry(b, r)' = Entry(b, r)
  BY <1>2 DEF Entry
<1> QED
  BY <1>1, <1>2 DEF StatesInv

(* A transaction is of a response that was asked for. *)
LEMMA UsedIsStarted ==
    ASSUME LedgerInv, NEW t \in used
    PROVE  t.id \in Started
  BY DEF LedgerInv, Started, Asked, TxOf

(* A call is served. *)
LEMMA ServeCalm ==
    ASSUME ResponderInv, LedgerInv, OnceInv, ObservedInv, StatesInv, MissingInv,
           NoneAgain, calls # <<>>, Served,
           \A q \in Asked' : \/ q \in Asked
                             \/ /\ Call.op = "startResponse"
                                /\ q.id = Call.id /\ q.observed = Call.observed,
           Tracked \subseteq Tracked' \/ Call.op = "endResponse",
           \A r \in Tracked \ Tracked' : r = Call.id
    PROVE  OnceInv' /\ ObservedInv' /\ StatesInv' /\ MissingInv'
<1>1. /\ Len(calls) \in Nat /\ Len(calls) >= 1 /\ DOMAIN calls = 1..Len(calls)
      /\ DOMAIN calls' = 1..(Len(calls) - 1)
      /\ \A k \in 1..(Len(calls) - 1) : calls'[k] = calls[k + 1]
      /\ Call = calls[1] /\ 1 \in DOMAIN calls
      /\ UNCHANGED <<chain, visible, used, starts>>
  <2>1. UNCHANGED <<chain, visible, used, starts>> /\ calls' = Tail(calls)
    BY DEF Served, networkVars
  <2> QED
    BY <2>1, TailShape DEF ResponderInv
<1>2. \A k \in DOMAIN calls' : k + 1 \in DOMAIN calls /\ calls'[k] = calls[k + 1] /\ k + 1 # 1
  BY <1>1
<1>3. \A r \in Started' : r \in Started \/ (Call.op = "startResponse" /\ r = Call.id)
  BY DEF Started
<1>4. OnceInv'
  <2>1. \A r \in Started' : starts'[r] >= 1
    BY <1>1, <1>3 DEF OnceInv
  <2>2. \A k \in DOMAIN calls' : calls'[k].op = "startResponse" =>
            calls'[k].id \notin Started' /\ starts'[calls'[k].id] >= 1
    BY <1>1, <1>2, <1>3 DEF OnceInv
  <2>3. \A j, k \in DOMAIN calls' :
            /\ calls'[j].op = "startResponse" /\ calls'[k].op = "startResponse"
            /\ calls'[j].id = calls'[k].id
            => j = k
    <3>1. \A j, k \in DOMAIN calls' : j + 1 = k + 1 => j = k
      BY <1>1
    <3> QED
      BY <1>2, <3>1 DEF OnceInv
  <2> QED
    BY <2>1, <2>2, <2>3 DEF OnceInv
<1>5. ObservedInv'
  <2>1. \A block : Observed(chain', visible', block) <=> Observed(chain, visible, block)
    BY <1>1 DEF Observed
  <2>2. \A k \in DOMAIN calls' : calls'[k].op = "startResponse" =>
              Observed(chain', visible', calls'[k].observed)
    BY <1>2, <2>1 DEF ObservedInv
  <2>3. \A q \in Asked' : Observed(chain', visible', q.observed)
    BY <1>1, <2>1 DEF ObservedInv
  <2>4. ASSUME NEW q \in Asked', NEW b \in DOMAIN chain, NEW t \in used,
               Holds(chain, b, t), t.id = q.id
        PROVE  q.observed <= b
    <3>1. CASE q \in Asked
      BY <2>4, <3>1 DEF ObservedInv
    <3>2. CASE Call.op = "startResponse" /\ q.id = Call.id
      BY <1>1, <2>4, <3>2, UsedIsStarted DEF OnceInv
    <3> QED
      BY <3>1, <3>2
  <2> QED
    BY <1>1, <2>2, <2>3, <2>4 DEF ObservedInv
<1>6. StatesInv'
  <2>1. \A b \in DOMAIN chain : Upto(chain, b) \subseteq used
    BY ChainShape DEF ResponderInv
  <2>2. \A b \in DOMAIN chain : \A t \in Upto(chain, b) : t.id \in Tracked' => t.id \in Tracked
    BY <2>1 DEF NoneAgain
  <2>3. /\ \A b, r : Entry(b, r)' = Entry(b, r)
        /\ \A b : Upto(chain, b)' = Upto(chain, b)
    BY <1>1 DEF Entry
  <2> QED
    BY <1>1, <2>2, <2>3 DEF StatesInv
<1>7. MissingInv'
  <2>1. SUFFICES ASSUME NEW k \in DOMAIN calls', calls'[k].op = "reEnqueueMissingItems"
                 PROVE  /\ \A i, j \in DOMAIN calls'[k].ids :
                               calls'[k].ids[i] = calls'[k].ids[j] => i = j
                        /\ \A i \in DOMAIN calls'[k].ids :
                               /\ calls'[k].ids[i] \in Tracked'
                               /\ \A j \in 1..(k - 1) : calls'[j].op = "endResponse" =>
                                      calls'[j].id # calls'[k].ids[i]
    BY DEF MissingInv
  <2>2. k + 1 \in DOMAIN calls /\ calls'[k] = calls[k + 1] /\ (k + 1) - 1 = k /\ k \in Nat
        /\ k >= 1
    BY <1>1, <1>2
  <2>3. /\ \A i, j \in DOMAIN calls'[k].ids : calls'[k].ids[i] = calls'[k].ids[j] => i = j
        /\ \A i \in DOMAIN calls'[k].ids :
               /\ calls'[k].ids[i] \in Tracked
               /\ \A j \in 1..k : calls[j].op = "endResponse" =>
                      calls[j].id # calls'[k].ids[i]
    BY <2>1, <2>2 DEF MissingInv
  <2>4. ASSUME NEW i \in DOMAIN calls'[k].ids PROVE calls'[k].ids[i] \in Tracked'
    <3>1. CASE Tracked \subseteq Tracked'
      BY <2>3, <3>1
    <3>2. CASE Call.op = "endResponse"
      <4>1. 1 \in 1..k
        BY <2>2
      <4> QED
        BY <1>1, <2>3, <3>2, <4>1
    <3> QED
      BY <3>1, <3>2
  <2>5. \A j \in 1..(k - 1) : calls'[j] = calls[j + 1] /\ j + 1 \in 1..k
    BY <1>1, <2>2
  <2> QED
    BY <2>3, <2>4, <2>5
<1> QED
  BY <1>4, <1>5, <1>6, <1>7

(* Who was asked for was observed in a block. *)
LEMMA AskedAreObserved ==
    ASSUME IssuedInv, NEW q \in Asked
    PROVE  q.observed \in Nat
<1>1. PICK x \in issued : q = x.request
  BY DEF Asked
<1>2. x \in KeptItems
  BY DEF IssuedInv
<1>3. q \in Observations
  BY <1>1, <1>2 DEF KeptItems
<1> QED
  BY <1>3 DEF Observations

(* watcher.ts:49-121: the watcher starts a response once, and for an event   *)
(* that has its confirmations.                                               *)
LEMMA StartCalm ==
    ASSUME ResponderInv, OnceInv, ObservedInv, StatesInv, MissingInv,
           NEW r \in Response, NEW block \in 1..Len(chain), WatcherStarts(r, block),
           starts'[r] <= 1, Confirmations <= ConfirmationsBeforeResponse
    PROVE  OnceInv' /\ ObservedInv' /\ StatesInv' /\ MissingInv'
<1>1. /\ UNCHANGED <<transactions, issued, chain, visible, used>>
      /\ starts' = [starts EXCEPT ![r] = @ + 1]
      /\ calls' = Append(calls, StartCall(r, block))
      /\ Len(chain) - block + 1 >= ConfirmationsBeforeResponse
  BY DEF WatcherStarts, responderVars, networkVars
<1>2. PICK n : n = Len(calls)
  OBVIOUS
<1>3. /\ n \in Nat /\ DOMAIN calls = 1..n /\ DOMAIN calls' = 1..(n + 1)
      /\ \A k \in 1..n : calls'[k] = calls[k]
      /\ calls'[n + 1] = StartCall(r, block)
  <2>1. calls \in Seq(Calls)
    BY DEF ResponderInv, CallsInv, CallsOK
  <2> HIDE DEF Calls, StartCall
  <2> QED
    BY <1>1, <1>2, <2>1
<1>4. StartCall(r, block).op = "startResponse" /\ StartCall(r, block).id = r
      /\ StartCall(r, block).observed = block
  BY DEF StartCall
<1>5. /\ starts[r] = 0 /\ starts'[r] = 1 /\ \A q \in Response : starts'[q] >= starts[q]
      /\ \A q \in Response : starts[q] \in Nat /\ starts'[q] \in Nat
  <2>1. starts \in [Response -> 0..MaxStarts] /\ MaxStarts \in Nat
    BY SizesAreNatural DEF ResponderInv, NetInv
  <2>2. \A q \in Response : starts[q] \in Nat
    BY <2>1
  <2>3. starts'[r] = starts[r] + 1 /\ \A q \in Response : q # r => starts'[q] = starts[q]
    BY <1>1, <2>1
  <2> QED
    BY <2>2, <2>3
<1>6. Started' = Started /\ \A q \in Started : q \in Response
  <2>1. \A q \in Asked : q.id \in Response
    <3>1. ASSUME NEW x \in issued PROVE x.request.id \in Response
      <4>1. x.request \in Observations
        BY DEF ResponderInv, StoreInv, IssuedInv, KeptItems
      <4> QED
        BY <4>1 DEF Observations
    <3> QED
      BY <3>1 DEF Asked
  <2> QED
    BY <1>1, <2>1 DEF Started, Asked
<1>7. \A k \in DOMAIN calls : calls[k].op = "startResponse" => calls[k].id \in Response
  BY DEF ResponderInv, CallsInv, CallsOK, CallOK
<1>8. \A k \in DOMAIN calls : calls[k].op = "startResponse" => calls[k].id # r
  <2>1. ~(0 >= 1)
    OBVIOUS
  <2> QED
    BY <1>5, <2>1 DEF OnceInv
<1>9. r \notin Started
  BY <1>5 DEF OnceInv
<1> HIDE DEF StartCall
<1>10. OnceInv'
  <2>1. \A q \in Started' : starts'[q] >= 1
    BY <1>5, <1>6 DEF OnceInv
  <2>2. \A k \in DOMAIN calls' : calls'[k].op = "startResponse" =>
            calls'[k].id \notin Started' /\ starts'[calls'[k].id] >= 1
    <3>1. ASSUME NEW k \in 1..n, calls[k].op = "startResponse"
          PROVE  calls[k].id \notin Started /\ starts'[calls[k].id] >= 1
      <4>1. calls[k].id \notin Started /\ starts[calls[k].id] >= 1 /\ calls[k].id \in Response
        BY <1>3, <1>7, <3>1 DEF OnceInv
      <4> QED
        BY <1>5, <4>1
    <3>2. \A k \in 1..(n + 1) : k \in 1..n \/ k = n + 1
      BY <1>3
    <3> QED
      BY <1>3, <1>4, <1>5, <1>6, <1>9, <3>1, <3>2
  <2>3. \A j, k \in DOMAIN calls' :
            /\ calls'[j].op = "startResponse" /\ calls'[k].op = "startResponse"
            /\ calls'[j].id = calls'[k].id
            => j = k
    <3>1. \A k \in 1..(n + 1) : k \in 1..n \/ k = n + 1
      BY <1>3
    <3> QED
      BY <1>3, <1>4, <1>8, <3>1 DEF OnceInv
  <2> QED
    BY <2>1, <2>2, <2>3 DEF OnceInv
<1>11. ObservedInv'
  <2>1. Observed(chain, visible, block)
    <3>1. /\ Len(chain) \in Nat /\ visible \in Nat /\ block \in Nat
          /\ Confirmations \in Nat /\ ConfirmationsBeforeResponse \in Nat
      BY ChainShape, SizesAreNatural, ResponderAssumption DEF ResponderInv
    <3>2. Top(chain, visible) >= Len(chain) /\ Top(chain, visible) \in Int
      BY <3>1 DEF Top
    <3> HIDE DEF Top
    <3> QED
      BY <1>1, <3>1, <3>2 DEF Observed
  <2>2. \A k \in DOMAIN calls' : calls'[k].op = "startResponse" =>
            Observed(chain, visible, calls'[k].observed)
    <3>1. \A k \in 1..(n + 1) : k \in 1..n \/ k = n + 1
      BY <1>3
    <3> QED
      BY <1>3, <1>4, <2>1, <3>1 DEF ObservedInv
  <2>3. Asked' = Asked
    BY <1>1 DEF Asked
  <2> QED
    BY <1>1, <2>2, <2>3 DEF ObservedInv
<1>12. StatesInv'
  BY <1>1, StatesStay
<1>13. MissingInv'
  <2>1. Tracked' = Tracked
    BY <1>1 DEF Tracked, Ids
  <2>2. ASSUME NEW k \in DOMAIN calls', calls'[k].op = "reEnqueueMissingItems"
        PROVE  /\ k \in DOMAIN calls /\ calls'[k] = calls[k]
               /\ \A j \in 1..(k - 1) : calls'[j] = calls[j]
    <3>1. k # n + 1
      BY <1>3, <1>4, <2>2
    <3>2. k \in 1..n /\ \A j \in 1..(k - 1) : j \in 1..n
      BY <1>3, <3>1
    <3> QED
      BY <1>3, <3>2
  <2> QED
    BY <2>1, <2>2 DEF MissingInv
<1> QED
  BY <1>10, <1>11, <1>12, <1>13

(* The network mines a block: the responses it is of were observed before. *)
LEMMA MineCalm ==
    ASSUME ResponderInv, LedgerInv, HeadsInv, OnceInv, ObservedInv, StatesInv, MissingInv,
           NEW n \in 0..MaxPerBlock, NEW txs \in [1..n -> sent], Mine(txs)
    PROVE  OnceInv' /\ ObservedInv' /\ StatesInv' /\ MissingInv'
<1>1. /\ Len(chain') = Len(chain) + 1 /\ DOMAIN chain' = 1..(Len(chain) + 1)
      /\ \A b \in DOMAIN chain : chain'[b] = chain[b]
      /\ ~chain'[Len(chain) + 1].known
  <2>1. ChainInv
    BY DEF ResponderInv
  <2>2. /\ Len(chain') = Len(chain) + 1 /\ DOMAIN chain' = 1..(Len(chain) + 1)
        /\ \A b \in DOMAIN chain : chain'[b] = chain[b]
        /\ chain'[Len(chain) + 1] = [txs |-> txs, state |-> <<>>, known |-> FALSE,
                                     emitted |-> FALSE]
    BY <2>1, MineShape
  <2> QED
    BY <2>2
<1>2. UNCHANGED <<transactions, issued, calls, visible, starts>>
  BY DEF Mine, responderVars
<1>3. /\ Len(chain) \in Nat /\ DOMAIN chain = 1..Len(chain) /\ visible \in Nat
      /\ \A b \in DOMAIN chain : Upto(chain, b) \subseteq used
      /\ Confirmations \in Nat
  BY ChainShape, SizesAreNatural DEF ResponderInv
<1>4. \A b \in DOMAIN chain' : b \in DOMAIN chain \/ b = Len(chain) + 1
  BY <1>1, <1>3
<1>5. /\ Top(chain, visible) \in Int /\ Top(chain', visible') \in Int
      /\ Top(chain, visible) <= Top(chain', visible')
  BY <1>1, <1>2, <1>3 DEF Top
<1>6. ASSUME NEW q \in Asked PROVE q.observed \in Nat /\ q.observed <= Len(chain) + 1
  <2>1. q.observed \in Nat
    BY AskedAreObserved DEF ResponderInv, StoreInv
  <2>2. q.observed + Confirmations <= Top(chain, visible) + 1
    BY DEF ObservedInv, Observed
  <2>3. Top(chain, visible) <= Len(chain) + Confirmations
    BY DEF HeadsInv
  <2> QED
    BY <1>3, <1>5, <2>1, <2>2, <2>3
<1>7. ASSUME NEW q \in Asked, NEW b \in DOMAIN chain', NEW t, Holds(chain', b, t)
      PROVE  \/ q.observed <= b
             \/ b \in DOMAIN chain /\ Holds(chain, b, t) /\ t \in used
  <2>1. CASE b \in DOMAIN chain
    <3>1. Holds(chain, b, t)
      BY <1>1, <1>7, <2>1 DEF Holds
    <3>2. t \in used
      BY <2>1, <3>1 DEF ResponderInv, ChainInv, ChainOK, Holds
    <3> QED
      BY <2>1, <3>1, <3>2
  <2>2. CASE b = Len(chain) + 1
    BY <1>6, <2>2
  <2> QED
    BY <1>4, <2>1, <2>2
<1>8. ObservedInv'
  <2>1. \A q \in Asked, b \in DOMAIN chain', t \in used' :
            Holds(chain', b, t) /\ t.id = q.id
            => \/ q.observed <= b
               \/ b \in DOMAIN chain /\ Holds(chain, b, t) /\ t \in used
    BY <1>7
  <2>2. UNCHANGED <<calls, issued>> /\ \A q \in Asked : q.observed \in Nat
    BY <1>2, <1>6
  <2> QED
    BY <1>5, <2>1, <2>2, ObservedFrame DEF ResponderInv
<1>9. StatesInv'
  <2>1. ASSUME NEW b \in DOMAIN chain', chain'[b].known
        PROVE  /\ b \in DOMAIN chain /\ chain[b].known /\ chain'[b].state = chain[b].state
               /\ Upto(chain', b) = Upto(chain, b)
    <3>1. b \in DOMAIN chain
      BY <1>1, <1>4, <2>1
    <3>2. \A a \in 1..b : chain'[a].txs = chain[a].txs
      BY <1>1, <1>3, <3>1
    <3> QED
      BY <1>1, <2>1, <3>1, <3>2, UptoSame
  <2> QED
    BY <1>2, <2>1, StatesFrame
<1> QED
  BY <1>2, <1>8, <1>9, OnceStays, MissingStays

(* A reorganisation gives up the last blocks, and no block that was seen. *)
LEMMA ReorgCalm ==
    ASSUME ResponderInv, OnceInv, ObservedInv, StatesInv, MissingInv,
           NEW depth \in 1..Confirmations, Reorg(depth)
    PROVE  OnceInv' /\ ObservedInv' /\ StatesInv' /\ MissingInv'
<1>1. /\ Len(chain') \in 1..Len(chain) /\ Len(chain') = Len(chain) - depth
      /\ DOMAIN chain' = 1..Len(chain')
      /\ \A b \in DOMAIN chain' : b \in DOMAIN chain /\ chain'[b] = chain[b]
      /\ visible' = IF visible > Len(chain) THEN visible ELSE Len(chain) + 1
      /\ depth \in Nat
  BY ReorgShape DEF ResponderInv
<1>2. UNCHANGED <<transactions, issued, calls, starts, used>>
  BY DEF Reorg, responderVars
<1>3. /\ Len(chain) \in Nat /\ DOMAIN chain = 1..Len(chain) /\ visible \in Nat
  BY ChainShape DEF ResponderInv
<1>4. /\ Top(chain, visible) \in Int /\ Top(chain', visible') \in Int
      /\ Top(chain, visible) <= Top(chain', visible')
  BY <1>1, <1>3 DEF Top
<1>5. ASSUME NEW q \in Asked PROVE q.observed \in Nat
  BY AskedAreObserved DEF ResponderInv, StoreInv
<1>6. ObservedInv'
  <2>1. \A b \in DOMAIN chain' : \A t : Holds(chain', b, t) =>
              b \in DOMAIN chain /\ Holds(chain, b, t)
    BY <1>1 DEF Holds
  <2> QED
    BY <1>2, <1>4, <1>5, <2>1, ObservedFrame DEF ResponderInv
<1>7. StatesInv'
  <2>1. ASSUME NEW b \in DOMAIN chain'
        PROVE  /\ b \in DOMAIN chain /\ chain'[b] = chain[b]
               /\ Upto(chain', b) = Upto(chain, b)
    <3>1. b \in DOMAIN chain /\ chain'[b] = chain[b]
      BY <1>1
    <3>2. \A a \in 1..b : chain'[a].txs = chain[a].txs
      BY <1>1, <1>3
    <3> QED
      BY <3>1, <3>2, UptoSame
  <2> QED
    BY <1>2, <2>1, StatesFrame
<1> QED
  BY <1>2, <1>6, <1>7, OnceStays, MissingStays

(* component.ts:88-106: the state that is made of a block says of whom it    *)
(* calls pending that no block up to it has its transaction.                 *)
LEMMA NewBlockCalm ==
    ASSUME ResponderInv, LedgerInv, OnceInv, ObservedInv, StatesInv, MissingInv, NewBlock
    PROVE  /\ OnceInv' /\ ObservedInv' /\ StatesInv' /\ MissingInv'
           /\ \A j \in DOMAIN transactions : \A b \in DOMAIN chain :
                  StateAt(transactions[j].request.id, b).id = transactions[j].request.id
<1>1. PICK b \in Unknown :
         /\ \A a \in Unknown : b <= a
         /\ Len(chain') = Len(chain) /\ DOMAIN chain' = DOMAIN chain
         /\ \A a \in DOMAIN chain : /\ chain'[a].txs = chain[a].txs
                                    /\ chain'[a].emitted = chain[a].emitted
         /\ \A a \in DOMAIN chain \ {b} : chain'[a] = chain[a]
         /\ chain'[b].known
         /\ chain'[b].state = [i \in DOMAIN transactions |->
                                  StateAt(transactions[i].request.id, b)]
  BY NewBlockShape DEF ResponderInv
<1>2. UNCHANGED <<transactions, issued, calls, starts, used, visible>>
  BY DEF NewBlock, responderVars, countVars
<1>3. /\ Len(chain) \in Nat /\ DOMAIN chain = 1..Len(chain) /\ visible \in Nat
      /\ \A a \in DOMAIN chain : Upto(chain, a) \subseteq used
      /\ b \in DOMAIN chain /\ ~chain[b].known
  BY ChainShape DEF ResponderInv, Unknown
<1>4. \A a \in 1..(b - 1) : a \in DOMAIN chain /\ chain[a].known
  BY <1>1, <1>3 DEF Unknown
<1>5. transactions \in Seq(KeptItems) /\ NothingTwice(transactions)
  BY DEF ResponderInv, StoreInv, RecordsInv
<1>6. ASSUME NEW j \in DOMAIN transactions
      PROVE  /\ transactions[j].request.id \in Response
             /\ transactions[j].request.observed \in Nat \ {0}
             /\ Record(transactions[j].request.id) = transactions[j]
  <2>1. transactions[j] \in KeptItems
    BY <1>5
  <2>2. transactions[j].request \in Observations
    BY <2>1 DEF KeptItems
  <2>3. /\ transactions[j].request.id \in Response
        /\ transactions[j].request.observed \in Nat \ {0}
    BY <2>2 DEF Observations
  <2> QED
    BY <1>5, <2>3, RecordIsKept
<1>7. ASSUME NEW j \in DOMAIN transactions, NEW c \in DOMAIN chain
      PROVE  LET r == transactions[j].request.id IN
             /\ StateAt(r, c).id = r
             /\ ~StateAt(r, c).mined =>
                   \/ c > 1 /\ Find(r, c) = {} /\ \E s \in Entry(c - 1, r) : ~s.mined
                   \/ \A a \in transactions[j].request.observed..c : Find(r, a) = {}
  BY <1>6, StateIsOf DEF ResponderInv
<1>8. \A a \in DOMAIN chain : Upto(chain', a) = Upto(chain, a)
  <2>1. ASSUME NEW a \in DOMAIN chain PROVE \A e \in 1..a : chain'[e].txs = chain[e].txs
    BY <1>1, <1>3
  <2> QED
    BY <2>1, UptoSame
<1>9. \A t : \A a \in DOMAIN chain : Holds(chain, a, t) => Find(t.id, a) # {}
  BY DEF Find, Holds
<1>10. ASSUME NEW j \in DOMAIN transactions,
              ~StateAt(transactions[j].request.id, b).mined,
              NEW t \in Upto(chain, b), t.id = transactions[j].request.id
       PROVE  FALSE
  <2>1. PICK r : r = transactions[j].request.id
    OBVIOUS
  <2>2. PICK a \in 1..b : Holds(chain, a, t)
    BY UptoHolds
  <2>3. a \in DOMAIN chain /\ a <= b /\ Find(r, a) # {} /\ t \in used /\ b \in Nat /\ a \in Nat
        /\ a >= 1
    BY <1>3, <1>9, <1>10, <2>1, <2>2
  <2>4. CASE b > 1 /\ Find(r, b) = {} /\ \E s \in Entry(b - 1, r) : ~s.mined
    <3>1. a # b
      BY <2>3, <2>4
    <3>2. a \in 1..(b - 1) /\ b - 1 \in 1..(b - 1)
      BY <2>3, <2>4, <3>1
    <3>3. t \in Upto(chain, b - 1)
      BY <2>2, <3>2, UptoHolds
    <3>4. PICK i \in DOMAIN chain[b - 1].state :
             chain[b - 1].state[i].id = r /\ ~chain[b - 1].state[i].mined
      BY <2>4 DEF Entry
    <3> QED
      BY <1>4, <1>10, <2>1, <3>2, <3>3, <3>4 DEF StatesInv
  <2>5. CASE \A c \in transactions[j].request.observed..b : Find(r, c) = {}
    <3>1. transactions[j].request \in Asked
      BY DEF LedgerInv
    <3>2. transactions[j].request.observed <= a
      BY <1>10, <2>2, <2>3, <3>1 DEF ObservedInv
    <3>3. transactions[j].request.observed \in Nat
      BY <1>6
    <3>4. a \in transactions[j].request.observed..b
      BY <2>3, <3>2, <3>3
    <3> QED
      BY <2>3, <2>5, <3>4
  <2> QED
    BY <1>3, <1>7, <1>10, <2>1, <2>4, <2>5
<1>11. Tracked' = Tracked
  BY <1>2 DEF Tracked, Ids
<1>12. ASSUME NEW a \in DOMAIN chain, chain'[a].known
       PROVE  /\ \A i \in DOMAIN chain'[a].state : ~chain'[a].state[i].mined =>
                     \A t \in Upto(chain, a) : t.id # chain'[a].state[i].id
              /\ \A t \in Upto(chain, a) : t.id \in Tracked => Entry(a, t.id)' # {}
  <2>1. CASE a = b
    <3>1. /\ DOMAIN chain'[a].state = DOMAIN transactions
          /\ \A i \in DOMAIN transactions :
                 chain'[a].state[i] = StateAt(transactions[i].request.id, b)
      BY <1>1, <2>1
    <3>2. \A i \in DOMAIN transactions : chain'[a].state[i].id = transactions[i].request.id
      BY <1>3, <1>7, <3>1
    <3>3. \A i \in DOMAIN chain'[a].state : ~chain'[a].state[i].mined =>
              \A t \in Upto(chain, a) : t.id # chain'[a].state[i].id
      BY <1>10, <2>1, <3>1, <3>2
    <3>4. ASSUME NEW t \in Upto(chain, a), t.id \in Tracked PROVE Entry(a, t.id)' # {}
      <4>1. PICK j \in DOMAIN transactions : transactions[j].request.id = t.id
        BY <3>4 DEF Tracked, Ids
      <4>2. j \in DOMAIN chain'[a].state /\ chain'[a].state[j].id = t.id
        BY <3>1, <3>2, <4>1
      <4> QED
        BY <4>2 DEF Entry
    <3> QED
      BY <3>3, <3>4
  <2>2. CASE a # b
    <3>1. chain'[a] = chain[a] /\ chain[a].known
      BY <1>1, <1>12, <2>2
    <3>2. \A r : Entry(a, r)' = Entry(a, r)
      BY <3>1 DEF Entry
    <3> QED
      BY <3>1, <3>2 DEF StatesInv
  <2> QED
    BY <2>1, <2>2
<1>13. StatesInv'
  BY <1>1, <1>8, <1>11, <1>12 DEF StatesInv
<1>14. ObservedInv'
  <2>1. \A c : Observed(chain', visible', c) <=> Observed(chain, visible, c)
    BY <1>1, <1>2 DEF Observed, Top
  <2>2. \A a \in DOMAIN chain : \A t : Holds(chain', a, t) <=> Holds(chain, a, t)
    BY <1>1 DEF Holds
  <2>3. Asked' = Asked
    BY <1>2 DEF Asked
  <2> QED
    BY <1>1, <1>2, <2>1, <2>2, <2>3 DEF ObservedInv
<1> QED
  BY <1>2, <1>7, <1>13, <1>14, OnceStays, MissingStays

(* component.ts:239-283: whoever a new head puts back has a record, and is   *)
(* not to be forgotten.                                                      *)
LEMMA NewHeadCalm ==
    ASSUME ResponderInv, HeadsInv, OnceInv, ObservedInv, StatesInv, MissingInv, NewHead
    PROVE  OnceInv' /\ ObservedInv' /\ StatesInv' /\ MissingInv'
<1>1. /\ Len(chain') = Len(chain) /\ DOMAIN chain' = DOMAIN chain
      /\ \A b \in DOMAIN chain : /\ chain'[b].txs = chain[b].txs
                                 /\ chain'[b].known = chain[b].known
                                 /\ chain'[b].state = chain[b].state
  BY NewHeadShape DEF ResponderInv
<1>2. UNCHANGED <<transactions, issued, starts, used, visible>>
  BY DEF NewHead, responderVars
<1>3. /\ Len(chain) \in Nat /\ DOMAIN chain = 1..Len(chain) /\ Len(chain) \in DOMAIN chain
      /\ Len(chain) >= visible /\ chain[Len(chain)].known
  BY ChainShape DEF ResponderInv, NewHead
<1>4. PICK h, D : h = Len(chain) /\ D = DetectChanges(PrevEmitted(h), h)
  OBVIOUS
<1>5. D \in Seq(Calls) /\ calls \in Seq(Calls) /\ calls' = calls \o D
  <2>1. D \in Seq(Calls)
    BY <1>3, <1>4, ChangesAreTrue DEF ResponderInv, ChainInv, CallsOK
  <2>2. calls \in Seq(Calls)
    BY DEF ResponderInv, CallsInv, CallsOK
  <2> QED
    BY <1>4, <2>1, <2>2 DEF NewHead
<1>6. PICK n, m : n = Len(calls) /\ m = Len(D)
  OBVIOUS
<1>7. /\ n \in Nat /\ m \in Nat /\ DOMAIN calls = 1..n /\ DOMAIN D = 1..m
      /\ DOMAIN calls' = 1..(n + m)
      /\ \A k \in 1..(n + m) : calls'[k] = IF k <= n THEN calls[k] ELSE D[k - n]
  <2> HIDE DEF Calls
  <2> QED
    BY <1>5, <1>6, ConcatPlaces
<1>8. \A k \in DOMAIN calls' :
          \/ k \in DOMAIN calls /\ calls'[k] = calls[k]
          \/ k - n \in DOMAIN D /\ calls'[k] = D[k - n] /\ k > n
  BY <1>7
<1>9. EachOnce(chain[h].state)
  BY <1>3, <1>4 DEF HeadsInv
<1>10. ASSUME NEW k \in DOMAIN D
       PROVE  \/ k = 1 /\ D[k] = ReEnqueueCall(PendingIds(h))
              \/ D[k].op = "txMined" \/ D[k].op = "endResponse"
  <2>1. \/ k = 1 /\ D[k] = ReEnqueueCall(PendingIds(h))
        \/ \E i : D[k] = MinedOf(h, i)
        \/ \E r : D[k] = EndCall(r)
    <3>1. ChainInv /\ h \in DOMAIN chain
      BY <1>3, <1>4 DEF ResponderInv
    <3>2. \/ k = 1 /\ D[k] = ReEnqueueCall(PendingIds(h))
          \/ \E i \in NewlyMined(PrevEmitted(h), h) : D[k] = MinedOf(h, i)
          \/ \E i \in DOMAIN chain[h].state :
                /\ D[k] = EndCall(chain[h].state[i].id)
                /\ chain[h].state[i].mined
                /\ i \in NewlyMined(PrevEmitted(h), h)
                      => \E j \in 1..(k - 1) : D[j] = MinedOf(h, i)
      BY <1>4, <1>9, <3>1, ChangesShape
    <3> QED
      BY <3>2
  <2> QED
    BY <2>1 DEF MinedOf, MinedCall, EndCall
<1>11. ReEnqueueCall(PendingIds(h)).op = "reEnqueueMissingItems"
       /\ ReEnqueueCall(PendingIds(h)).ids = PendingIds(h)
  BY DEF ReEnqueueCall
<1>12. \A k \in DOMAIN calls' : calls'[k].op = "startResponse" =>
           k \in DOMAIN calls /\ calls'[k] = calls[k]
  BY <1>8, <1>10, <1>11
<1>13. OnceInv'
  <2>1. Started' = Started
    BY <1>2 DEF Started, Asked
  <2> QED
    BY <1>2, <1>12, <2>1 DEF OnceInv
<1>14. ObservedInv'
  <2>1. \A c : Observed(chain', visible', c) <=> Observed(chain, visible, c)
    BY <1>1, <1>2 DEF Observed, Top
  <2>2. \A a \in DOMAIN chain : \A t : Holds(chain', a, t) <=> Holds(chain, a, t)
    BY <1>1 DEF Holds
  <2>3. Asked' = Asked
    BY <1>2 DEF Asked
  <2> QED
    BY <1>1, <1>2, <1>12, <2>1, <2>2, <2>3 DEF ObservedInv
<1>15. StatesInv'
  <2>1. ASSUME NEW a \in DOMAIN chain PROVE Upto(chain', a) = Upto(chain, a)
    <3>1. \A e \in 1..a : chain'[e].txs = chain[e].txs
      BY <1>1, <1>3
    <3> QED
      BY <3>1, UptoSame
  <2> QED
    BY <1>1, <1>2, <2>1, StatesFrame
<1>16. MissingInv'
  <2>1. Tracked' = Tracked
    BY <1>2 DEF Tracked, Ids
  <2>2. SUFFICES ASSUME NEW k \in DOMAIN calls', calls'[k].op = "reEnqueueMissingItems"
                 PROVE  /\ \A i, j \in DOMAIN calls'[k].ids :
                               calls'[k].ids[i] = calls'[k].ids[j] => i = j
                        /\ \A i \in DOMAIN calls'[k].ids :
                               /\ calls'[k].ids[i] \in Tracked
                               /\ \A j \in 1..(k - 1) : calls'[j].op = "endResponse" =>
                                      calls'[j].id # calls'[k].ids[i]
    BY <2>1 DEF MissingInv
  <2>3. CASE k \in DOMAIN calls /\ calls'[k] = calls[k]
    <3>1. \A j \in 1..(k - 1) : calls'[j] = calls[j]
      BY <1>7, <2>3
    <3> QED
      BY <2>2, <2>3, <3>1 DEF MissingInv
  <2>4. CASE k - n \in DOMAIN D /\ calls'[k] = D[k - n] /\ k > n
    <3>1. k - n = 1 /\ calls'[k].ids = PendingIds(h)
      BY <1>10, <1>11, <2>2, <2>4
    <3>2. h \in DOMAIN chain /\ ChainInv /\ CallsInv
      BY <1>3, <1>4 DEF ResponderInv
    <3>3. /\ \A r : (\E i \in DOMAIN PendingIds(h) : PendingIds(h)[i] = r)
                       <=> \E i \in DOMAIN chain[h].state :
                              chain[h].state[i].id = r /\ ~chain[h].state[i].mined
          /\ \A i, j \in DOMAIN PendingIds(h) : PendingIds(h)[i] = PendingIds(h)[j] => i = j
      BY <1>9, <3>2, PendingOnes
    <3>4. ASSUME NEW i \in DOMAIN chain[h].state, ~chain[h].state[i].mined
          PROVE  ~Ends(chain[h].state[i].id)
      BY <1>3, <1>4, <3>2, <3>4, PendingStays
    <3>5. \A i \in DOMAIN PendingIds(h) : ~Ends(PendingIds(h)[i])
      BY <3>3, <3>4
    <3>6. \A j \in 1..(k - 1) : j \in DOMAIN calls /\ calls'[j] = calls[j]
      BY <1>7, <3>1
    <3> QED
      BY <3>1, <3>3, <3>5, <3>6 DEF Ends
  <2> QED
    BY <1>8, <2>3, <2>4
<1> QED
  BY <1>13, <1>14, <1>15, <1>16

-----------------------------------------------------------------------------
(* The queue and the chain while nothing disturbs them *)

CalmInv ==
    Undisturbed =>
        /\ OnceInv /\ ObservedInv /\ StatesInv /\ MissingInv
        /\ \E R : Waiting(R)

(* What has disturbed them is not forgotten. *)
LEMMA HistoryGrows ==
    ASSUME ResponderInv, HeadsInv, [Next]_vars
    PROVE  /\ crowded => crowded'
           /\ full => full'
           /\ used \subseteq used' /\ overtaken \subseteq overtaken'
           /\ failures \in Nat /\ failures' \in {failures, failures + 1}
           /\ reorgs \in Nat /\ reorgs' \in {reorgs, reorgs + 1}
           /\ \A r \in Response : starts[r] \in Nat /\ starts'[r] \in {starts[r], starts[r] + 1}
<1>1. failures \in Nat /\ reorgs \in Nat /\ \A r \in Response : starts[r] \in Nat
  <2>1. starts \in [Response -> 0..MaxStarts] /\ failures \in Nat
    BY DEF ResponderInv, NetInv
  <2> QED
    BY <2>1 DEF HeadsInv
<1>2. CASE \E r \in Response, block \in 1..Len(chain) : WatcherStarts(r, block)
  <2>1. PICK r \in Response, block \in 1..Len(chain) : WatcherStarts(r, block)
    BY <1>2
  <2>2. starts \in [Response -> 0..MaxStarts]
    BY DEF ResponderInv, NetInv
  <2>3. UNCHANGED <<crowded, full, used, overtaken, failures, reorgs>>
        /\ starts' = [starts EXCEPT ![r] = @ + 1]
    BY <2>1 DEF WatcherStarts
  <2>4. \A q \in Response : starts'[q] \in {starts[q], starts[q] + 1}
    BY <2>2, <2>3
  <2> QED
    BY <1>1, <2>3, <2>4
<1>3. CASE Serve
  <2>1. UNCHANGED <<crowded, used, failures, reorgs, starts>>
    BY <1>3 DEF Serve, StartResponse, TxMined, ReEnqueueMissingItems, EndResponse, Served
  <2>2. overtaken \subseteq overtaken'
    BY <1>3 DEF Serve, StartResponse, TxMined, ReEnqueueMissingItems, EndResponse
  <2>3. full => full'
    <3>1. CASE \E price \in Price : StartResponse(price)
      BY <3>1 DEF StartResponse
    <3>2. CASE TxMined
      BY <3>2 DEF TxMined
    <3>3. CASE ReEnqueueMissingItems
      BY <3>3 DEF ReEnqueueMissingItems
    <3>4. CASE EndResponse
      BY <3>4 DEF EndResponse
    <3> QED
      BY <1>3, <3>1, <3>2, <3>3, <3>4 DEF Serve
  <2> QED
    BY <1>1, <2>1, <2>2, <2>3
<1>4. CASE CallFails \/ \E item \in outbox : BroadcastFails(item)
  <2>1. UNCHANGED <<crowded, full, used, overtaken, reorgs, starts>> /\ failures' = failures + 1
    BY <1>4 DEF CallFails, BroadcastFails, countVars
  <2> QED
    BY <1>1, <2>1
<1>5. CASE (\E item \in outbox : Broadcast(item)) \/ NewBlock \/ UNCHANGED vars
  <2>1. UNCHANGED <<crowded, full, used, overtaken, reorgs, starts, failures>>
    BY <1>5 DEF Broadcast, NewBlock, vars, countVars
  <2> QED
    BY <1>1, <2>1
<1>6. CASE \E n \in 0..MaxPerBlock : \E txs \in [1..n -> sent] : Mine(txs)
  <2>1. /\ UNCHANGED <<crowded, full, overtaken, reorgs, starts, failures>>
        /\ used \subseteq used'
    BY <1>6 DEF Mine
  <2> QED
    BY <1>1, <2>1
<1>7. CASE \E depth \in 1..Confirmations : Reorg(depth)
  <2>1. UNCHANGED <<crowded, full, used, overtaken, starts, failures>> /\ reorgs' = reorgs + 1
    BY <1>7 DEF Reorg
  <2> QED
    BY <1>1, <2>1
<1>8. CASE NewHead
  <2>1. UNCHANGED <<full, used, overtaken, reorgs, starts, failures>>
    BY <1>8 DEF NewHead
  <2>2. crowded => crowded'
    BY <1>8 DEF NewHead
  <2> QED
    BY <1>1, <2>1, <2>2
<1> QED
  BY <1>2, <1>3, <1>4, <1>5, <1>6, <1>7, <1>8 DEF Next

(* Nothing has disturbed them before, nor does a failure now. *)
LEMMA CalmBefore ==
    ASSUME ResponderInv, HeadsInv, [Next]_vars, Undisturbed'
    PROVE  /\ Undisturbed /\ OneNonce /\ OneNonce' /\ ~crowded' /\ ~full'
           /\ reorgs = 0 \/ overtaken = {}
           /\ Confirmations <= ConfirmationsBeforeResponse
           /\ \A r \in Response : starts'[r] <= 1
           /\ ~CallFails /\ ~ \E item \in outbox : BroadcastFails(item)
<1>1. /\ Confirmations <= ConfirmationsBeforeResponse
      /\ ~crowded' /\ ~full' /\ failures' = 0
      /\ \A t, u \in used' : t.id = u.id => t = u
      /\ \A r \in Response : starts'[r] <= 1
      /\ reorgs' = 0 \/ overtaken' = {}
  BY DEF Undisturbed
<1>2. /\ crowded => crowded'
      /\ full => full'
      /\ used \subseteq used' /\ overtaken \subseteq overtaken'
      /\ failures \in Nat /\ failures' \in {failures, failures + 1}
      /\ reorgs \in Nat /\ reorgs' \in {reorgs, reorgs + 1}
      /\ \A r \in Response : starts[r] \in Nat /\ starts'[r] \in {starts[r], starts[r] + 1}
  BY HistoryGrows
<1>3. failures = 0 /\ (reorgs = 0 \/ overtaken = {}) /\ \A r \in Response : starts[r] <= 1
  <2>1. failures = 0
    BY <1>1, <1>2
  <2>2. reorgs = 0 \/ overtaken = {}
    BY <1>1, <1>2
  <2>3. ASSUME NEW r \in Response PROVE starts[r] <= 1
    <3>1. starts[r] \in Nat /\ starts'[r] \in {starts[r], starts[r] + 1} /\ starts'[r] <= 1
      BY <1>1, <1>2
    <3> QED
      BY <3>1
  <2> QED
    BY <2>1, <2>2, <2>3
<1>4. \A t, u \in used : t.id = u.id => t = u
  BY <1>1, <1>2
<1>5. ~crowded /\ ~full
  BY <1>1, <1>2
<1>6. ~CallFails /\ ~ \E item \in outbox : BroadcastFails(item)
  <2>1. failures' # failures + 1
    BY <1>1, <1>2
  <2> QED
    BY <2>1 DEF CallFails, BroadcastFails
<1> QED
  BY <1>1, <1>3, <1>4, <1>5, <1>6 DEF Undisturbed, OneNonce

(* No step ends the calm without one of these. *)
LEMMA CalmStep ==
    ASSUME ResponderInv, LinkInv, ResponderInv', LinkInv', CalmInv, [Next]_vars
    PROVE  CalmInv'
<1>1. SUFFICES ASSUME Undisturbed'
               PROVE  OnceInv' /\ ObservedInv' /\ StatesInv' /\ MissingInv' /\ \E R : Waiting(R)'
  BY DEF CalmInv
<1>2. /\ LedgerInv /\ NoncesInv /\ HeadsInv /\ NoncesInv'
      /\ StoreInv /\ ChainInv /\ CallsInv /\ ChainInv' /\ RecordsInv
  BY DEF LinkInv, ResponderInv, StoreInv
<1>3. /\ Undisturbed /\ OneNonce /\ OneNonce' /\ ~crowded' /\ ~full'
      /\ reorgs = 0 \/ overtaken = {}
      /\ Confirmations <= ConfirmationsBeforeResponse
      /\ \A r \in Response : starts'[r] <= 1
      /\ ~CallFails /\ ~ \E item \in outbox : BroadcastFails(item)
  BY <1>1, <1>2, CalmBefore
<1>4. OnceInv /\ ObservedInv /\ StatesInv /\ MissingInv /\ \E R : Waiting(R)
  BY <1>3 DEF CalmInv
<1>5. PICK R : Waiting(R)
  BY <1>4
<1>6. ASSUME NEW r \in Response, NEW block \in 1..Len(chain), WatcherStarts(r, block)
      PROVE  OnceInv' /\ ObservedInv' /\ StatesInv' /\ MissingInv' /\ \E Q : Waiting(Q)'
  <2>1. OnceInv' /\ ObservedInv' /\ StatesInv' /\ MissingInv'
    BY <1>3, <1>4, <1>6, StartCalm
  <2>2. \E Q : Waiting(Q)'
    BY <1>2, <1>5, <1>6, StartWaits
  <2> QED
    BY <2>1, <2>2
<1>7. CASE Serve
  <2>1. /\ NoneAgain /\ \E Q : Waiting(Q)'
        /\ calls # <<>> /\ Served
        /\ \A q \in Asked' : \/ q \in Asked
                             \/ /\ Call.op = "startResponse"
                                /\ q.id = Call.id /\ q.observed = Call.observed
        /\ Tracked \subseteq Tracked' \/ Call.op = "endResponse"
        /\ \A r \in Tracked \ Tracked' : r = Call.id
    BY <1>2, <1>3, <1>4, <1>5, <1>7, ServeWaits
  <2>2. OnceInv' /\ ObservedInv' /\ StatesInv' /\ MissingInv'
    BY <1>2, <1>4, <2>1, ServeCalm
  <2> QED
    BY <2>1, <2>2
<1>8. CASE (\E item \in outbox : Broadcast(item)) \/ UNCHANGED vars
  <2>1. UNCHANGED <<queue, emptyNonce, transactions, issued, overtaken, calls, chain, visible,
                    used, reorgs, starts>>
    BY <1>8 DEF Broadcast, vars, responderVars, networkVars, countVars
  <2>2. OnceInv' /\ ObservedInv' /\ StatesInv' /\ MissingInv'
    BY <1>4, <2>1, OnceStays, ObservedStays, StatesStay, MissingStays
  <2>3. Waiting(R)'
    BY <1>2, <1>5, <2>1, BroadcastWaits
  <2> QED
    BY <2>2, <2>3
<1>9. ASSUME NEW n \in 0..MaxPerBlock, NEW txs \in [1..n -> sent], Mine(txs)
      PROVE  OnceInv' /\ ObservedInv' /\ StatesInv' /\ MissingInv' /\ \E Q : Waiting(Q)'
  <2>1. OnceInv' /\ ObservedInv' /\ StatesInv' /\ MissingInv'
    BY <1>2, <1>4, <1>9, MineCalm
  <2>2. Waiting(R)'
    BY <1>2, <1>3, <1>5, <1>9, MineWaits
  <2> QED
    BY <2>1, <2>2
<1>10. ASSUME NEW depth \in 1..Confirmations, Reorg(depth)
       PROVE  OnceInv' /\ ObservedInv' /\ StatesInv' /\ MissingInv' /\ \E Q : Waiting(Q)'
  <2>1. OnceInv' /\ ObservedInv' /\ StatesInv' /\ MissingInv'
    BY <1>4, <1>10, ReorgCalm
  <2>2. Waiting(R)'
    BY <1>2, <1>5, <1>10, ReorgWaits
  <2> QED
    BY <2>1, <2>2
<1>11. CASE NewBlock
  <2>1. /\ OnceInv' /\ ObservedInv' /\ StatesInv' /\ MissingInv'
        /\ \A j \in DOMAIN transactions : \A b \in DOMAIN chain :
               StateAt(transactions[j].request.id, b).id = transactions[j].request.id
    BY <1>2, <1>4, <1>11, NewBlockCalm
  <2>2. Waiting(R)'
    BY <1>2, <1>5, <1>11, <2>1, NewBlockWaits
  <2> QED
    BY <2>1, <2>2
<1>12. CASE NewHead
  <2>1. OnceInv' /\ ObservedInv' /\ StatesInv' /\ MissingInv'
    BY <1>2, <1>4, <1>12, NewHeadCalm
  <2>2. \E Q : Waiting(Q)'
    BY <1>2, <1>3, <1>4, <1>5, <1>12, NewHeadWaits
  <2> QED
    BY <2>1, <2>2
<1> QED
  BY <1>3, <1>6, <1>7, <1>8, <1>9, <1>10, <1>11, <1>12 DEF Next

(* At first the queue is past nothing, and the chain has nothing. *)
LEMMA InitCalm == Init => LinkInv /\ CalmInv
<1> SUFFICES ASSUME Init PROVE LinkInv /\ CalmInv
  OBVIOUS
<1>1. /\ queue = <<>> /\ emptyNonce = FirstNonce /\ transactions = <<>> /\ calls = <<>>
      /\ sent = {} /\ visible = 0 /\ issued = {} /\ used = {} /\ reorgs = 0
      /\ chain = <<[txs |-> <<>>, state |-> <<>>, known |-> TRUE, emitted |-> TRUE]>>
  BY DEF Init
<1>2. /\ Len(chain) = 1 /\ DOMAIN chain = {1} /\ chain[1].emitted
      /\ chain[1].state = <<>> /\ chain[1].txs = <<>>
      /\ DOMAIN chain[1].state = {} /\ DOMAIN chain[1].txs = {}
  <2>1. PICK genesis : genesis = [txs |-> <<>>, state |-> <<>>, known |-> TRUE, emitted |-> TRUE]
    OBVIOUS
  <2>2. chain = <<genesis>>
    BY <1>1, <2>1
  <2>3. Len(chain) = 1 /\ DOMAIN chain = {1} /\ chain[1] = genesis
    BY <2>2
  <2> QED
    BY <2>1, <2>3
<1>3. /\ DOMAIN calls = {} /\ Len(calls) = 0 /\ DOMAIN queue = {} /\ Len(queue) = 0
      /\ DOMAIN transactions = {}
  BY <1>1
<1>4. /\ Asked = {} /\ Started = {} /\ Tracked = {}
      /\ \A b \in DOMAIN chain : Upto(chain, b) = {}
      /\ Mined = {}
      /\ \A b \in DOMAIN chain : \A t : ~Holds(chain, b, t)
  <2>1. Asked = {} /\ Started = {} /\ Tracked = {}
    BY <1>1, <1>3 DEF Asked, Started, Tracked, Ids
  <2>2. \A a \in 1..1 : a = 1
    OBVIOUS
  <2>3. Upto(chain, 1) = {}
    BY <1>2, <2>2 DEF Upto
  <2> QED
    BY <1>2, <2>1, <2>3 DEF Mined, Holds
<1>5. Run({}, FirstNonce)
  BY SizesAreNatural DEF Run
<1>6. LinkInv
  <2>1. LedgerInv
    BY <1>1, <1>3, <1>4 DEF LedgerInv
  <2>2. NoncesInv
    BY <1>4, <1>5 DEF NoncesInv
  <2>3. HeadsInv
    <3>1. Top(chain, visible) = 1
      BY <1>1, <1>2 DEF Top
    <3>2. chain[1].known
      BY <1>1
    <3>3. \A b \in DOMAIN chain : \A a \in 1..b : a = 1
      BY <1>2
    <3> QED
      BY <1>1, <1>2, <3>1, <3>2, <3>3, SizesAreNatural DEF HeadsInv, EachOnce
  <2> QED
    BY <2>1, <2>2, <2>3 DEF LinkInv
<1>7. OnceInv /\ ObservedInv /\ MissingInv
  BY <1>3, <1>4 DEF OnceInv, ObservedInv, MissingInv
<1>8. StatesInv
  BY <1>2, <1>4 DEF StatesInv
<1>9. PICK R : R = [k \in 0..0 |-> {}]
  OBVIOUS
<1>10. R[0] = {}
  BY <1>9
<1>11. Gone({})
  <2>1. Front = FirstNonce
    BY <1>1, <1>3, SizesAreNatural DEF Front
  <2> QED
    BY <1>1, <1>4, <1>5, <2>1 DEF Gone, Kept
<1>12. Heads({})
  BY <1>4 DEF Heads
<1>13. Waiting(R)
  <2>1. \A k \in 0..0 : k = 0
    OBVIOUS
  <2>2. 1..0 = {}
    OBVIOUS
  <2>3. R[0] \in SUBSET used /\ \E f : Run(R[0], f)
    BY <1>5, <1>10
  <2> QED
    BY <1>3, <1>10, <1>11, <1>12, <2>1, <2>2, <2>3 DEF Waiting
<1> QED
  BY <1>6, <1>7, <1>8, <1>13 DEF CalmInv

(* The first of the queue has the front nonce. *)
LEMMA FirstIsFront ==
    ASSUME StoreInv, queue # <<>>
    PROVE  queue[1].nonce = Front
<1>1. 1 \in DOMAIN queue
  BY QueueIsOne DEF StoreInv, QueueInv
<1>2. Contains(queue, queue[1].request.id)
  BY <1>1 DEF Contains, Ids
<1> QED
  BY <1>2, RemovalUpdates

(* Once the head is seen and served, what the queue is past is the chain. *)
LEMMA CalmMirrors ==
    ASSUME ResponderInv, LinkInv, CalmInv
    PROVE  QueueMirrorsChain
<1> SUFFICES ASSUME Settled, Undisturbed
             PROVE  /\ \A r \in Tracked : Contains(queue, r) <=> r \notin MinedIds
                    /\ queue # <<>> => queue[1].nonce = NextNonce
  BY DEF QueueMirrorsChain
<1>1. PICK R : Waiting(R)
  BY DEF CalmInv
<1>2. /\ LedgerInv /\ NoncesInv /\ ChainInv /\ StoreInv
  BY DEF LinkInv, ResponderInv
<1>3. /\ calls = <<>> /\ Len(chain) >= visible /\ chain[Len(chain)].emitted
  BY DEF Settled
<1>4. PICK S : S = R[0]
  OBVIOUS
<1>5. Gone(S) /\ Heads(S)
  <2>1. Len(calls) = 0
    BY <1>3
  <2> QED
    BY <1>1, <1>4, <2>1 DEF Waiting
<1>6. /\ Len(chain) \in DOMAIN chain
      /\ \A t : t \in Mined <=> t \in Upto(chain, Len(chain))
      /\ LastEmitted(Len(chain))
  <2>1. /\ Len(chain) \in Nat /\ Len(chain) >= 1 /\ DOMAIN chain = 1..Len(chain)
        /\ \A t : t \in Mined <=> t \in Upto(chain, Len(chain))
    BY <1>2, ChainShape
  <2> QED
    BY <2>1 DEF LastEmitted
<1>7. S = Upto(chain, Len(chain))
  BY <1>3, <1>5, <1>6 DEF Heads
<1>8. S = Mined
  BY <1>6, <1>7
<1>9. Front = NextNonce
  <2>1. Run(Mined, NextNonce)
    BY <1>2, NextAfterMined
  <2>2. Run(Mined, Front)
    BY <1>5, <1>8 DEF Gone
  <2> QED
    BY <2>1, <2>2, RunEnds
<1>10. \A r \in Tracked : r \in Started
  BY <1>2 DEF LedgerInv, Started, Tracked, Ids
<1>11. \A r \in Tracked : Contains(queue, r) <=> r \notin MinedIds
  <2>1. \A r : r \in MinedIds <=> \E t \in S : t.id = r
    BY <1>8 DEF MinedIds
  <2> QED
    BY <1>5, <1>10, <2>1 DEF Gone, Contains
<1>12. ASSUME queue # <<>> PROVE queue[1].nonce = NextNonce
  BY <1>2, <1>9, <1>12, FirstIsFront
<1> QED
  BY <1>11, <1>12

-----------------------------------------------------------------------------
(* The theorems *)

(* The strengthening holds in every state. *)
THEOREM ResponderInvariant == Spec => []ResponderInv
<1>1. ResponderInv /\ [Next]_vars => ResponderInv'
  BY StepInv
<1> QED
  BY InitInv, <1>1, PTL DEF Spec

(* gasQueue.ts:229-270: every queue that the store is given passes the      *)
(* checks of the constructor, and no response is recorded twice.            *)
THEOREM ResponderTypeOK == Spec => []TypeOK
<1>1. ResponderInv => TypeOK
  <2> SUFFICES ASSUME ResponderInv PROVE TypeOK
    OBVIOUS
  <2>1. QueueInv /\ RecordsInv /\ IssuedInv /\ NetInv
    BY DEF ResponderInv, StoreInv
  <2>2. KeptItems \subseteq Items
    BY DEF KeptItems, Items, Observations, Requests
  <2>3. queue \in Seq(Items) /\ transactions \in Seq(Items) /\ issued \subseteq Items
    <3>1. queue \in Seq(KeptItems) /\ transactions \in Seq(KeptItems) /\ issued \subseteq KeptItems
      BY <2>1 DEF QueueInv, RecordsInv, IssuedInv
    <3> HIDE DEF KeptItems, Items
    <3> QED
      BY <2>2, <3>1
  <2> QED
    BY <2>1, <2>3 DEF TypeOK, QueueInv, RecordsInv, IssuedInv, NetInv, Transactions
<1> QED
  BY <1>1, ResponderInvariant, PTL

(* multiResponder.ts:125-172: no nonce is given up that was not used, after *)
(* whatever reorganisations, replacements and failures.                     *)
THEOREM NoNonceIsLost == Spec => []NoNonceGap
<1>1. ResponderInv => NoNonceGap
  <2> SUFFICES ASSUME ResponderInv, NEW n \in FirstNonce..(emptyNonce - 1)
               PROVE  \/ \E i \in DOMAIN queue : queue[i].nonce = n
                      \/ \E tx \in used : tx.nonce = n
    BY DEF NoNonceGap
  <2>1. QueueInv /\ GapInv /\ emptyNonce \in Nat
    BY DEF ResponderInv, StoreInv, QueueInv
  <2>2. QueueOf(Observations, queue, emptyNonce) /\ Len(queue) \in Nat /\ Front \in Int
    BY <2>1, QueueIsOne
  <2>3. CASE n < Front
    <3>1. n \in FirstNonce..(Front - 1)
      BY <2>1, <2>2, <2>3, SizesAreNatural
    <3> QED
      BY <2>1, <3>1 DEF GapInv
  <2>4. CASE ~(n < Front)
    <3>1. n \in (emptyNonce - Len(queue))..(emptyNonce - 1)
      BY <2>1, <2>2, <2>4, SizesAreNatural DEF Front
    <3>2. \A m \in (emptyNonce - Len(queue))..(emptyNonce - 1) :
              \E i \in DOMAIN queue : queue[i].nonce = m
      BY <2>2, QueuedNonces
    <3> QED
      BY <3>1, <3>2, Zenon
  <2> QED
    BY <2>3, <2>4
<1> QED
  BY <1>1, ResponderInvariant, PTL

(* store.ts:55-71: the record of a queued response is its queue item. *)
THEOREM RecordsMatchTheQueue == Spec => []QueuedIsRecorded
<1>1. ResponderInv => QueuedIsRecorded
  <2> SUFFICES ASSUME ResponderInv, NEW i \in DOMAIN queue, queue[i].request.id \in Tracked
               PROVE  Record(queue[i].request.id) = queue[i]
    BY DEF QueuedIsRecorded
  <2>1. RecordsInv
    BY DEF ResponderInv, StoreInv
  <2>2. PICK j \in DOMAIN transactions : transactions[j].request.id = queue[i].request.id
    BY DEF Tracked, Ids
  <2>3. Record(transactions[j].request.id) = transactions[j]
    BY <2>1, RecordIsKept DEF RecordsInv
  <2> QED
    BY <2>1, <2>2, <2>3 DEF RecordsInv
<1> QED
  BY <1>1, ResponderInvariant, PTL

(* multiResponder.ts:104: unless something failed, whatever waits in       *)
(* the queue of a settled responder is in the network.                       *)
THEOREM QueueReachesTheNetwork == Spec => []QueuedIsSent
<1>1. ResponderInv => QueuedIsSent
  BY DEF ResponderInv, StoreInv, SentInv, QueuedIsSent, Settled, TxOf
<1> QED
  BY <1>1, ResponderInvariant, PTL

(* gasQueue.ts:206-211: what is issued tops all that was issued at its      *)
(* nonce, until the record of an overtaken response is put back.            *)
THEOREM ReplacementsTop == Spec => ReplacedAtHigherPrice
<1>1. ResponderInv /\ [Next]_vars =>
        [~restored' =>
            \A new \in issued' \ issued, old \in issued :
                new.nonce = old.nonce
                    => 100 * new.price >= (100 + ReplacementRate) * old.price]_vars
  BY StepInv DEF StepSays, IssuesHigher
<1> QED
  BY <1>1, ResponderInvariant, PTL DEF Spec, ReplacedAtHigherPrice

(* multiResponder.ts:67-207: only a response that was mined leaves the queue. *)
THEOREM OnlyMinedLeave == Spec => LeavesQueueOnlyMined
<1>1. ResponderInv /\ [Next]_vars =>
        [\A r \in Ids(queue) \ Ids(queue') : \E tx \in used : tx.id = r]_vars
  BY StepInv DEF StepSays, LeavesMined
<1> QED
  BY <1>1, ResponderInvariant, PTL DEF Spec, LeavesQueueOnlyMined

(* multiResponder.ts:214-218: no reorganisation between the head that asked *)
(* for the end of a response and the end can make it wrong.                 *)
THEOREM ForgottenAreMined == Spec => ForgottenOnlyWhenMined
<1>1. ResponderInv /\ [Next]_vars => [\A r \in Tracked \ Tracked' : r \in MinedIds]_vars
  BY StepInv DEF StepSays, ForgetsMined
<1> QED
  BY <1>1, ResponderInvariant, PTL DEF Spec, ForgottenOnlyWhenMined

(* multiResponder.ts:67-216 and component.ts:88-283: whatever is mined and   *)
(* reorganised, in whichever order the calls come to the lock, the queue of  *)
(* a settled responder is that of the responses its branch lacks.            *)
THEOREM QueueFollowsTheChain == Spec => []QueueMirrorsChain
<1>1. Init => ResponderInv /\ LinkInv /\ CalmInv
  BY InitInv, InitCalm
<1>2. ResponderInv /\ LinkInv /\ CalmInv /\ [Next]_vars
        => (ResponderInv /\ LinkInv /\ CalmInv)'
  BY LinkStep, CalmStep
<1>3. ResponderInv /\ LinkInv /\ CalmInv => QueueMirrorsChain
  BY CalmMirrors
<1> QED
  BY <1>1, <1>2, <1>3, PTL DEF Spec
=============================================================================

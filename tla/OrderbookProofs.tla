-------------------------- MODULE OrderbookProofs --------------------------
(***************************************************************************)
(* Proofs of the invariants of Orderbook, for all values of its constants. *)
(* The book is taken apart by side: SideOK says that one map and the index *)
(* agree, and there is one lemma per way the code changes a side.  The     *)
(* step lemmas put the sides together again.                               *)
(***************************************************************************)
EXTENDS Orderbook, SumProofs, SequenceTheorems, TLAPS

(* A map with one entry set.                                               *)
LEMMA WithMap ==
  ASSUME NEW map, NEW key, NEW value
  PROVE  /\ \A k : k \in DOMAIN With(map, key, value) <=> k \in DOMAIN map \/ k = key
         /\ With(map, key, value)[key] = value
         /\ \A k \in DOMAIN map : k # key => With(map, key, value)[k] = map[k]
  BY DEF With

(* push_back on a level: the level gets one more id, the others keep       *)
(* theirs.                                                                 *)
LEMMA QueuedMap ==
  ASSUME NEW map, NEW price, NEW id
  PROVE  /\ \A q : q \in DOMAIN Queued(map, price, id) <=> q \in DOMAIN map \/ q = price
         /\ Queued(map, price, id)[price] =
              Append(IF price \in DOMAIN map THEN map[price] ELSE <<>>, id)
         /\ \A q \in DOMAIN map : q # price => Queued(map, price, id)[q] = map[q]
  BY DEF Queued, With

(* RemoveAt takes one element out and closes the gap.                      *)
LEMMA WithoutAt ==
  ASSUME NEW S, NEW seq \in Seq(S), NEW i \in DOMAIN seq
  PROVE  /\ RemoveAt(seq, i) \in Seq(S)
         /\ Len(RemoveAt(seq, i)) = Len(seq) - 1
         /\ \A j \in 1 .. Len(seq) - 1 :
              RemoveAt(seq, i)[j] = IF j < i THEN seq[j] ELSE seq[j + 1]
<1> DEFINE front == SubSeq(seq, 1, i-1)
           back  == SubSeq(seq, i+1, Len(seq))
<1>0. /\ Len(seq) \in Nat
      /\ i \in 1 .. Len(seq)
      /\ \A j \in 1 .. Len(seq) : seq[j] \in S
  BY LenProperties, ElementOfSeq
<1>1. /\ front \in Seq(S)
      /\ Len(front) = i - 1
      /\ \A j \in 1 .. i - 1 : front[j] = seq[j]
  <2>1. \A j \in 1 .. i - 1 : seq[j] \in S
    BY <1>0
  <2>2. /\ front \in Seq(S)
        /\ Len(front) = IF 1 <= i-1 THEN (i-1)-1+1 ELSE 0
        /\ \A j \in 1 .. (i-1)-1+1 : front[j] = seq[1+j-1]
    BY <1>0, <2>1, SubSeqProperties
  <2> QED BY <1>0, <2>2
<1>2. /\ back \in Seq(S)
      /\ Len(back) = Len(seq) - i
      /\ \A j \in 1 .. Len(seq) - i : back[j] = seq[j + i]
  <2>1. \A j \in i + 1 .. Len(seq) : seq[j] \in S
    BY <1>0
  <2>2. /\ back \in Seq(S)
        /\ Len(back) = IF i+1 <= Len(seq) THEN Len(seq)-(i+1)+1 ELSE 0
        /\ \A j \in 1 .. Len(seq)-(i+1)+1 : back[j] = seq[(i+1)+j-1]
    <3> HIDE DEF back
    <3>1. back = SubSeq(seq, i+1, Len(seq)) BY DEF back
    <3> QED BY <1>0, <2>1, <3>1, SubSeqProperties
  <2> HIDE DEF back
  <2> QED BY <1>0, <2>2
<1> HIDE DEF front, back
<1>3. RemoveAt(seq, i) = front \o back
  BY DEF RemoveAt, front, back
<1>4. /\ front \o back \in Seq(S)
      /\ Len(front \o back) = Len(front) + Len(back)
      /\ \A j \in 1 .. Len(front) + Len(back) :
           (front \o back)[j] = IF j <= Len(front) THEN front[j] ELSE back[j - Len(front)]
  BY <1>1, <1>2, ConcatProperties
<1>5. Len(front \o back) = Len(seq) - 1
  BY <1>0, <1>1, <1>2, <1>4
<1>6. ASSUME NEW j \in 1 .. Len(seq) - 1
      PROVE  (front \o back)[j] = IF j < i THEN seq[j] ELSE seq[j + 1]
  <2>1. CASE j < i
    <3>1. j \in 1 .. i - 1 /\ j <= Len(front) /\ j \in 1 .. Len(front) + Len(back)
      BY <1>0, <1>1, <1>2, <2>1
    <3> QED BY <1>1, <1>4, <2>1, <3>1
  <2>2. CASE ~(j < i)
    <3>1. /\ j - Len(front) \in 1 .. Len(seq) - i
          /\ ~(j <= Len(front))
          /\ j \in 1 .. Len(front) + Len(back)
          /\ (j - Len(front)) + i = j + 1
      BY <1>0, <1>1, <1>2, <2>2
    <3>2. (front \o back)[j] = back[j - Len(front)]
      BY <1>4, <3>1
    <3> QED BY <1>2, <2>2, <3>1, <3>2
  <2> QED BY <2>1, <2>2
<1> QED BY <1>3, <1>4, <1>5, <1>6

-----------------------------------------------------------------------------

(* No id twice in one list.                                                *)
OnceIn(level) ==
  \A i, j \in DOMAIN level : level[i] = level[j] => i = j

(* One of the two maps agrees with the index os: every queued id is a live *)
(* order of this side and price, every live order of this side is queued,  *)
(* and once.                                                               *)
SideOK(map, side, os) ==
  /\ IsMap(map)
  /\ \A p \in DOMAIN map : \A i \in DOMAIN map[p] :
       /\ map[p][i] \in DOMAIN os
       /\ os[map[p][i]].side = side
       /\ os[map[p][i]].price = p
  /\ \A id \in DOMAIN os :
       os[id].side = side =>
         /\ os[id].price \in DOMAIN map
         /\ \E i \in DOMAIN map[os[id].price] : map[os[id].price][i] = id
  /\ \A p \in DOMAIN map : OnceIn(map[p])

(* An order added to one side leaves the other side in agreement.          *)
LEMMA OtherSideAdded ==
  ASSUME NEW map, NEW side, NEW os, SideOK(map, side, os),
         NEW id, id \notin DOMAIN os, NEW order, order.side # side
  PROVE  SideOK(map, side, With(os, id, order))
<1> DEFINE new == With(os, id, order)
<1>1. /\ DOMAIN new = DOMAIN os \cup {id}
      /\ new[id] = order
      /\ \A x \in DOMAIN os : new[x] = os[x]
  BY DEF With
<1> HIDE DEF new
<1> QED BY <1>1 DEF SideOK, new

(* push_back and orders_.insert keep the side in agreement (AddOrder).     *)
LEMMA SideQueued ==
  ASSUME NEW map, NEW side, NEW os, SideOK(map, side, os),
         NEW id \in OrderIds, id \notin DOMAIN os,
         NEW order, order.side = side, order.price \in Prices
  PROVE  SideOK(Queued(map, order.price, id), side, With(os, id, order))
<1> DEFINE new   == With(os, id, order)
           price == order.price
           old   == IF price \in DOMAIN map THEN map[price] ELSE <<>>
           level == Append(old, id)
           m     == Queued(map, price, id)
<1>1. /\ DOMAIN new = DOMAIN os \cup {id}
      /\ new[id] = order
      /\ \A x \in DOMAIN os : new[x] = os[x]
  BY DEF With
<1>2. /\ DOMAIN m = DOMAIN map \cup {price}
      /\ m[price] = level
      /\ \A q \in DOMAIN map \ {price} : m[q] = map[q]
      /\ m = [q \in DOMAIN m |-> m[q]]
  BY QueuedMap DEF Queued, With
<1>3. old \in Seq(OrderIds)
  BY EmptySeq DEF SideOK, IsMap
<1>4. /\ level \in Seq(OrderIds)
      /\ Len(old) \in Nat
      /\ DOMAIN old = 1 .. Len(old)
      /\ DOMAIN level = 1 .. Len(old) + 1
      /\ level[Len(old) + 1] = id
      /\ \A i \in 1 .. Len(old) : level[i] = old[i]
  BY <1>3, AppendProperties, LenProperties
<1>5. \A i \in 1 .. Len(old) :
        /\ old[i] \in DOMAIN os
        /\ os[old[i]].side = side
        /\ os[old[i]].price = price
  <2>1. CASE price \in DOMAIN map
    BY <2>1, <1>4 DEF SideOK
  <2>2. CASE price \notin DOMAIN map
    <3>1. old = <<>> /\ Len(old) = 0
      BY <2>2, EmptySeq
    <3> HIDE DEF old
    <3> QED BY <3>1
  <2> QED BY <2>1, <2>2
<1>6. OnceIn(old)
  <2>1. CASE price \in DOMAIN map
    BY <2>1 DEF SideOK
  <2>2. CASE price \notin DOMAIN map
    BY <2>2 DEF OnceIn
  <2> QED BY <2>1, <2>2
<1>7. price \in DOMAIN map => old = map[price]
  OBVIOUS
<1> HIDE DEF new, old, level, m
<1>8. IsMap(m)
  BY <1>2, <1>4 DEF SideOK, IsMap, price
<1>9. ASSUME NEW p \in DOMAIN m, NEW i \in DOMAIN m[p]
      PROVE  m[p][i] \in DOMAIN new /\ new[m[p][i]].side = side /\ new[m[p][i]].price = p
  <2>1. CASE p = price
    <3>1. CASE i = Len(old) + 1
      BY <3>1, <2>1, <1>1, <1>2, <1>4
    <3>2. CASE i \in 1 .. Len(old)
      BY <3>2, <2>1, <1>1, <1>2, <1>4, <1>5
    <3> QED BY <3>1, <3>2, <2>1, <1>2, <1>4
  <2>2. CASE p # price
    BY <2>2, <1>1, <1>2 DEF SideOK
  <2> QED BY <2>1, <2>2
<1>10. ASSUME NEW x \in DOMAIN new, new[x].side = side
       PROVE  /\ new[x].price \in DOMAIN m
              /\ \E i \in DOMAIN m[new[x].price] : m[new[x].price][i] = x
  <2>1. CASE x = id
    BY <2>1, <1>1, <1>2, <1>4
  <2>2. CASE x # id
    <3>1. x \in DOMAIN os /\ os[x].side = side /\ new[x] = os[x]
      BY <2>2, <1>1, <1>10
    <3>2. PICK i \in DOMAIN map[os[x].price] : map[os[x].price][i] = x
      BY <3>1 DEF SideOK
    <3>3. os[x].price \in DOMAIN map
      BY <3>1 DEF SideOK
    <3>4. CASE os[x].price = price
      <4>1. i \in 1 .. Len(old) /\ level[i] = x
        BY <3>2, <3>3, <3>4, <1>4, <1>7
      <4>2. i \in DOMAIN level
        BY <4>1, <1>4
      <4> QED BY <3>1, <3>4, <4>1, <4>2, <1>2
    <3>5. CASE os[x].price # price
      BY <3>1, <3>2, <3>3, <3>5, <1>2
    <3> QED BY <3>4, <3>5
  <2> QED BY <2>1, <2>2
<1>11. ASSUME NEW p \in DOMAIN m
       PROVE  OnceIn(m[p])
  <2>1. CASE p = price
    <3>1. \A i \in 1 .. Len(old) : level[i] # id
      BY <1>4, <1>5
    <3>2. OnceIn(level)
      BY <3>1, <1>4, <1>6 DEF OnceIn
    <3> QED BY <2>1, <3>2, <1>2
  <2>2. CASE p # price
    BY <2>2, <1>2 DEF SideOK
  <2> QED BY <2>1, <2>2
<1> QED BY <1>8, <1>9, <1>10, <1>11 DEF SideOK, m, new

(* Orders of one side erased or filled leave the other in agreement.       *)
LEMMA OtherSideChanged ==
  ASSUME NEW map, NEW side, NEW os, SideOK(map, side, os),
         NEW new, DOMAIN new \subseteq DOMAIN os,
         \A x \in DOMAIN os : os[x].side = side => x \in DOMAIN new,
         \A x \in DOMAIN new : new[x].side = os[x].side /\ new[x].price = os[x].price
  PROVE  SideOK(map, side, new)
  BY DEF SideOK

(* The two erasures of CancelOrder, of the list node and of a level it     *)
(* empties, keep the side in agreement.                                    *)
LEMMA SideUnqueued ==
  ASSUME NEW map, NEW side, NEW os, SideOK(map, side, os),
         NEW id \in DOMAIN os, os[id].side = side,
         NEW new, new = Restrict(os, DOMAIN os \ {id})
  PROVE  SideOK(Unqueued(map, os[id].price, id), side, new)
<1> DEFINE price    == os[id].price
           old      == map[price]
           location == CHOOSE i \in DOMAIN old : old[i] = id
           rest     == RemoveAt(old, location)
           m        == Unqueued(map, price, id)
<1>1. /\ DOMAIN new = DOMAIN os \ {id}
      /\ \A x \in DOMAIN new : new[x] = os[x]
  BY DEF Restrict
<1>2. price \in DOMAIN map /\ old \in Seq(OrderIds)
  BY DEF SideOK, IsMap
<1>3. location \in DOMAIN old /\ old[location] = id
  BY DEF SideOK
<1>r. /\ rest \in Seq(OrderIds)
      /\ Len(old) \in Nat
      /\ DOMAIN old = 1 .. Len(old)
      /\ Len(rest) = Len(old) - 1
      /\ DOMAIN rest = 1 .. Len(old) - 1
      /\ \A j \in 1 .. Len(old) - 1 :
           rest[j] = IF j < location THEN old[j] ELSE old[j + 1]
  <2> HIDE DEF location, old
  <2>1. /\ rest \in Seq(OrderIds)
        /\ Len(rest) = Len(old) - 1
        /\ \A j \in 1 .. Len(old) - 1 :
             rest[j] = IF j < location THEN old[j] ELSE old[j + 1]
    BY <1>2, <1>3, WithoutAt
  <2> HIDE DEF rest
  <2> QED BY <2>1, <1>2, LenProperties
<1>4. CASE rest = <<>>
  <2>3. \A i \in DOMAIN old : old[i] = id
    <3> HIDE DEF location, old, rest
    <3>1. Len(rest) = 0
      BY <1>4, EmptySeq
    <3>2. DOMAIN old = {location}
      BY <1>3, <1>r, <3>1
    <3> QED BY <1>3, <3>2
  <2>4. /\ DOMAIN m = DOMAIN map \ {price}
        /\ \A q \in DOMAIN m : m[q] = map[q]
        /\ m = [q \in DOMAIN m |-> m[q]]
    BY <1>4 DEF Unqueued, Restrict
  <2> HIDE DEF m, location, rest
  <2>5. IsMap(m)
    BY <2>4 DEF SideOK, IsMap
  <2>6. ASSUME NEW p \in DOMAIN m, NEW i \in DOMAIN m[p]
        PROVE  m[p][i] \in DOMAIN new /\ new[m[p][i]].side = side /\ new[m[p][i]].price = p
    <3>1. /\ m[p][i] \in DOMAIN os
          /\ os[m[p][i]].side = side
          /\ os[m[p][i]].price = p
      BY <2>4 DEF SideOK
    <3>2. m[p][i] # id
      BY <3>1, <2>4
    <3> QED BY <1>1, <3>1, <3>2
  <2>7. ASSUME NEW x \in DOMAIN new, new[x].side = side
        PROVE  /\ new[x].price \in DOMAIN m
               /\ \E i \in DOMAIN m[new[x].price] : m[new[x].price][i] = x
    <3>1. x \in DOMAIN os /\ x # id /\ os[x].side = side /\ new[x] = os[x]
      BY <2>7, <1>1
    <3>2. /\ os[x].price \in DOMAIN map
          /\ \E i \in DOMAIN map[os[x].price] : map[os[x].price][i] = x
      BY <3>1 DEF SideOK
    <3>3. os[x].price # price
      BY <2>3, <3>1, <3>2
    <3> QED BY <2>4, <3>1, <3>2, <3>3
  <2>8. \A p \in DOMAIN m : OnceIn(m[p])
    BY <2>4 DEF SideOK
  <2> QED BY <2>5, <2>6, <2>7, <2>8, ZenonT(40) DEF SideOK, m
<1>5. CASE rest # <<>>
  <2>2. m = [map EXCEPT ![price] = rest]
    BY <1>5 DEF Unqueued
  <2>3. /\ DOMAIN m = DOMAIN map
        /\ m[price] = rest
        /\ \A q \in DOMAIN m \ {price} : m[q] = map[q]
        /\ m = [q \in DOMAIN m |-> m[q]]
    <3> HIDE DEF m, location, rest
    <3> QED BY <2>2, <1>2
  <2>4. \A i \in DOMAIN old : old[i] = id => i = location
    BY <1>2, <1>3 DEF SideOK, OnceIn
  <2> HIDE DEF m, location, rest
  <2>5. IsMap(m)
    BY <1>r, <2>3 DEF SideOK, IsMap
  <2>6. ASSUME NEW j \in 1 .. Len(old) - 1
        PROVE  \E i \in DOMAIN old : /\ rest[j] = old[i]
                                     /\ i # location
                                     /\ i = IF j < location THEN j ELSE j + 1
    <3> HIDE DEF old
    <3> QED BY <1>r, <1>3
  <2>7. ASSUME NEW p \in DOMAIN m, NEW i \in DOMAIN m[p]
        PROVE  m[p][i] \in DOMAIN new /\ new[m[p][i]].side = side /\ new[m[p][i]].price = p
    <3>1. CASE p = price
      <4>1. PICK k \in DOMAIN old : m[p][i] = old[k] /\ k # location
        BY <2>6, <1>r, <2>3, <3>1
      <4>2. old[k] # id
        BY <4>1, <2>4
      <4>3. old[k] \in DOMAIN os /\ os[old[k]].side = side /\ os[old[k]].price = price
        BY <1>2 DEF SideOK
      <4> QED BY <1>1, <4>1, <4>2, <4>3, <3>1
    <3>2. CASE p # price
      <4>1. /\ m[p][i] \in DOMAIN os
            /\ os[m[p][i]].side = side
            /\ os[m[p][i]].price = p
        BY <2>3, <3>2 DEF SideOK
      <4>2. m[p][i] # id
        BY <4>1, <3>2
      <4> QED BY <1>1, <4>1, <4>2
    <3> QED BY <3>1, <3>2
  <2>8. ASSUME NEW x \in DOMAIN new, new[x].side = side
        PROVE  /\ new[x].price \in DOMAIN m
               /\ \E i \in DOMAIN m[new[x].price] : m[new[x].price][i] = x
    <3>1. x \in DOMAIN os /\ x # id /\ os[x].side = side /\ new[x] = os[x]
      BY <2>8, <1>1
    <3>2. os[x].price \in DOMAIN map
      BY <3>1 DEF SideOK
    <3>3. PICK i \in DOMAIN map[os[x].price] : map[os[x].price][i] = x
      BY <3>1 DEF SideOK
    <3>4. CASE os[x].price = price
      <4>1. i \in 1 .. Len(old) /\ old[i] = x /\ i # location
        BY <3>1, <3>3, <3>4, <1>r, <1>3
      <4>2. location \in 1 .. Len(old)
        BY <1>3, <1>r
      <4>3. \E j \in 1 .. Len(old) - 1 : rest[j] = x
        <5>1. CASE i < location
          <6>1. i \in 1 .. Len(old) - 1
            BY <5>1, <4>1, <4>2, <1>r
          <6> QED BY <6>1, <5>1, <1>r, <4>1
        <5>2. CASE ~(i < location)
          <6>1. i - 1 \in 1 .. Len(old) - 1 /\ ~(i - 1 < location) /\ (i - 1) + 1 = i
            BY <5>2, <4>1, <4>2, <1>r
          <6> QED BY <6>1, <1>r, <4>1
        <5> QED BY <5>1, <5>2
      <4> QED BY <4>3, <3>1, <3>2, <3>4, <1>r, <2>3
    <3>5. CASE os[x].price # price
      BY <3>1, <3>2, <3>3, <3>5, <2>3
    <3> QED BY <3>4, <3>5
  <2>9. ASSUME NEW p \in DOMAIN m
        PROVE  OnceIn(m[p])
    <3>1. CASE p = price
      <4>1. OnceIn(old)
        BY <1>2 DEF SideOK
      <4>2. ASSUME NEW i \in 1 .. Len(old) - 1, NEW j \in 1 .. Len(old) - 1,
                   rest[i] = rest[j]
            PROVE  i = j
        <5>1. /\ (IF i < location THEN i ELSE i + 1) = (IF j < location THEN j ELSE j + 1)
          BY <4>1, <4>2, <2>6 DEF OnceIn
        <5>2. location \in 1 .. Len(old)
          BY <1>3, <1>r
        <5> QED BY <5>1, <5>2, <1>r
      <4> QED BY <3>1, <4>2, <1>r, <2>3 DEF OnceIn
    <3>2. CASE p # price
      BY <3>2, <2>3 DEF SideOK
    <3> QED BY <3>1, <3>2
  <2> QED BY <2>5, <2>7, <2>8, <2>9, ZenonT(40) DEF SideOK, m
<1> QED BY <1>4, <1>5

(* pop_front of a completed order keeps the side in agreement.             *)
LEMMA SidePopped ==
  ASSUME NEW map, NEW side, NEW os, SideOK(map, side, os),
         NEW price \in DOMAIN map, map[price] # <<>>, NEW done,
         \A x \in done : x \in DOMAIN os /\ os[x].side = side => x = Head(map[price]),
         NEW new, DOMAIN new = DOMAIN os \ done,
         \A x \in DOMAIN new : new[x].side = os[x].side /\ new[x].price = os[x].price
  PROVE  SideOK([map EXCEPT ![price] = Popped(@, done)], side, new)
<1> DEFINE old  == map[price]
           rest == Popped(old, done)
           m    == [map EXCEPT ![price] = rest]
<1>1. /\ old \in Seq(OrderIds)
      /\ Len(old) \in Nat
      /\ Len(old) > 0
      /\ DOMAIN old = 1 .. Len(old)
      /\ Head(old) = old[1]
      /\ map = [q \in DOMAIN map |-> map[q]]
  <2>1. old \in Seq(OrderIds) /\ map = [q \in DOMAIN map |-> map[q]]
    BY DEF SideOK, IsMap
  <2> QED BY <2>1, LenProperties, EmptySeq
<1>2. /\ DOMAIN m = DOMAIN map
      /\ m[price] = rest
      /\ \A q \in DOMAIN m \ {price} : m[q] = map[q]
      /\ m = [q \in DOMAIN m |-> m[q]]
  <2> HIDE DEF rest
  <2> QED BY <1>1
<1>3. CASE Head(old) \in done
  <2>1. /\ rest \in Seq(OrderIds)
        /\ Len(rest) = Len(old) - 1
        /\ DOMAIN rest = 1 .. Len(old) - 1
        /\ \A i \in 1 .. Len(old) - 1 : rest[i] = old[i + 1]
    BY <1>1, <1>3, HeadTailProperties, LenProperties DEF Popped
  <2> HIDE DEF m, rest
  <2>2. IsMap(m)
    BY <1>2, <2>1 DEF SideOK, IsMap
  <2>3. \A i \in 1 .. Len(old) - 1 : rest[i] # Head(old)
    <3>1. OnceIn(old)
      BY DEF SideOK
    <3> QED BY <3>1, <1>1, <2>1 DEF OnceIn
  <2>4. ASSUME NEW p \in DOMAIN m, NEW i \in DOMAIN m[p]
        PROVE  m[p][i] \in DOMAIN new /\ new[m[p][i]].side = side /\ new[m[p][i]].price = p
    <3>1. CASE p = price
      <4>1. i \in 1 .. Len(old) - 1 /\ m[p][i] = old[i + 1] /\ i + 1 \in DOMAIN old
        BY <3>1, <1>1, <1>2, <2>1
      <4>2. m[p][i] \in DOMAIN os /\ os[m[p][i]].side = side /\ os[m[p][i]].price = p
        BY <3>1, <4>1 DEF SideOK
      <4>3. m[p][i] # Head(old)
        BY <4>1, <2>3, <2>1
      <4> QED BY <4>2, <4>3
    <3>2. CASE p # price
      <4>1. m[p][i] \in DOMAIN os /\ os[m[p][i]].side = side /\ os[m[p][i]].price = p
        BY <3>2, <1>2 DEF SideOK
      <4>2. Head(old) \in DOMAIN os /\ os[Head(old)].price = price
        BY <1>1 DEF SideOK
      <4> QED BY <4>1, <4>2, <3>2
    <3> QED BY <3>1, <3>2
  <2>5. ASSUME NEW x \in DOMAIN new, new[x].side = side
        PROVE  /\ new[x].price \in DOMAIN m
               /\ \E i \in DOMAIN m[new[x].price] : m[new[x].price][i] = x
    <3>1. /\ x \in DOMAIN os
          /\ x # Head(old)
          /\ os[x].side = side
          /\ new[x].price = os[x].price
      BY <2>5, <1>3
    <3>2. os[x].price \in DOMAIN map
      BY <3>1 DEF SideOK
    <3>3. PICK i \in DOMAIN map[os[x].price] : map[os[x].price][i] = x
      BY <3>1 DEF SideOK
    <3>4. CASE os[x].price = price
      <4>1. i - 1 \in 1 .. Len(old) - 1 /\ (i - 1) + 1 = i
        BY <3>1, <3>3, <3>4, <1>1
      <4>2. rest[i - 1] = x
        BY <4>1, <3>3, <3>4, <2>1
      <4> QED BY <4>1, <4>2, <3>1, <3>2, <3>4, <1>2, <2>1
    <3>5. CASE os[x].price # price
      BY <3>1, <3>2, <3>3, <3>5, <1>2
    <3> QED BY <3>4, <3>5
  <2>6. ASSUME NEW p \in DOMAIN m
        PROVE  OnceIn(m[p])
    <3>1. OnceIn(old)
      BY DEF SideOK
    <3>2. CASE p = price
      BY <3>1, <3>2, <1>1, <1>2, <2>1 DEF OnceIn
    <3>3. CASE p # price
      BY <3>3, <1>2 DEF SideOK
    <3> QED BY <3>2, <3>3
  <2> QED BY <2>2, <2>4, <2>5, <2>6 DEF SideOK, m, rest
<1>4. CASE Head(old) \notin done
  <2>1. m = map
    BY <1>4, <1>1 DEF Popped
  <2>2. SideOK(map, side, new)
    <3>1. \A x \in DOMAIN os : os[x].side = side => x \in DOMAIN new
      BY <1>4
    <3> QED BY <3>1, OtherSideChanged
  <2> QED BY <2>1, <2>2
<1> QED BY <1>3, <1>4

-----------------------------------------------------------------------------

(* Both maps are well typed and agree with the index.                      *)
BookOK(lv, os) ==
  /\ lv = [s \in Sides |-> lv[s]]
  /\ \A s \in Sides : SideOK(lv[s], s, os)
  /\ DOMAIN os \subseteq OrderIds
  /\ os \in [DOMAIN os -> Order]

(* Crossed, of the maps lv.                                                *)
CrossedIn(lv) == \E p \in DOMAIN lv["Buy"] : CanMatch(lv, "Buy", p)

(* No fill-and-kill order rests and no level is empty.                     *)
Clean(lv, os) ==
  /\ \A id \in DOMAIN os : os[id].type # "FillandKill"
  /\ \A s \in Sides : \A p \in DOMAIN lv[s] : lv[s][p] # <<>>

(* The inductive invariant. NoLeftoversAtRest is not inductive by itself:  *)
(* what makes it hold when a call returns is that the loop only leaves     *)
(* leftovers behind while the maps cross, because a fill-and-kill order is *)
(* let in only where it crosses and a fill changes no map key.             *)
IInv ==
  /\ BookOK(levels, orders)
  /\ trades \in Seq(Trade)
  /\ pc \in {"idle", "matching", "crashed"}
  /\ pc = "idle" => ~CrossedIn(levels)
  /\ pc # "crashed" /\ ~CrossedIn(levels) => Clean(levels, orders)

(* The invariants the runs check are consequences of IInv.                 *)
LEMMA InvariantsFollow ==
  ASSUME IInv
  PROVE  TypeOK /\ IndexConsistent /\ UncrossedAtRest /\ NoLeftoversAtRest
<1>1. TypeOK
  BY DEF IInv, BookOK, SideOK, TypeOK
<1>2. IndexConsistent
  <2>1. QueuedIsLive
    BY DEF IInv, BookOK, SideOK, QueuedIsLive
  <2>2. LiveIsQueued
    <3> SUFFICES ASSUME NEW id \in DOMAIN orders
        PROVE  /\ orders[id].price \in DOMAIN levels[orders[id].side]
               /\ \E i \in DOMAIN levels[orders[id].side][orders[id].price] :
                    levels[orders[id].side][orders[id].price][i] = id
      BY DEF LiveIsQueued
    <3>1. orders[id].side \in Sides
      BY DEF IInv, BookOK, Order
    <3>2. SideOK(levels[orders[id].side], orders[id].side, orders)
      BY <3>1 DEF IInv, BookOK
    <3> QED BY <3>2 DEF SideOK
  <2>3. QueuedOnce
    BY DEF IInv, BookOK, SideOK, OnceIn, QueuedOnce
  <2> QED BY <2>1, <2>2, <2>3 DEF IndexConsistent
<1>3. UncrossedAtRest
  BY DEF IInv, UncrossedAtRest, Crossed, CrossedIn
<1>4. NoLeftoversAtRest
  BY DEF IInv, NoLeftoversAtRest, Clean
<1> QED BY <1>1, <1>2, <1>3, <1>4

(* The empty book satisfies IInv.                                          *)
LEMMA InitHolds ==
  ASSUME Init
  PROVE  IInv
<1>1. /\ DOMAIN EmptyMap = {}
      /\ \A S : EmptyMap \in [{} -> S]
  BY DEF EmptyMap
<1>2. DOMAIN orders = {} /\ \A s \in Sides : levels[s] = EmptyMap /\ DOMAIN levels[s] = {}
  BY <1>1 DEF Init
<1>3. \A s \in Sides : SideOK(levels[s], s, orders)
  BY <1>1, <1>2 DEF SideOK, IsMap
<1>4. BookOK(levels, orders)
  BY <1>1, <1>2, <1>3 DEF BookOK, Init
<1>5. trades \in Seq(Trade)
  BY EmptySeq DEF Init
<1>6. ~CrossedIn(levels) /\ Clean(levels, orders)
  BY <1>2 DEF CrossedIn, Clean, Sides
<1> QED BY <1>4, <1>5, <1>6 DEF IInv, Init

(* Taking an order out of a map adds no level and leaves none empty.       *)
LEMMA UnqueuedMap ==
  ASSUME NEW map, NEW price \in DOMAIN map, NEW id
  PROVE  /\ DOMAIN Unqueued(map, price, id) \subseteq DOMAIN map
         /\ (\A q \in DOMAIN map : map[q] # <<>>) =>
              \A q \in DOMAIN Unqueued(map, price, id) : Unqueued(map, price, id)[q] # <<>>
<1> DEFINE rest == RemoveAt(map[price], CHOOSE i \in DOMAIN map[price] : map[price][i] = id)
<1>1. Unqueued(map, price, id) =
        IF rest = <<>> THEN Restrict(map, DOMAIN map \ {price})
                       ELSE [map EXCEPT ![price] = rest]
  BY DEF Unqueued
<1> HIDE DEF rest
<1> QED BY <1>1 DEF Restrict

(* CancelOrder on a live order keeps the book in agreement, does not make  *)
(* it cross and leaves nothing behind.                                     *)
LEMMA WithoutBook ==
  ASSUME BookOK(levels, orders), NEW id \in DOMAIN orders
  PROVE  /\ BookOK(Without(id), Erased({id}))
         /\ id \in OrderIds /\ id \notin DOMAIN Erased({id})
         /\ CrossedIn(Without(id)) => CrossedIn(levels)
         /\ Clean(levels, orders) => Clean(Without(id), Erased({id}))
<1> DEFINE side == orders[id].side
           map  == Unqueued(levels[side], orders[id].price, id)
           lv   == Without(id)
           os   == Erased({id})
<1>1. side \in Sides /\ SideOK(levels[side], side, orders)
  BY DEF BookOK, Order
<1>2. orders[id].price \in DOMAIN levels[side]
  BY <1>1 DEF SideOK
<1>3. /\ DOMAIN os = DOMAIN orders \ {id}
      /\ \A x \in DOMAIN os : os[x] = orders[x]
      /\ os = [x \in DOMAIN os |-> os[x]]
  BY DEF Erased, Restrict
<1>4. /\ lv = [s \in Sides |-> lv[s]]
      /\ lv[side] = map
      /\ \A s \in Sides \ {side} : lv[s] = levels[s]
  <2>1. lv = [levels EXCEPT ![side] = map]
    BY DEF Without
  <2> HIDE DEF map, lv, side
  <2> QED BY <2>1, <1>1 DEF BookOK
<1>5. SideOK(map, side, os)
  BY <1>1, SideUnqueued DEF Erased
<1>6. ASSUME NEW s \in Sides \ {side}
      PROVE  SideOK(lv[s], s, os)
  <2>1. SideOK(levels[s], s, orders)
    BY DEF BookOK
  <2>2. \A x \in DOMAIN orders : orders[x].side = s => x \in DOMAIN os
    BY <1>3
  <2> HIDE DEF os, lv, side
  <2>3. SideOK(levels[s], s, os)
    BY <1>3, <2>1, <2>2, OtherSideChanged
  <2> QED BY <2>3, <1>4
<1> HIDE DEF side, map, lv, os
<1>7. BookOK(lv, os)
  BY <1>3, <1>4, <1>5, <1>6 DEF BookOK
<1>8. /\ DOMAIN map \subseteq DOMAIN levels[side]
      /\ (\A q \in DOMAIN levels[side] : levels[side][q] # <<>>) =>
           \A q \in DOMAIN map : map[q] # <<>>
  BY <1>2, UnqueuedMap DEF map
<1>9. \A s \in Sides : DOMAIN lv[s] \subseteq DOMAIN levels[s]
  BY <1>4, <1>8
<1>10. CrossedIn(lv) => CrossedIn(levels)
  BY <1>9 DEF CrossedIn, CanMatch, Opposite, Sides
<1>11. Clean(levels, orders) => Clean(lv, os)
  BY <1>1, <1>3, <1>4, <1>8 DEF Clean
<1>12. id \in OrderIds
  BY DEF BookOK
<1> QED BY <1>3, <1>7, <1>10, <1>11, <1>12 DEF lv, os

(* The body of AddOrder, on a book at rest, establishes IInv: the book it  *)
(* leaves crosses if the order is a fill-and-kill one.                     *)
LEMMA InsertBook ==
  ASSUME NEW lv, NEW os, BookOK(lv, os), ~CrossedIn(lv), Clean(lv, os),
         NEW id \in OrderIds, NEW order \in Order,
         pc = "idle", trades \in Seq(Trade), Insert(lv, os, id, order)
  PROVE  IInv'
<1>1. CASE ~Accepts(lv, os, id, order) /\ levels' = lv /\ orders' = os /\ UNCHANGED <<trades, pc>>
  <2>1. BookOK(levels', orders') /\ ~CrossedIn(levels') /\ Clean(levels', orders')
    BY <1>1
  <2> QED BY <1>1, <2>1 DEF IInv, BookOK, CrossedIn, CanMatch, Clean, SideOK
<1>2. CASE /\ Accepts(lv, os, id, order)
           /\ levels' = [lv EXCEPT ![order.side] = Queued(@, order.price, id)]
           /\ orders' = With(os, id, order)
           /\ trades' = <<>>
           /\ pc' = "matching"
  <2> DEFINE side == order.side
             map  == Queued(lv[side], order.price, id)
             nlv  == [lv EXCEPT ![side] = map]
             nos  == With(os, id, order)
  <2>0. levels' = nlv /\ orders' = nos
    BY <1>2
  <2>1. id \notin DOMAIN os
    BY <1>2 DEF Accepts
  <2>2. side \in Sides /\ order.price \in Prices
    BY DEF Order
  <2>3. /\ nlv = [s \in Sides |-> nlv[s]]
        /\ nlv[side] = map
        /\ \A s \in Sides \ {side} : nlv[s] = lv[s]
    <3> HIDE DEF map, side
    <3> QED BY <2>2 DEF BookOK
  <2>4. /\ DOMAIN nos = DOMAIN os \cup {id}
        /\ nos[id] = order
        /\ \A x \in DOMAIN os : nos[x] = os[x]
        /\ nos = [x \in DOMAIN nos |-> nos[x]]
    <3>1. nos = [x \in DOMAIN nos |-> nos[x]]
      <4> HIDE DEF map, side, nlv
      <4> QED BY DEF With
    <3>2. /\ \A x : x \in DOMAIN nos <=> x \in DOMAIN os \/ x = id
          /\ nos[id] = order
          /\ \A x \in DOMAIN os : x # id => nos[x] = os[x]
      BY WithMap
    <3> HIDE DEF nos
    <3> QED BY <2>1, <3>1, <3>2
  <2>5. SideOK(map, side, nos)
    <3>1. SideOK(lv[side], side, os)
      BY <2>2 DEF BookOK
    <3> QED BY <2>1, <2>2, <3>1, SideQueued
  <2>6. ASSUME NEW s \in Sides \ {side}
        PROVE  SideOK(nlv[s], s, nos)
    <3>1. SideOK(lv[s], s, os)
      BY DEF BookOK
    <3>2. SideOK(lv[s], s, nos)
      BY <3>1, <2>1, OtherSideAdded
    <3> QED BY <2>3, <3>2
  <2>7. /\ DOMAIN map = DOMAIN lv[side] \cup {order.price}
        /\ map[order.price] # <<>>
        /\ \A q \in DOMAIN lv[side] \ {order.price} : map[q] = lv[side][q]
    <3> DEFINE old == IF order.price \in DOMAIN lv[side] THEN lv[side][order.price] ELSE <<>>
    <3>1. /\ \A q : q \in DOMAIN map <=> q \in DOMAIN lv[side] \/ q = order.price
          /\ map[order.price] = Append(old, id)
          /\ \A q \in DOMAIN lv[side] : q # order.price => map[q] = lv[side][q]
      BY QueuedMap
    <3>2. old \in Seq(OrderIds)
      <4>1. \A q \in DOMAIN lv[side] : lv[side][q] \in Seq(OrderIds)
        <5>1. SideOK(lv[side], side, os)
          BY <2>2 DEF BookOK
        <5> HIDE DEF side
        <5> QED BY <5>1 DEF SideOK, IsMap
      <4> QED BY <4>1, EmptySeq
    <3> HIDE DEF old, map
    <3>3. Append(old, id) # <<>>
      BY <3>2, AppendProperties
    <3> QED BY <3>1, <3>3
  <2> HIDE DEF nlv, nos, map
  <2>8. BookOK(nlv, nos)
    BY <2>2, <2>3, <2>4, <2>5, <2>6 DEF BookOK
  <2>9. ~CrossedIn(nlv) => Clean(nlv, nos)
    <3> SUFFICES ASSUME ~CrossedIn(nlv)
        PROVE  Clean(nlv, nos)
      OBVIOUS
    <3>1. order.type # "FillandKill"
      <4> SUFFICES ASSUME order.type = "FillandKill"
          PROVE  FALSE
        OBVIOUS
      <4>1. CanMatch(lv, side, order.price)
        BY <1>2 DEF Accepts
      <4>2. PICK p \in DOMAIN lv[Opposite(side)] : AtLeastAsGood(side, order.price, p)
        BY <4>1 DEF CanMatch
      <4>3. CASE side = "Buy"
        <5>1. order.price \in DOMAIN nlv["Buy"] /\ p \in DOMAIN nlv["Sell"]
          BY <2>3, <2>7, <4>2, <4>3 DEF Opposite, Sides
        <5>2. CanMatch(nlv, "Buy", order.price)
          BY <4>2, <4>3, <5>1 DEF CanMatch, Opposite
        <5> QED BY <5>1, <5>2 DEF CrossedIn
      <4>4. CASE side = "Sell"
        <5>1. order.price \in DOMAIN nlv["Sell"] /\ p \in DOMAIN nlv["Buy"]
          BY <2>3, <2>7, <4>2, <4>4 DEF Opposite, Sides
        <5>2. p >= order.price
          <6>1. p \in Int /\ order.price \in Int
            BY <2>2, <4>2, <4>4, PricesAssumption DEF BookOK, SideOK, IsMap, Opposite, Sides
          <6> QED BY <6>1, <4>2, <4>4 DEF AtLeastAsGood
        <5>3. CanMatch(nlv, "Buy", p)
          BY <5>1, <5>2 DEF CanMatch, Opposite, AtLeastAsGood
        <5> QED BY <5>1, <5>3 DEF CrossedIn
      <4> QED BY <2>2, <4>3, <4>4 DEF Sides
    <3> QED BY <3>1, <2>2, <2>3, <2>4, <2>7 DEF Clean
  <2>10. BookOK(levels', orders') /\ (~CrossedIn(levels') => Clean(levels', orders'))
    BY <2>0, <2>8, <2>9
  <2>11. trades' \in Seq(Trade)
    BY <1>2, EmptySeq
  <2> QED BY <1>2, <2>10, <2>11 DEF IInv
<1> QED BY <1>1, <1>2 DEF Insert

(* The smaller remaining quantity never makes Order::Fill throw.           *)
LEMMA FillNeverOverfills ==
  ASSUME NEW bid \in DOMAIN orders, NEW ask \in DOMAIN orders, BookOK(levels, orders)
  PROVE  /\ FillQuantity(bid, ask) \in Nat
         /\ FillQuantity(bid, ask) <= orders[bid].remaining
         /\ FillQuantity(bid, ask) <= orders[ask].remaining
         /\ ~Overfills(bid, ask, FillQuantity(bid, ask))
<1>1. orders[bid].remaining \in Nat /\ orders[ask].remaining \in Nat
  BY DEF BookOK, Order
<1> QED BY <1>1 DEF FillQuantity, Overfills

(* An iteration of the inner loop preserves IInv and does not crash.       *)
LEMMA FillHolds ==
  ASSUME IInv, Fill
  PROVE  IInv' /\ pc' = "matching"
<1>1. PICK b \in DOMAIN levels["Buy"], a \in DOMAIN levels["Sell"] :
        BestLevels(b, a) /\ FillFront(b, a)
  BY DEF Fill
<1> DEFINE bid      == Head(levels["Buy"][b])
           ask      == Head(levels["Sell"][a])
           quantity == FillQuantity(bid, ask)
           done     == Completed(bid, ask, quantity)
           buys     == [levels["Buy"] EXCEPT ![b] = Popped(@, done)]
           sells    == [levels["Sell"] EXCEPT ![a] = Popped(@, done)]
           new      == Filled(bid, ask, quantity)
<1>2. BookOK(levels, orders) /\ pc = "matching"
  BY DEF IInv, Fill
<1>3. SideOK(levels["Buy"], "Buy", orders) /\ SideOK(levels["Sell"], "Sell", orders)
  BY <1>2 DEF BookOK, Sides
<1>4. levels["Buy"][b] # <<>> /\ levels["Sell"][a] # <<>>
  BY <1>1 DEF FillFront
<1>5. /\ bid \in DOMAIN orders /\ orders[bid].side = "Buy" /\ orders[bid].price = b
      /\ ask \in DOMAIN orders /\ orders[ask].side = "Sell" /\ orders[ask].price = a
  <2>1. levels["Buy"][b] \in Seq(OrderIds) /\ levels["Sell"][a] \in Seq(OrderIds)
    BY <1>3 DEF SideOK, IsMap
  <2>2. 1 \in DOMAIN levels["Buy"][b] /\ bid = levels["Buy"][b][1]
    BY <1>4, <2>1, LenProperties, EmptySeq
  <2>3. 1 \in DOMAIN levels["Sell"][a] /\ ask = levels["Sell"][a][1]
    BY <1>4, <2>1, LenProperties, EmptySeq
  <2> QED BY <1>3, <2>2, <2>3 DEF SideOK
<1>6. /\ quantity \in Nat
      /\ quantity <= orders[bid].remaining
      /\ quantity <= orders[ask].remaining
      /\ ~Overfills(bid, ask, quantity)
  BY <1>2, <1>5, FillNeverOverfills
<1>7. /\ levels' = [levels EXCEPT !["Buy"][b] = Popped(@, done), !["Sell"][a] = Popped(@, done)]
      /\ orders' = new
      /\ trades' = Append(trades, TradeOf(bid, ask, quantity))
      /\ pc' = "matching"
  BY <1>1, <1>2, <1>6 DEF FillFront
<1>8. /\ levels' = [s \in Sides |-> levels'[s]]
      /\ levels'["Buy"] = buys
      /\ levels'["Sell"] = sells
  <2> HIDE DEF bid, ask, quantity, done
  <2> QED BY <1>2, <1>7 DEF BookOK, Sides
<1>9. /\ DOMAIN new = DOMAIN orders \ done
      /\ done \subseteq {bid, ask}
      /\ \A id \in DOMAIN new : new[id].side = orders[id].side /\ new[id].price = orders[id].price
      /\ \A id \in DOMAIN new : new[id] \in Order /\ new[id].type = orders[id].type
      /\ new = [id \in DOMAIN new |-> new[id]]
  <2> HIDE DEF bid, ask, quantity
  <2>1. /\ DOMAIN new = DOMAIN orders \ done
        /\ done \subseteq {bid, ask}
        /\ new = [id \in DOMAIN new |-> new[id]]
    BY DEF Filled, Completed
  <2>2. ASSUME NEW id \in DOMAIN new
        PROVE  /\ new[id].side = orders[id].side /\ new[id].price = orders[id].price
               /\ new[id] \in Order /\ new[id].type = orders[id].type
    <3>1. id \in DOMAIN orders /\ orders[id] \in Order
      BY <1>2, <2>1 DEF BookOK
    <3>2. CASE id \in {bid, ask}
      <4>1. new[id] = [orders[id] EXCEPT !.remaining = @ - quantity]
        BY <2>1, <3>2 DEF Filled
      <4>2. orders[id].remaining - quantity \in Nat
        BY <1>6, <3>1, <3>2 DEF Order
      <4> HIDE DEF new
      <4> QED BY <3>1, <4>1, <4>2 DEF Order
    <3>3. CASE id \notin {bid, ask}
      <4>1. new[id] = orders[id]
        BY <2>1, <3>3 DEF Filled
      <4> QED BY <3>1, <4>1
    <3> QED BY <3>2, <3>3
  <2> QED BY <2>1, <2>2
<1>10. SideOK(buys, "Buy", new)
  <2>1. \A x \in done : x \in DOMAIN orders /\ orders[x].side = "Buy" => x = Head(levels["Buy"][b])
    BY <1>5, <1>9
  <2> HIDE DEF bid, ask, done, new
  <2> QED BY <1>3, <1>4, <1>9, <2>1, SidePopped, ZenonT(40)
<1>11. SideOK(sells, "Sell", new)
  <2>1. \A x \in done : x \in DOMAIN orders /\ orders[x].side = "Sell" => x = Head(levels["Sell"][a])
    BY <1>5, <1>9
  <2> HIDE DEF bid, ask, done, new
  <2> QED BY <1>3, <1>4, <1>9, <2>1, SidePopped, ZenonT(40)
<1>12. DOMAIN buys = DOMAIN levels["Buy"] /\ DOMAIN sells = DOMAIN levels["Sell"]
  <2> HIDE DEF done
  <2> QED OBVIOUS
<1>13. trades' \in Seq(Trade)
  <2>1. TradeOf(bid, ask, quantity) \in Trade
    <3>1. /\ bid \in OrderIds /\ ask \in OrderIds
          /\ orders[bid].price \in Prices /\ orders[ask].price \in Prices
      BY <1>2, <1>5 DEF BookOK, Order
    <3> HIDE DEF bid, ask, quantity
    <3> QED BY <1>6, <3>1 DEF TradeOf, Trade, TradeInfo
  <2>2. trades \in Seq(Trade)
    BY DEF IInv
  <2> HIDE DEF bid, ask, quantity
  <2> QED BY <1>7, <2>1, <2>2, AppendProperties
<1>14. CrossedIn(levels')
  <2>1. b >= a
    BY <1>1 DEF BestLevels
  <2>2. b \in DOMAIN levels'["Buy"] /\ a \in DOMAIN levels'["Sell"]
    BY <1>8, <1>12
  <2> QED BY <2>1, <2>2 DEF CrossedIn, CanMatch, Opposite, AtLeastAsGood
<1>15. BookOK(levels', orders')
  <2> HIDE DEF buys, sells, new
  <2>1. \A s \in Sides : SideOK(levels'[s], s, orders')
    BY <1>7, <1>8, <1>10, <1>11 DEF Sides
  <2>2. DOMAIN orders' \subseteq OrderIds /\ orders' \in [DOMAIN orders' -> Order]
    BY <1>2, <1>7, <1>9 DEF BookOK
  <2> QED BY <1>8, <2>1, <2>2 DEF BookOK
<1> QED BY <1>7, <1>13, <1>14, <1>15 DEF IInv

(* On a clean book the fill-and-kill cancellation finds nothing.           *)
LEMMA NothingResidual ==
  ASSUME Clean(levels, orders)
  PROVE  Residual = {}
  BY DEF Clean, Residual

(* The return of MatchOrders preserves IInv and does not crash.            *)
LEMMA ReturnHolds ==
  ASSUME IInv, Return
  PROVE  IInv' /\ pc' = "idle"
<1>1. Clean(levels, orders) /\ ~CrossedIn(levels)
  BY DEF IInv, Return, Crossed, CrossedIn
<1>2. Residual = {}
  BY <1>1, NothingResidual
<1>3. levels' = levels
  <2>1. \A s \in Sides : Killed(s) = levels[s]
    BY <1>2 DEF Killed
  <2> QED BY <2>1 DEF Return, IInv, BookOK
<1>4. orders' = orders
  BY <1>2 DEF Return, Erased, Restrict, IInv, BookOK
<1>5. pc' = "idle" /\ trades' \in Seq(Trade)
  BY <1>2, EmptySeq DEF Return
<1> QED BY <1>1, <1>3, <1>4, <1>5 DEF IInv

-----------------------------------------------------------------------------

(* A step that changes nothing preserves IInv.                             *)
LEMMA StutterHolds ==
  ASSUME IInv, UNCHANGED vars
  PROVE  IInv' /\ pc' = pc
<1>1. levels' = levels /\ orders' = orders /\ trades' = trades /\ pc' = pc
  BY DEF vars
<1> QED BY <1>1 DEF IInv

(* A crash preserves IInv.                                                 *)
LEMMA FaultHolds ==
  ASSUME IInv, NEW id, StaleFault(id)
  PROVE  IInv'
<1>1. levels' = levels /\ orders' = orders /\ trades' = trades /\ pc' = "crashed"
  BY DEF StaleFault
<1> QED BY <1>1 DEF IInv

(* AddOrder preserves IInv.                                                *)
LEMMA AddHolds ==
  ASSUME IInv, SomeAdd
  PROVE  IInv' /\ pc' # "crashed"
<1>1. PICK id \in OrderIds, type \in OrderTypes, side \in Sides,
           price \in Prices, quantity \in Quantities :
        AddOrder(id, NewOrder(type, side, price, quantity))
  BY DEF SomeAdd
<1> DEFINE order == NewOrder(type, side, price, quantity)
<1>2. order \in Order
  BY QuantitiesAssumption DEF NewOrder, Order, StoredTypes
<1>3. pc = "idle" /\ Insert(levels, orders, id, order)
  BY <1>1 DEF AddOrder
<1>4. /\ BookOK(levels, orders) /\ ~CrossedIn(levels) /\ Clean(levels, orders)
      /\ trades \in Seq(Trade)
  BY <1>3 DEF IInv
<1> HIDE DEF order
<1>5. IInv'
  BY <1>2, <1>3, <1>4, InsertBook
<1> QED BY <1>3, <1>5 DEF Insert

(* CancelOrder preserves IInv, and crashes on a faulting read only.        *)
LEMMA CancelHolds ==
  ASSUME IInv, SomeCancel
  PROVE  IInv' /\ (~ReadsMayFault /\ pc # "crashed" => pc' # "crashed")
<1>1. PICK id \in OrderIds : CancelOrder(id)
  BY DEF SomeCancel
<1>2. CASE NoSuchOrder(id)
  BY <1>2, StutterHolds DEF NoSuchOrder
<1>3. CASE StaleFault(id)
  BY <1>3, FaultHolds DEF StaleFault
<1>4. CASE CancelLive(id)
  <2>1. /\ id \in DOMAIN orders /\ pc = "idle" /\ pc' = "idle" /\ trades' = trades
        /\ levels' = Without(id) /\ orders' = Erased({id})
    BY <1>4 DEF CancelLive
  <2>2. BookOK(levels, orders) /\ ~CrossedIn(levels) /\ Clean(levels, orders)
    BY <2>1 DEF IInv
  <2>3. BookOK(levels', orders') /\ ~CrossedIn(levels') /\ Clean(levels', orders')
    BY <2>1, <2>2, WithoutBook
  <2> QED BY <2>1, <2>3 DEF IInv
<1> QED BY <1>1, <1>2, <1>3, <1>4 DEF CancelOrder

(* MatchOrder (modify) preserves IInv, and crashes on a faulting read      *)
(* only.                                                                   *)
LEMMA ModifyHolds ==
  ASSUME IInv, SomeModify
  PROVE  IInv' /\ (~ReadsMayFault /\ pc # "crashed" => pc' # "crashed")
<1>1. PICK id \in OrderIds, side \in Sides, price \in Prices, quantity \in Quantities :
        MatchOrder(id, side, price, quantity)
  BY DEF SomeModify
<1>2. CASE NoSuchOrder(id)
  BY <1>2, StutterHolds DEF NoSuchOrder
<1>3. CASE StaleFault(id)
  BY <1>3, FaultHolds DEF StaleFault
<1>4. CASE ModifyLive(id, side, price, quantity)
  <2>1. PICK type \in StaleTypes(id) :
          Insert(Without(id), Erased({id}), id, NewOrder(type, side, price, quantity))
    BY <1>4 DEF ModifyLive
  <2>2. pc = "idle" /\ id \in DOMAIN orders
    BY <1>4 DEF ModifyLive
  <2>3. /\ BookOK(levels, orders) /\ ~CrossedIn(levels) /\ Clean(levels, orders)
        /\ trades \in Seq(Trade)
    BY <2>2 DEF IInv
  <2>4. /\ BookOK(Without(id), Erased({id}))
        /\ ~CrossedIn(Without(id)) /\ Clean(Without(id), Erased({id}))
    BY <2>2, <2>3, WithoutBook
  <2> DEFINE order == NewOrder(type, side, price, quantity)
  <2>5. order \in Order
    <3>1. orders[id].type \in StoredTypes
      BY <2>2, <2>3 DEF BookOK, Order
    <3>2. type \in StoredTypes
      BY <2>1, <3>1 DEF StaleTypes, StoredTypes
    <3> QED BY <3>2, QuantitiesAssumption DEF NewOrder, Order
  <2>6. Insert(Without(id), Erased({id}), id, order)
    BY <2>1
  <2> HIDE DEF order
  <2>7. IInv'
    BY <2>2, <2>3, <2>4, <2>5, <2>6, InsertBook
  <2> QED BY <2>2, <2>6, <2>7 DEF Insert
<1> QED BY <1>1, <1>2, <1>3, <1>4 DEF MatchOrder

(* Every step preserves IInv, and crashes on a faulting read only.         *)
LEMMA StepHolds ==
  ASSUME IInv, [Next]_vars
  PROVE  IInv' /\ (~ReadsMayFault /\ pc # "crashed" => pc' # "crashed")
<1>1. CASE SomeAdd
  BY <1>1, AddHolds
<1>2. CASE SomeCancel
  BY <1>2, CancelHolds
<1>3. CASE SomeModify
  BY <1>3, ModifyHolds
<1>4. CASE Fill
  BY <1>4, FillHolds
<1>5. CASE Spin
  BY <1>5, StutterHolds DEF Spin
<1>6. CASE Return
  BY <1>6, ReturnHolds
<1>7. CASE Dead
  BY <1>7, StutterHolds DEF Dead
<1>8. CASE UNCHANGED vars
  BY <1>8, StutterHolds
<1> QED BY <1>1, <1>2, <1>3, <1>4, <1>5, <1>6, <1>7, <1>8 DEF Next, MatchOrders

-----------------------------------------------------------------------------

(* IInv holds in every reachable state, for any ids, prices, quantities    *)
(* and outcomes of the dangling reads.                                     *)
THEOREM Invariance == Spec => []IInv
<1>1. Init => IInv
  BY InitHolds
<1>2. IInv /\ [Next]_vars => IInv'
  BY StepHolds
<1> QED BY <1>1, <1>2, PTL DEF Spec

(* The maps, the index, the trades and pc keep their types.                *)
THEOREM TypeCorrect == Spec => []TypeOK
<1>1. IInv => TypeOK
  BY InvariantsFollow
<1> QED BY <1>1, Invariance, PTL

(* orders_, bids_ and asks_ never disagree, in the middle of AddOrder,     *)
(* CancelOrder, MatchOrder and MatchOrders included.                       *)
THEOREM IndexAndListsAgree == Spec => []IndexConsistent
<1>1. IInv => IndexConsistent
  BY InvariantsFollow
<1> QED BY <1>1, Invariance, PTL

(* No call of the book returns with the best levels crossed.               *)
THEOREM NeverCrossedAtRest == Spec => []UncrossedAtRest
<1>1. IInv => UncrossedAtRest
  BY InvariantsFollow
<1> QED BY <1>1, Invariance, PTL

(* No call of the book returns with a fill-and-kill order resting or an    *)
(* empty level: the cancellation after the loop of MatchOrders has nothing *)
(* to do.                                                                  *)
THEOREM NothingLeftAtRest == Spec => []NoLeftoversAtRest
<1>1. IInv => NoLeftoversAtRest
  BY InvariantsFollow
<1> QED BY <1>1, Invariance, PTL

(* When no dangling read faults, no sequence of calls ends the process: in *)
(* particular Order::Fill never throws.                                    *)
THEOREM NoCrashWithoutFault ==
  ASSUME ~ReadsMayFault
  PROVE  Spec => []NeverCrashes
<1>1. Init => NeverCrashes
  BY DEF Init, NeverCrashes
<1>2. IInv /\ NeverCrashes /\ [Next]_vars => NeverCrashes'
  BY StepHolds DEF NeverCrashes
<1> QED BY <1>1, <1>2, Invariance, PTL DEF Spec

-----------------------------------------------------------------------------

(* A call of MatchOrders that has made a trade is on a crossed book.       *)
TradedOnCrossed == pc = "matching" /\ trades # <<>> => Crossed

(* No fill takes a level out of its map, so the two levels that traded     *)
(* still cross.                                                            *)
LEMMA FillStaysCrossed == IInv /\ Fill => TradedOnCrossed'
<1> SUFFICES ASSUME IInv, Fill PROVE TradedOnCrossed'
  OBVIOUS
<1>1. PICK b \in DOMAIN levels["Buy"], a \in DOMAIN levels["Sell"] :
        BestLevels(b, a) /\ FillFront(b, a)
  BY DEF Fill
<1>2. levels = [s \in Sides |-> levels[s]]
  BY DEF IInv, BookOK, SideOK
<1>3. b \in DOMAIN levels'["Buy"] /\ a \in DOMAIN levels'["Sell"]
  BY <1>1, <1>2 DEF FillFront, Sides
<1>4. b >= a
  BY <1>1 DEF BestLevels
<1> QED BY <1>3, <1>4 DEF TradedOnCrossed, Crossed, CanMatch, AtLeastAsGood, Opposite

(* A call that does not return or crash at once starts MatchOrders with no *)
(* trade made.                                                             *)
LEMMA InsertUntraded ==
  ASSUME NEW lv, NEW os, NEW id, NEW order, pc = "idle", Insert(lv, os, id, order)
  PROVE  pc' = "matching" => trades' = <<>>
<1>1. CASE Accepts(lv, os, id, order)
  BY <1>1 DEF Insert
<1>2. CASE ~Accepts(lv, os, id, order)
  <2>1. pc' = pc
    BY <1>2 DEF Insert
  <2> QED BY <2>1
<1> QED BY <1>1, <1>2

(* A call that starts to match has not traded yet.                         *)
LEMMA CallsStartUntraded ==
  SomeAdd \/ SomeCancel \/ SomeModify => (pc' = "matching" => trades' = <<>>)
<1>1. ASSUME SomeAdd PROVE pc' = "matching" => trades' = <<>>
  <2>1. PICK id \in OrderIds, type \in OrderTypes, side \in Sides,
             price \in Prices, quantity \in Quantities :
          AddOrder(id, NewOrder(type, side, price, quantity))
    BY <1>1 DEF SomeAdd
  <2> QED BY <2>1, InsertUntraded DEF AddOrder
<1>2. ASSUME NEW id, NoSuchOrder(id) \/ StaleFault(id) \/ CancelLive(id)
      PROVE  pc' # "matching"
  BY <1>2 DEF NoSuchOrder, StaleFault, CancelLive, vars
<1>3. ASSUME SomeCancel PROVE pc' = "matching" => trades' = <<>>
  BY <1>2, <1>3 DEF SomeCancel, CancelOrder
<1>4. ASSUME SomeModify PROVE pc' = "matching" => trades' = <<>>
  <2>1. PICK id \in OrderIds, side \in Sides, price \in Prices, quantity \in Quantities :
          MatchOrder(id, side, price, quantity)
    BY <1>4 DEF SomeModify
  <2>2. CASE ModifyLive(id, side, price, quantity)
    <3>1. PICK type \in StaleTypes(id) :
            Insert(Without(id), Erased({id}), id, NewOrder(type, side, price, quantity))
      BY <2>2 DEF ModifyLive
    <3> QED BY <2>2, <3>1, InsertUntraded DEF ModifyLive
  <2> QED BY <2>1, <2>2, <1>2 DEF MatchOrder
<1> QED BY <1>1, <1>3, <1>4

(* Every step keeps that so.                                               *)
LEMMA TradedHolds == IInv /\ TradedOnCrossed /\ [Next]_vars => TradedOnCrossed'
<1> SUFFICES ASSUME IInv, TradedOnCrossed, [Next]_vars PROVE TradedOnCrossed'
  OBVIOUS
<1>1. CASE SomeAdd \/ SomeCancel \/ SomeModify
  BY <1>1, CallsStartUntraded DEF TradedOnCrossed
<1>2. CASE Fill
  BY <1>2, FillStaysCrossed
<1>3. CASE UNCHANGED vars
  BY <1>3 DEF TradedOnCrossed, Crossed, CanMatch, vars
<1>4. CASE Return
  BY <1>4 DEF Return, TradedOnCrossed
<1> QED
  BY <1>1, <1>2, <1>3, <1>4 DEF Next, MatchOrders, Spin, Dead

(* MatchOrders returns by Return only, and then without a trade.           *)
LEMMA UntradedReturn ==
  ASSUME TradedOnCrossed, MatchOrders, pc' = "idle"
  PROVE  Return /\ trades = <<>>
<1>1. Return
  BY DEF MatchOrders, Fill, FillFront, Spin, vars
<1> QED BY <1>1 DEF Return, TradedOnCrossed

(* A call that has traded never returns: MatchOrders gives back no trades, *)
(* and the server's loops over them (server.cpp:387, 442) send nothing.    *)
THEOREM TradesAreNeverReturned ==
  Spec => [][pc = "matching" /\ pc' = "idle" => trades = <<>>]_vars
<1>1. Init => TradedOnCrossed
  BY DEF Init, TradedOnCrossed
<1>2. TradedOnCrossed /\ [Next]_vars =>
        [pc = "matching" /\ pc' = "idle" => trades = <<>>]_vars
  <2> SUFFICES ASSUME TradedOnCrossed, Next, pc = "matching", pc' = "idle"
               PROVE  trades = <<>>
    BY DEF vars
  <2>1. MatchOrders
    BY DEF Next, SomeAdd, AddOrder, SomeCancel, CancelOrder, SomeModify, MatchOrder,
         NoSuchOrder, StaleFault, CancelLive, ModifyLive, Dead, vars
  <2> QED BY <2>1, UntradedReturn
<1> QED BY <1>1, <1>2, TradedHolds, Invariance, PTL DEF Spec
-----------------------------------------------------------------------------

(* The front orders of two best levels are live and on their sides.        *)
LEMMA FrontsLive ==
  ASSUME IInv, NEW b \in DOMAIN levels["Buy"], NEW a \in DOMAIN levels["Sell"], FillFront(b, a)
  PROVE  /\ Head(levels["Buy"][b]) \in DOMAIN orders
         /\ orders[Head(levels["Buy"][b])].side = "Buy" /\ orders[Head(levels["Buy"][b])].price = b
         /\ Head(levels["Sell"][a]) \in DOMAIN orders
         /\ orders[Head(levels["Sell"][a])].side = "Sell" /\ orders[Head(levels["Sell"][a])].price = a
<1>1. SideOK(levels["Buy"], "Buy", orders) /\ SideOK(levels["Sell"], "Sell", orders)
  BY DEF IInv, BookOK, Sides
<1>2. levels["Buy"][b] # <<>> /\ levels["Sell"][a] # <<>>
  BY DEF FillFront
<1>3. levels["Buy"][b] \in Seq(OrderIds) /\ levels["Sell"][a] \in Seq(OrderIds)
  BY <1>1 DEF SideOK, IsMap
<1>4. 1 \in DOMAIN levels["Buy"][b] /\ Head(levels["Buy"][b]) = levels["Buy"][b][1]
  BY <1>2, <1>3, LenProperties, EmptySeq
<1>5. 1 \in DOMAIN levels["Sell"][a] /\ Head(levels["Sell"][a]) = levels["Sell"][a][1]
  BY <1>2, <1>3, LenProperties, EmptySeq
<1> QED
  BY <1>1, <1>4, <1>5 DEF SideOK

(* Their trade is one.                                                     *)
LEMMA FrontsTrade ==
  ASSUME BookOK(levels, orders), NEW bid \in DOMAIN orders, NEW ask \in DOMAIN orders
  PROVE  /\ FillQuantity(bid, ask) \in Nat
         /\ TradeOf(bid, ask, FillQuantity(bid, ask)) \in Trade
<1>1. FillQuantity(bid, ask) \in Nat
  BY FillNeverOverfills
<1>2. /\ bid \in OrderIds /\ ask \in OrderIds
      /\ orders[bid].price \in Prices /\ orders[ask].price \in Prices
  BY DEF BookOK, Order
<1> QED
  BY <1>1, <1>2 DEF TradeOf, Trade, TradeInfo

-----------------------------------------------------------------------------

(* Both maps and the index are finite.                                     *)
FiniteBook ==
  /\ \A s \in Sides : IsFiniteSet(DOMAIN levels[s])
  /\ IsFiniteSet(DOMAIN orders)

(* Of finitely many prices one is the best.                                *)
LEMMA BestOfFinite ==
  ASSUME NEW side \in Sides, NEW S, S \subseteq Int, IsFiniteSet(S), S # {}
  PROVE  \E p \in S : \A q \in S : AtLeastAsGood(side, p, q)
<1> DEFINE Good == {T \in SUBSET S :
                      T # {} => \E p \in T : \A q \in T : AtLeastAsGood(side, p, q)}
<1>1. ASSUME NEW T \in SUBSET S, \A U \in SUBSET T : U # T => U \in Good
      PROVE  T \in Good
  <2> SUFFICES ASSUME NEW x \in T
               PROVE  \E p \in T : \A q \in T : AtLeastAsGood(side, p, q)
    OBVIOUS
  <2>0. T \subseteq Int
    OBVIOUS
  <2>1. CASE T = {x}
    BY <2>0, <2>1 DEF AtLeastAsGood
  <2>2. CASE T # {x}
    <3>1. T \ {x} \in Good /\ T \ {x} # {}
      BY <1>1, <2>2
    <3>2. PICK p \in T \ {x} : \A q \in T \ {x} : AtLeastAsGood(side, p, q)
      BY <3>1
    <3> HIDE DEF Good
    <3>3. AtLeastAsGood(side, p, x) \/ AtLeastAsGood(side, x, p)
      BY <2>0 DEF AtLeastAsGood
    <3>4. CASE AtLeastAsGood(side, p, x)
      BY <3>2, <3>4
    <3>5. CASE AtLeastAsGood(side, x, p)
      <4>1. \A q \in T : AtLeastAsGood(side, x, q)
        BY <2>0, <3>2, <3>5 DEF AtLeastAsGood
      <4> QED
        BY <4>1
    <3> QED
      BY <3>3, <3>4, <3>5
  <2> QED
    BY <2>1, <2>2
<1>2. S \in Good
  <2> HIDE DEF Good
  <2> QED
    BY <1>1, SubsetInduction
<1> QED
  BY <1>2

(* AddOrder's body on a finite book leaves a finite one.                   *)
LEMMA InsertFinite ==
  ASSUME NEW lv, NEW os, NEW id, NEW order \in Order, Insert(lv, os, id, order),
         BookOK(lv, os), \A s \in Sides : IsFiniteSet(DOMAIN lv[s]), IsFiniteSet(DOMAIN os)
  PROVE  FiniteBook'
<1>1. CASE levels' = lv /\ orders' = os
  BY <1>1 DEF FiniteBook
<1>2. CASE levels' = [lv EXCEPT ![order.side] = Queued(@, order.price, id)] /\ orders' = With(os, id, order)
  <2>1. DOMAIN orders' = DOMAIN os \cup {id}
    BY <1>2 DEF With
  <2>2. ASSUME NEW s \in Sides
        PROVE  IsFiniteSet(DOMAIN levels'[s])
    <3>1. DOMAIN Queued(lv[s], order.price, id) = DOMAIN lv[s] \cup {order.price}
      BY DEF Queued, With
    <3>2. DOMAIN levels'[s] = DOMAIN lv[s] \/ DOMAIN levels'[s] = DOMAIN lv[s] \cup {order.price}
      BY <1>2, <3>1 DEF BookOK
    <3> QED
      BY <3>2, FS_AddElement
  <2> QED
    BY <2>1, <2>2, FS_AddElement DEF FiniteBook
<1> QED
  BY <1>1, <1>2 DEF Insert

(* So does taking an order out.                                            *)
LEMMA WithoutFinite ==
  ASSUME BookOK(levels, orders), FiniteBook, NEW id \in DOMAIN orders
  PROVE  /\ \A s \in Sides : IsFiniteSet(DOMAIN Without(id)[s])
         /\ IsFiniteSet(DOMAIN Erased({id}))
<1> DEFINE side == orders[id].side
           map  == Unqueued(levels[side], orders[id].price, id)
<1>1. side \in Sides /\ SideOK(levels[side], side, orders)
  BY DEF BookOK, Order
<1>2. orders[id].price \in DOMAIN levels[side]
  BY <1>1 DEF SideOK
<1>3. DOMAIN map \subseteq DOMAIN levels[side]
  BY <1>2, UnqueuedMap
<1>4. Without(id) = [levels EXCEPT ![side] = map]
  BY DEF Without
<1> HIDE DEF map, side
<1>5. \A s \in Sides : DOMAIN Without(id)[s] \subseteq DOMAIN levels[s]
  BY <1>1, <1>3, <1>4 DEF BookOK
<1>6. DOMAIN Erased({id}) \subseteq DOMAIN orders
  BY DEF Erased, Restrict
<1> QED
  BY <1>5, <1>6, FS_Subset DEF FiniteBook

(* Every step keeps the book finite.                                       *)
LEMMA FiniteHolds == IInv /\ FiniteBook /\ [Next]_vars => FiniteBook'
<1> SUFFICES ASSUME IInv, FiniteBook, [Next]_vars PROVE FiniteBook'
  OBVIOUS
<1>0. BookOK(levels, orders)
  BY DEF IInv
<1>1. CASE SomeAdd
  <2>1. PICK id \in OrderIds, type \in OrderTypes, side \in Sides,
             price \in Prices, quantity \in Quantities :
          AddOrder(id, NewOrder(type, side, price, quantity))
    BY <1>1 DEF SomeAdd
  <2> DEFINE order == NewOrder(type, side, price, quantity)
  <2>2. order \in Order
    BY QuantitiesAssumption DEF NewOrder, Order, StoredTypes
  <2>3. Insert(levels, orders, id, order)
    BY <2>1 DEF AddOrder
  <2> HIDE DEF order
  <2> QED
    BY <1>0, <2>2, <2>3, InsertFinite DEF FiniteBook
<1>2. CASE UNCHANGED <<levels, orders>>
  BY <1>2 DEF FiniteBook
<1>3. ASSUME NEW id, CancelLive(id)
      PROVE  FiniteBook'
  BY <1>0, <1>3, WithoutFinite DEF CancelLive, FiniteBook
<1>4. CASE SomeCancel
  BY <1>2, <1>3, <1>4 DEF SomeCancel, CancelOrder, NoSuchOrder, StaleFault, vars
<1>5. CASE SomeModify
  <2>1. PICK id \in OrderIds, side \in Sides, price \in Prices, quantity \in Quantities :
          MatchOrder(id, side, price, quantity)
    BY <1>5 DEF SomeModify
  <2>2. CASE ModifyLive(id, side, price, quantity)
    <3>1. PICK type \in StaleTypes(id) :
            Insert(Without(id), Erased({id}), id, NewOrder(type, side, price, quantity))
      BY <2>2 DEF ModifyLive
    <3>2. pc = "idle" /\ id \in DOMAIN orders
      BY <2>2 DEF ModifyLive
    <3> DEFINE order == NewOrder(type, side, price, quantity)
               lv    == Without(id)
               os    == Erased({id})
    <3>3. order \in Order
      <4>1. orders[id].type \in StoredTypes
        BY <1>0, <3>2 DEF BookOK, Order
      <4>2. type \in StoredTypes
        BY <3>1, <4>1 DEF StaleTypes, StoredTypes
      <4> QED
        BY <4>2, QuantitiesAssumption DEF NewOrder, Order
    <3>4. BookOK(lv, os) /\ \A s \in Sides : IsFiniteSet(DOMAIN lv[s])
      BY <1>0, <3>2, WithoutBook, WithoutFinite
    <3>5. IsFiniteSet(DOMAIN os) /\ Insert(lv, os, id, order)
      BY <1>0, <3>1, <3>2, WithoutFinite
    <3> HIDE DEF order, lv, os
    <3> QED
      BY <3>3, <3>4, <3>5, InsertFinite
  <2> QED
    BY <1>2, <2>1, <2>2 DEF MatchOrder, NoSuchOrder, StaleFault, vars
<1>6. CASE Fill
  <2>1. PICK b \in DOMAIN levels["Buy"], a \in DOMAIN levels["Sell"] : FillFront(b, a)
    BY <1>6 DEF Fill
  <2>2. \A s \in Sides : DOMAIN levels'[s] = DOMAIN levels[s]
    BY <1>0, <2>1 DEF FillFront, BookOK, Sides
  <2>3. DOMAIN orders' \subseteq DOMAIN orders
    BY <2>1 DEF FillFront, Filled
  <2> QED
    BY <2>2, <2>3, FS_Subset DEF FiniteBook
<1>7. CASE Return
  <2>1. Residual = {}
    BY <1>7, NothingResidual DEF IInv, Return, Crossed, CrossedIn
  <2>2. \A s \in Sides : levels'[s] = levels[s]
    BY <1>7, <2>1 DEF Return, Killed
  <2>3. DOMAIN orders' \subseteq DOMAIN orders
    BY <1>7 DEF Return, Erased, Restrict
  <2> QED
    BY <2>2, <2>3, FS_Subset DEF FiniteBook
<1> QED
  BY <1>1, <1>2, <1>4, <1>5, <1>6, <1>7 DEF Next, MatchOrders, Spin, Dead, vars

(* The book is finite at every step.                                       *)
THEOREM BookStaysFinite == Spec => []FiniteBook
<1>1. Init => FiniteBook
  <2>1. DOMAIN EmptyMap = {}
    BY DEF EmptyMap
  <2> QED
    BY <2>1, FS_EmptySet DEF Init, FiniteBook, Sides
<1> QED
  BY <1>1, FiniteHolds, Invariance, PTL DEF Spec
-----------------------------------------------------------------------------

(* Where the loop of MatchOrders stands, it has something to do: it can    *)
(* fill, it can return, or it is exhausted.                                *)
MatchingNeverBlocked == pc = "matching" => LoopGoesOn

(* Maps that cross have two best levels, and these cross.                  *)
LEMMA BestLevelsExist ==
  ASSUME IInv, FiniteBook, Crossed
  PROVE  \E b \in DOMAIN levels["Buy"], a \in DOMAIN levels["Sell"] : BestLevels(b, a)
<1>1. PICK p \in DOMAIN levels["Buy"] : CanMatch(levels, "Buy", p)
  BY DEF Crossed
<1>2. PICK q \in DOMAIN levels["Sell"] : p >= q
  BY <1>1 DEF CanMatch, Opposite, AtLeastAsGood
<1>3. /\ DOMAIN levels["Buy"] \subseteq Int /\ DOMAIN levels["Sell"] \subseteq Int
      /\ IsFiniteSet(DOMAIN levels["Buy"]) /\ IsFiniteSet(DOMAIN levels["Sell"])
  BY PricesAssumption DEF IInv, BookOK, SideOK, IsMap, FiniteBook, Sides
<1>4. PICK b \in DOMAIN levels["Buy"] : \A r \in DOMAIN levels["Buy"] : AtLeastAsGood("Buy", b, r)
  BY <1>1, <1>3, BestOfFinite DEF Sides
<1>5. PICK a \in DOMAIN levels["Sell"] : \A r \in DOMAIN levels["Sell"] : AtLeastAsGood("Sell", a, r)
  BY <1>2, <1>3, BestOfFinite DEF Sides
<1>6. b >= p /\ a <= q
  BY <1>4, <1>5 DEF AtLeastAsGood
<1>7. b >= a
  BY <1>2, <1>3, <1>6
<1> QED
  BY <1>4, <1>5, <1>7 DEF BestLevels, IsBest

(* The loop of MatchOrders never comes to a state it has no statement for: *)
(* as long as its condition holds there are a best bid level and a best    *)
(* ask level, and it trades their fronts or finds one of them empty.       *)
THEOREM MatchingAlwaysCanGoOn == Spec => []MatchingNeverBlocked
<1>1. IInv /\ FiniteBook => MatchingNeverBlocked
  BY BestLevelsExist DEF MatchingNeverBlocked, LoopGoesOn, Exhausted
<1> QED
  BY <1>1, Invariance, BookStaysFinite, PTL

(* Each side has one best price.                                           *)
LEMMA BestUnique ==
  ASSUME IInv, NEW b, NEW a, BestLevels(b, a), NEW d, NEW e, BestLevels(d, e)
  PROVE  b = d /\ a = e
<1>1. /\ DOMAIN levels["Buy"] \subseteq Int /\ DOMAIN levels["Sell"] \subseteq Int
  BY PricesAssumption DEF IInv, BookOK, SideOK, IsMap, Sides
<1>2. b \in DOMAIN levels["Buy"] /\ d \in DOMAIN levels["Buy"] /\ b >= d /\ d >= b
  BY DEF BestLevels, IsBest, AtLeastAsGood
<1>3. a \in DOMAIN levels["Sell"] /\ e \in DOMAIN levels["Sell"] /\ a <= e /\ e <= a
  BY DEF BestLevels, IsBest, AtLeastAsGood
<1> QED
  BY <1>1, <1>2, <1>3

(* Once a best level of a crossed book is used up, no step of the book     *)
(* changes anything: the call never returns, the lock on the book is never *)
(* given back, and no order is ever added, cancelled or filled again.      *)
THEOREM ExhaustedForEver ==
  Spec => [][~(pc = "matching" /\ Exhausted)]_vars
<1>1. IInv /\ [Next]_vars => [~(pc = "matching" /\ Exhausted)]_vars
  <2> SUFFICES ASSUME IInv, Next, pc = "matching", Exhausted
               PROVE  UNCHANGED vars
    OBVIOUS
  <2>1. PICK b \in DOMAIN levels["Buy"], a \in DOMAIN levels["Sell"] :
          BestLevels(b, a) /\ (levels["Buy"][b] = <<>> \/ levels["Sell"][a] = <<>>)
    BY DEF Exhausted
  <2>2. ~Fill
    <3> SUFFICES ASSUME Fill PROVE FALSE
      OBVIOUS
    <3>1. PICK d \in DOMAIN levels["Buy"], e \in DOMAIN levels["Sell"] :
            BestLevels(d, e) /\ FillFront(d, e)
      BY DEF Fill
    <3>2. d = b /\ e = a
      BY <2>1, <3>1, BestUnique
    <3> QED
      BY <2>1, <3>1, <3>2 DEF FillFront
  <2>3. ~Return
    <3>1. Crossed
      BY <2>1 DEF BestLevels, Crossed, CanMatch, Opposite, AtLeastAsGood
    <3> QED
      BY <3>1 DEF Return
  <2> QED
    BY <2>2, <2>3 DEF Next, MatchOrders, Spin, Dead, SomeAdd, AddOrder, SomeCancel, CancelOrder,
         CancelLive, SomeModify, MatchOrder, ModifyLive, NoSuchOrder, StaleFault
<1> QED
  BY <1>1, Invariance, PTL DEF Spec

(* Every fill takes at least one order out of the book, so that the loop   *)
(* fills at most as often as there are orders: why FillsEnd holds.         *)
THEOREM FillsDescend ==
  Spec => [][Fill => Cardinality(DOMAIN orders') < Cardinality(DOMAIN orders)]_vars
<1>1. ASSUME IInv, FiniteBook, Fill
      PROVE  Cardinality(DOMAIN orders') < Cardinality(DOMAIN orders)
  <2>1. PICK b \in DOMAIN levels["Buy"], a \in DOMAIN levels["Sell"] :
          BestLevels(b, a) /\ FillFront(b, a)
    BY <1>1 DEF Fill
  <2> DEFINE bid      == Head(levels["Buy"][b])
             ask      == Head(levels["Sell"][a])
             quantity == FillQuantity(bid, ask)
             done     == Completed(bid, ask, quantity)
  <2>2. bid \in DOMAIN orders /\ ask \in DOMAIN orders
    BY <1>1, <2>1, FrontsLive
  <2>3. orders' = Filled(bid, ask, quantity)
    BY <1>1, <2>1, FillHolds DEF FillFront, Fill
  <2> HIDE DEF bid, ask
  <2>4. orders[bid].remaining \in Nat /\ orders[ask].remaining \in Nat
    BY <1>1, <2>2 DEF IInv, BookOK, Order
  <2>5. quantity = orders[bid].remaining \/ quantity = orders[ask].remaining
    BY DEF FillQuantity
  <2> HIDE DEF quantity
  <2>6. PICK id \in DOMAIN orders : id \in done
    BY <2>2, <2>4, <2>5 DEF Completed
  <2>7. DOMAIN orders' = DOMAIN orders \ done
    BY <2>3 DEF Filled
  <2> HIDE DEF done
  <2>8. DOMAIN orders' \subseteq DOMAIN orders /\ DOMAIN orders' # DOMAIN orders
    BY <2>6, <2>7
  <2>9. IsFiniteSet(DOMAIN orders)
    BY <1>1 DEF FiniteBook
  <2>10. /\ IsFiniteSet(DOMAIN orders')
         /\ Cardinality(DOMAIN orders') <= Cardinality(DOMAIN orders)
         /\ Cardinality(DOMAIN orders') # Cardinality(DOMAIN orders)
    BY <2>8, <2>9, FS_Subset
  <2>11. Cardinality(DOMAIN orders') \in Int /\ Cardinality(DOMAIN orders) \in Int
    BY <2>9, <2>10, FS_CardinalityType
  <2> QED
    BY <2>10, <2>11
<1>2. IInv /\ FiniteBook /\ [Next]_vars =>
        [Fill => Cardinality(DOMAIN orders') < Cardinality(DOMAIN orders)]_vars
  BY <1>1
<1> QED
  BY <1>2, Invariance, BookStaysFinite, PTL DEF Spec
=============================================================================

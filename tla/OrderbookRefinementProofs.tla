--------------------- MODULE OrderbookRefinementProofs ---------------------
(***************************************************************************)
(* Proof that Orderbook implements LimitOrderBook, for all values of its   *)
(* constants.  What is to be followed through every change of the lists is *)
(* the order of two ids in a list: Precedes, of one map, and its lemmas    *)
(* say what push_back, erase and pop_front do to it.  At the end, what is  *)
(* said with the history variables: the promise to good-till-cancel        *)
(* orders, and that the trades of a call account for its fills.            *)
(***************************************************************************)
EXTENDS OrderbookRefinement, OrderbookHistory, OrderbookProofs

(* x is nearer the front of a list of map than y.                          *)
Precedes(map, x, y) ==
  \E p \in DOMAIN map : \E i, j \in DOMAIN map[p] :
    i < j /\ map[p][i] = x /\ map[p][j] = y

(* The same, in one of the two maps.                                       *)
PrecedesIn(lv, x, y) == \E s \in Sides : Precedes(lv[s], x, y)

(* Ahead is the set of the pairs that Precedes relates.                    *)
AheadIsPrecedence ==
  /\ \A x, y : <<x, y>> \in Ahead <=> PrecedesIn(levels, x, y)
  /\ \A pair \in Ahead : pair = <<pair[1], pair[2]>>

(* It is so in every state: both are defined from the lists.               *)
LEMMA AheadPairs == AheadIsPrecedence
<1>1. ASSUME NEW x, NEW y, <<x, y>> \in Ahead
      PROVE  PrecedesIn(levels, x, y)
  <2>1. PICK s \in Sides : \E p \in DOMAIN levels[s] :
          \E pair \in QueuePositions(levels[s][p]) :
            <<x, y>> = <<levels[s][p][pair[1]], levels[s][p][pair[2]]>>
    BY <1>1 DEF Ahead
  <2>2. PICK p \in DOMAIN levels[s] : \E pair \in QueuePositions(levels[s][p]) :
            <<x, y>> = <<levels[s][p][pair[1]], levels[s][p][pair[2]]>>
    BY <2>1
  <2>3. PICK pair \in QueuePositions(levels[s][p]) :
            <<x, y>> = <<levels[s][p][pair[1]], levels[s][p][pair[2]]>>
    BY <2>2
  <2>4. /\ pair[1] \in DOMAIN levels[s][p] /\ pair[2] \in DOMAIN levels[s][p]
        /\ pair[1] < pair[2]
    BY <2>3 DEF QueuePositions
  <2>5. x = levels[s][p][pair[1]] /\ y = levels[s][p][pair[2]]
    BY <2>3
  <2> QED BY <2>4, <2>5 DEF PrecedesIn, Precedes
<1>2. ASSUME NEW x, NEW y, PrecedesIn(levels, x, y)
      PROVE  <<x, y>> \in Ahead
  <2>0. PICK s \in Sides : \E p \in DOMAIN levels[s] : \E i, j \in DOMAIN levels[s][p] :
          i < j /\ levels[s][p][i] = x /\ levels[s][p][j] = y
    BY <1>2 DEF PrecedesIn, Precedes
  <2>1. PICK p \in DOMAIN levels[s] : \E i, j \in DOMAIN levels[s][p] :
          i < j /\ levels[s][p][i] = x /\ levels[s][p][j] = y
    BY <2>0
  <2>2. PICK i \in DOMAIN levels[s][p], j \in DOMAIN levels[s][p] :
          i < j /\ levels[s][p][i] = x /\ levels[s][p][j] = y
    BY <2>1
  <2> DEFINE pair == <<i, j>>
  <2>3. pair \in QueuePositions(levels[s][p]) /\ pair[1] = i /\ pair[2] = j
    BY <2>2 DEF QueuePositions
  <2>4. <<x, y>> = <<levels[s][p][pair[1]], levels[s][p][pair[2]]>>
    BY <2>2
  <2> HIDE DEF pair
  <2> QED BY <2>3, <2>4 DEF Ahead
<1>3. ASSUME NEW pair \in Ahead
      PROVE  pair = <<pair[1], pair[2]>>
  <2>1. PICK s \in Sides : \E p \in DOMAIN levels[s] :
          \E q \in QueuePositions(levels[s][p]) :
            pair = <<levels[s][p][q[1]], levels[s][p][q[2]]>>
    BY DEF Ahead
  <2> QED BY <2>1
<1> QED BY <1>1, <1>2, <1>3 DEF AheadIsPrecedence

(* Only live orders of one side and one price precede each other.          *)
LEMMA PrecedesLive ==
  ASSUME NEW map, NEW side, NEW os, SideOK(map, side, os),
         NEW x, NEW y, Precedes(map, x, y)
  PROVE  /\ x \in DOMAIN os /\ os[x].side = side
         /\ y \in DOMAIN os /\ os[y].side = side
         /\ os[x].price = os[y].price
  BY DEF Precedes, SideOK

(* push_back: the new order comes after all that wait at its price.        *)
LEMMA PrecedesQueued ==
  ASSUME NEW map, NEW side, NEW os, SideOK(map, side, os),
         NEW id, NEW price, id \in OrderIds, NEW x, NEW y
  PROVE  Precedes(Queued(map, price, id), x, y) <=>
           \/ Precedes(map, x, y)
           \/ /\ y = id
              /\ x \in DOMAIN os /\ os[x].side = side /\ os[x].price = price
<1> DEFINE old   == IF price \in DOMAIN map THEN map[price] ELSE <<>>
           level == Append(old, id)
           m     == Queued(map, price, id)
<1>1. /\ DOMAIN m = DOMAIN map \cup {price}
      /\ m[price] = level
      /\ \A q \in DOMAIN map \ {price} : m[q] = map[q]
  BY QueuedMap DEF Queued, With
<1>2. old \in Seq(OrderIds)
  BY EmptySeq DEF SideOK, IsMap
<1>3. /\ Len(old) \in Nat
      /\ DOMAIN old = 1 .. Len(old)
      /\ DOMAIN level = 1 .. Len(old) + 1
      /\ level[Len(old) + 1] = id
      /\ \A i \in 1 .. Len(old) : level[i] = old[i]
  BY <1>2, AppendProperties, LenProperties
<1>4. /\ price \in DOMAIN map => old = map[price]
      /\ price \notin DOMAIN map => Len(old) = 0
  BY EmptySeq
<1> HIDE DEF old, level, m
<1>5. ASSUME Precedes(m, x, y)
      PROVE  \/ Precedes(map, x, y)
             \/ y = id /\ x \in DOMAIN os /\ os[x].side = side /\ os[x].price = price
  <2>1. PICK p \in DOMAIN m : \E i, j \in DOMAIN m[p] : i < j /\ m[p][i] = x /\ m[p][j] = y
    BY <1>5 DEF Precedes
  <2>2. PICK i \in DOMAIN m[p], j \in DOMAIN m[p] : i < j /\ m[p][i] = x /\ m[p][j] = y
    BY <2>1
  <2>3. CASE p # price
    BY <2>2, <2>3, <1>1 DEF Precedes
  <2>4. CASE p = price
    <3>1. i \in 1 .. Len(old) /\ old[i] = x /\ price \in DOMAIN map
      BY <2>2, <2>4, <1>1, <1>3, <1>4
    <3>2. CASE j \in 1 .. Len(old)
      <4>1. old[j] = y
        BY <2>2, <2>4, <3>2, <1>1, <1>3
      <4> QED BY <2>2, <3>1, <3>2, <4>1, <1>3, <1>4 DEF Precedes
    <3>3. CASE j = Len(old) + 1
      <4>1. y = id
        BY <2>2, <2>4, <3>3, <1>1, <1>3
      <4>2. x \in DOMAIN os /\ os[x].side = side /\ os[x].price = price
        BY <3>1, <1>3, <1>4 DEF SideOK
      <4> QED BY <4>1, <4>2
    <3> QED BY <2>4, <3>2, <3>3, <1>1, <1>3
  <2> QED BY <2>3, <2>4
<1>6. ASSUME Precedes(map, x, y)
      PROVE  Precedes(m, x, y)
  <2>1. PICK p \in DOMAIN map : \E i, j \in DOMAIN map[p] : i < j /\ map[p][i] = x /\ map[p][j] = y
    BY <1>6 DEF Precedes
  <2>2. PICK i \in DOMAIN map[p], j \in DOMAIN map[p] : i < j /\ map[p][i] = x /\ map[p][j] = y
    BY <2>1
  <2>3. CASE p # price
    BY <2>2, <2>3, <1>1 DEF Precedes
  <2>4. CASE p = price
    <3>1. i \in DOMAIN level /\ j \in DOMAIN level /\ level[i] = x /\ level[j] = y
      BY <2>2, <2>4, <1>3, <1>4
    <3> QED BY <2>2, <2>4, <3>1, <1>1 DEF Precedes
  <2> QED BY <2>3, <2>4
<1>7. ASSUME y = id, x \in DOMAIN os, os[x].side = side, os[x].price = price
      PROVE  Precedes(m, x, y)
  <2>1. PICK i \in DOMAIN map[price] : map[price][i] = x
    BY <1>7 DEF SideOK
  <2>2. price \in DOMAIN map
    BY <1>7 DEF SideOK
  <2>3. /\ i \in DOMAIN level /\ Len(old) + 1 \in DOMAIN level /\ i < Len(old) + 1
        /\ level[i] = x /\ level[Len(old) + 1] = y
    BY <2>1, <2>2, <1>3, <1>4, <1>7
  <2> QED BY <2>3, <1>1 DEF Precedes
<1> QED BY <1>5, <1>6, <1>7 DEF m

(* erase: the order goes, the others keep their order.                     *)
LEMMA PrecedesUnqueued ==
  ASSUME NEW map, NEW side, NEW os, SideOK(map, side, os),
         NEW id \in DOMAIN os, os[id].side = side, NEW x, NEW y
  PROVE  Precedes(Unqueued(map, os[id].price, id), x, y) <=>
           Precedes(map, x, y) /\ x # id /\ y # id
<1> DEFINE price    == os[id].price
           old      == map[price]
           location == CHOOSE i \in DOMAIN old : old[i] = id
           rest     == RemoveAt(old, location)
           m        == Unqueued(map, price, id)
<1>1. price \in DOMAIN map /\ old \in Seq(OrderIds) /\ map = [q \in DOMAIN map |-> map[q]]
  BY DEF SideOK, IsMap
<1>2. location \in DOMAIN old /\ old[location] = id
  BY DEF SideOK
<1>3. /\ Len(old) \in Nat
      /\ DOMAIN old = 1 .. Len(old)
      /\ DOMAIN rest = 1 .. Len(old) - 1
      /\ Len(rest) = Len(old) - 1
      /\ \A j \in 1 .. Len(old) - 1 :
           rest[j] = IF j < location THEN old[j] ELSE old[j + 1]
  <2> HIDE DEF location, old
  <2>1. /\ rest \in Seq(OrderIds)
        /\ Len(rest) = Len(old) - 1
        /\ \A j \in 1 .. Len(old) - 1 :
             rest[j] = IF j < location THEN old[j] ELSE old[j + 1]
    BY <1>1, <1>2, WithoutAt
  <2> HIDE DEF rest
  <2> QED BY <2>1, <1>1, LenProperties
<1>4. /\ \A q \in DOMAIN map : q # price => q \in DOMAIN m /\ m[q] = map[q]
      /\ \A q \in DOMAIN m : q \in DOMAIN map
      /\ price \in DOMAIN m => m[price] = rest
      /\ price \notin DOMAIN m => Len(old) = 1
  <2>1. CASE rest = <<>>
    <3>1. m = Restrict(map, DOMAIN map \ {price})
      BY <2>1 DEF Unqueued
    <3>2. Len(old) = 1
      <4> HIDE DEF rest, old, location, m
      <4>1. Len(rest) = 0
        BY <2>1, EmptySeq
      <4>2. Len(rest) = Len(old) - 1 /\ Len(old) \in Nat
        BY <1>3
      <4> QED BY <4>1, <4>2
    <3> HIDE DEF m, rest, old, price
    <3> QED BY <3>1, <3>2 DEF Restrict
  <2>2. CASE rest # <<>>
    <3>1. m = [map EXCEPT ![price] = rest]
      BY <2>2 DEF Unqueued
    <3> HIDE DEF m, rest, old, price
    <3> QED BY <3>1, <1>1
  <2> QED BY <2>1, <2>2
<1>5. \A i \in DOMAIN old : old[i] = id => i = location
  BY <1>1, <1>2 DEF SideOK, OnceIn
<1>6. \A p \in DOMAIN map : \A i \in DOMAIN map[p] : map[p][i] = id => p = price
  BY DEF SideOK
<1> HIDE DEF location, rest, m
<1>7. ASSUME Precedes(m, x, y)
      PROVE  Precedes(map, x, y) /\ x # id /\ y # id
  <2>1. PICK p \in DOMAIN m : \E i, j \in DOMAIN m[p] : i < j /\ m[p][i] = x /\ m[p][j] = y
    BY <1>7 DEF Precedes
  <2>2. PICK i \in DOMAIN m[p], j \in DOMAIN m[p] : i < j /\ m[p][i] = x /\ m[p][j] = y
    BY <2>1
  <2>3. CASE p # price
    <3> HIDE DEF price, old
    <3>1. p \in DOMAIN map /\ m[p] = map[p]
      BY <2>3, <1>4
    <3> QED BY <2>2, <2>3, <3>1, <1>6 DEF Precedes
  <2>4. CASE p = price
    <3> DEFINE k == IF i < location THEN i ELSE i + 1
               l == IF j < location THEN j ELSE j + 1
    <3> HIDE DEF old, price
    <3>1. i \in 1 .. Len(old) - 1 /\ j \in 1 .. Len(old) - 1 /\ rest[i] = x /\ rest[j] = y
      BY <2>2, <2>4, <1>3, <1>4
    <3>2. /\ k \in DOMAIN old /\ l \in DOMAIN old /\ k < l
          /\ k # location /\ l # location
      BY <2>2, <3>1, <1>2, <1>3
    <3>3. old[k] = x /\ old[l] = y
      BY <3>1, <1>3
    <3> HIDE DEF k, l
    <3>4. x # id /\ y # id
      BY <3>2, <3>3, <1>5
    <3> QED BY <3>2, <3>3, <3>4, <1>1 DEF Precedes, old
  <2> QED BY <2>3, <2>4
<1>8. ASSUME Precedes(map, x, y), x # id, y # id
      PROVE  Precedes(m, x, y)
  <2>1. PICK p \in DOMAIN map : \E i, j \in DOMAIN map[p] : i < j /\ map[p][i] = x /\ map[p][j] = y
    BY <1>8 DEF Precedes
  <2>2. PICK i \in DOMAIN map[p], j \in DOMAIN map[p] : i < j /\ map[p][i] = x /\ map[p][j] = y
    BY <2>1
  <2>3. CASE p # price
    <3> HIDE DEF price, old
    <3> QED BY <2>2, <2>3, <1>4 DEF Precedes
  <2>4. CASE p = price
    <3> DEFINE k == IF i < location THEN i ELSE i - 1
               l == IF j < location THEN j ELSE j - 1
    <3>1. i \in DOMAIN old /\ j \in DOMAIN old /\ old[i] = x /\ old[j] = y
      BY <2>2, <2>4
    <3> HIDE DEF old, price
    <3>2. i # location /\ j # location
      BY <3>1, <1>2, <1>8
    <3>3. /\ k \in 1 .. Len(old) - 1 /\ l \in 1 .. Len(old) - 1 /\ k < l
      BY <2>2, <3>1, <3>2, <1>2, <1>3
    <3>4. rest[k] = x /\ rest[l] = y
      <4>1. CASE i < location /\ j < location
        BY <4>1, <3>1, <3>3, <1>3
      <4>2. CASE i < location /\ ~(j < location)
        <5>1. (j - 1) + 1 = j /\ ~(j - 1 < location)
          BY <4>2, <3>1, <3>2, <1>2, <1>3
        <5> QED BY <4>2, <5>1, <3>1, <3>3, <1>3
      <4>3. CASE ~(i < location) /\ ~(j < location)
        <5>1. /\ (j - 1) + 1 = j /\ ~(j - 1 < location)
              /\ (i - 1) + 1 = i /\ ~(i - 1 < location)
          BY <4>3, <3>1, <3>2, <1>2, <1>3
        <5> QED BY <4>3, <5>1, <3>1, <3>3, <1>3
      <4>4. ~(~(i < location) /\ j < location)
        BY <2>2, <3>1, <1>2, <1>3
      <4> QED BY <4>1, <4>2, <4>3, <4>4
    <3> HIDE DEF k, l
    <3>5. price \in DOMAIN m
      BY <3>3, <1>3, <1>4
    <3> QED BY <3>3, <3>4, <3>5, <1>3, <1>4 DEF Precedes
  <2> QED BY <2>3, <2>4
<1> QED BY <1>7, <1>8 DEF m

(* pop_front of the completed orders of the front: they go, the others     *)
(* keep their order.                                                       *)
LEMMA PrecedesPopped ==
  ASSUME NEW map, NEW side, NEW os, SideOK(map, side, os),
         NEW price \in DOMAIN map, map[price] # <<>>, NEW done,
         \A z \in done : z \in DOMAIN os /\ os[z].side = side => z = Head(map[price]),
         NEW x, NEW y
  PROVE  Precedes([map EXCEPT ![price] = Popped(@, done)], x, y) <=>
           Precedes(map, x, y) /\ x \notin done /\ y \notin done
<1> DEFINE old  == map[price]
           rest == Popped(old, done)
           m    == [map EXCEPT ![price] = rest]
<1>1. /\ old \in Seq(OrderIds)
      /\ Len(old) \in Nat
      /\ Len(old) > 0
      /\ DOMAIN old = 1 .. Len(old)
      /\ Head(old) = old[1]
      /\ map = [q \in DOMAIN map |-> map[q]]
  <2>1. old \in Seq(OrderIds) /\ map = [q \in DOMAIN map |-> map[q]]
    BY DEF SideOK, IsMap
  <2> QED BY <2>1, LenProperties, EmptySeq
<1>2. /\ DOMAIN m = DOMAIN map
      /\ m[price] = rest
      /\ \A q \in DOMAIN m \ {price} : m[q] = map[q]
  <2> HIDE DEF rest
  <2> QED BY <1>1
<1>3. /\ \A p \in DOMAIN map : \A i \in DOMAIN map[p] :
           map[p][i] \in done => p = price /\ map[p][i] = Head(old)
      /\ \A i \in DOMAIN old : old[i] = Head(old) => i = 1
  <2>1. \A i \in DOMAIN old : old[i] = Head(old) => i = 1
    BY <1>1 DEF SideOK, OnceIn
  <2>2. Head(old) \in DOMAIN os /\ os[Head(old)].price = price
    BY <1>1 DEF SideOK
  <2>3. ASSUME NEW p \in DOMAIN map, NEW i \in DOMAIN map[p], map[p][i] \in done
        PROVE  p = price /\ map[p][i] = Head(old)
    <3>1. map[p][i] \in DOMAIN os /\ os[map[p][i]].side = side /\ os[map[p][i]].price = p
      BY DEF SideOK
    <3>2. map[p][i] = Head(old)
      BY <2>3, <3>1
    <3> QED BY <3>1, <3>2, <2>2
  <2> QED BY <2>1, <2>3
<1>4. CASE Head(old) \in done
  <2>1. /\ DOMAIN rest = 1 .. Len(old) - 1
        /\ \A i \in 1 .. Len(old) - 1 : rest[i] = old[i + 1]
    BY <1>1, <1>4, HeadTailProperties, LenProperties DEF Popped
  <2> HIDE DEF m, rest
  <2>2. ASSUME Precedes(m, x, y)
        PROVE  Precedes(map, x, y) /\ x \notin done /\ y \notin done
    <3>1. PICK p \in DOMAIN m : \E i, j \in DOMAIN m[p] : i < j /\ m[p][i] = x /\ m[p][j] = y
      BY <2>2 DEF Precedes
    <3>2. PICK i \in DOMAIN m[p], j \in DOMAIN m[p] : i < j /\ m[p][i] = x /\ m[p][j] = y
      BY <3>1
    <3>3. CASE p # price
      BY <3>2, <3>3, <1>2, <1>3 DEF Precedes
    <3>4. CASE p = price
      <4> HIDE DEF old
      <4>1. /\ i + 1 \in DOMAIN old /\ j + 1 \in DOMAIN old /\ i + 1 < j + 1
            /\ i + 1 # 1 /\ j + 1 # 1
            /\ old[i + 1] = x /\ old[j + 1] = y
        BY <3>2, <3>4, <2>1, <1>1, <1>2
      <4>2. x # Head(old) /\ y # Head(old)
        BY <4>1, <1>3
      <4> QED BY <4>1, <4>2, <1>3 DEF Precedes, old
    <3> QED BY <3>3, <3>4
  <2>3. ASSUME Precedes(map, x, y), x \notin done, y \notin done
        PROVE  Precedes(m, x, y)
    <3>1. PICK p \in DOMAIN map : \E i, j \in DOMAIN map[p] : i < j /\ map[p][i] = x /\ map[p][j] = y
      BY <2>3 DEF Precedes
    <3>2. PICK i \in DOMAIN map[p], j \in DOMAIN map[p] : i < j /\ map[p][i] = x /\ map[p][j] = y
      BY <3>1
    <3>3. CASE p # price
      BY <3>2, <3>3, <1>2 DEF Precedes
    <3>4. CASE p = price
      <4>0. i \in DOMAIN old /\ j \in DOMAIN old /\ old[i] = x /\ old[j] = y
        BY <3>2, <3>4
      <4> HIDE DEF old
      <4>1. i # 1 /\ j # 1
        BY <4>0, <2>3, <1>1, <1>4
      <4>2. /\ i - 1 \in DOMAIN rest /\ j - 1 \in DOMAIN rest /\ i - 1 < j - 1
            /\ (i - 1) + 1 = i /\ (j - 1) + 1 = j
        BY <3>2, <4>0, <4>1, <2>1, <1>1
      <4>3. rest[i - 1] = x /\ rest[j - 1] = y
        BY <4>0, <4>2, <2>1
      <4> QED BY <4>2, <4>3, <1>2 DEF Precedes
    <3> QED BY <3>3, <3>4
  <2> QED BY <2>2, <2>3 DEF m, rest
<1>5. CASE Head(old) \notin done
  <2>1. m = map
    BY <1>5, <1>1 DEF Popped
  <2>2. ASSUME Precedes(map, x, y)
        PROVE  x \notin done /\ y \notin done
    BY <2>2, <1>3, <1>5 DEF Precedes
  <2> QED BY <2>1, <2>2
<1> QED BY <1>4, <1>5

-----------------------------------------------------------------------------

(* Two sets of pairs with the same pairs are equal.                        *)
LEMMA SamePairs ==
  ASSUME NEW A, NEW B,
         \A pair \in A : pair = <<pair[1], pair[2]>>,
         \A pair \in B : pair = <<pair[1], pair[2]>>,
         \A x, y : <<x, y>> \in A <=> <<x, y>> \in B
  PROVE  A = B
<1>1. \A pair \in A : pair \in B
  OBVIOUS
<1>2. \A pair \in B : pair \in A
  OBVIOUS
<1> QED BY <1>1, <1>2

(* In either map, only live orders of one side and one price precede each  *)
(* other.                                                                  *)
LEMMA PrecedesInLive ==
  ASSUME NEW lv, NEW os, BookOK(lv, os), NEW x, NEW y, PrecedesIn(lv, x, y)
  PROVE  /\ x \in DOMAIN os /\ y \in DOMAIN os
         /\ os[x].side = os[y].side /\ os[x].price = os[y].price
<1>1. PICK s \in Sides : Precedes(lv[s], x, y)
  BY DEF PrecedesIn
<1>2. SideOK(lv[s], s, os)
  BY DEF BookOK
<1> QED BY <1>1, <1>2, PrecedesLive

(* CancelOrder takes the order out of the queue it is in, and no other     *)
(* order moves.                                                            *)
LEMMA PrecedesWithout ==
  ASSUME BookOK(levels, orders), NEW id \in DOMAIN orders, NEW x, NEW y
  PROVE  PrecedesIn(Without(id), x, y) <=>
           PrecedesIn(levels, x, y) /\ x # id /\ y # id
<1> DEFINE side == orders[id].side
           map  == Unqueued(levels[side], orders[id].price, id)
           lv   == Without(id)
<1>1. side \in Sides /\ SideOK(levels[side], side, orders)
  BY DEF BookOK, Order
<1>2. /\ lv[side] = map
      /\ \A s \in Sides \ {side} : lv[s] = levels[s]
  <2>1. lv = [levels EXCEPT ![side] = map]
    BY DEF Without
  <2> HIDE DEF map, lv, side
  <2> QED BY <2>1, <1>1 DEF BookOK
<1>3. Precedes(map, x, y) <=> Precedes(levels[side], x, y) /\ x # id /\ y # id
  BY <1>1, PrecedesUnqueued
<1>4. ASSUME NEW s \in Sides \ {side}, Precedes(levels[s], x, y)
      PROVE  x # id /\ y # id
  <2>1. SideOK(levels[s], s, orders)
    BY DEF BookOK
  <2>2. orders[x].side = s /\ orders[y].side = s
    BY <2>1, <1>4, PrecedesLive
  <2> QED BY <2>2
<1> HIDE DEF side, map, lv
<1>5. ASSUME NEW s \in Sides
      PROVE  Precedes(lv[s], x, y) <=> Precedes(levels[s], x, y) /\ x # id /\ y # id
  <2>1. CASE s = side
    BY <2>1, <1>2, <1>3
  <2>2. CASE s # side
    BY <2>2, <1>2, <1>4
  <2> QED BY <2>1, <2>2
<1> QED BY <1>5 DEF PrecedesIn, lv

(* AddOrder puts the order behind all the orders of its side and price,    *)
(* and no other order moves.                                               *)
LEMMA PrecedesInserted ==
  ASSUME NEW lv, NEW os, BookOK(lv, os),
         NEW id \in OrderIds, NEW order \in Order,
         NEW nlv, nlv[order.side] = Queued(lv[order.side], order.price, id),
         \A s \in Sides \ {order.side} : nlv[s] = lv[s]
  PROVE  \A x, y : PrecedesIn(nlv, x, y) <=>
                     \/ PrecedesIn(lv, x, y)
                     \/ /\ y = id
                        /\ x \in DOMAIN os
                        /\ os[x].side = order.side /\ os[x].price = order.price
<1> TAKE x, y
<1> DEFINE side == order.side
           map  == Queued(lv[side], order.price, id)
<1>1. side \in Sides /\ SideOK(lv[side], side, os)
  BY DEF BookOK, Order
<1>2. /\ nlv[side] = map
      /\ \A s \in Sides \ {side} : nlv[s] = lv[s]
  OBVIOUS
<1>3. Precedes(map, x, y) <=>
        \/ Precedes(lv[side], x, y)
        \/ y = id /\ x \in DOMAIN os /\ os[x].side = side /\ os[x].price = order.price
  BY <1>1, PrecedesQueued
<1> HIDE DEF map
<1>4. PrecedesIn(nlv, x, y) <=>
        \/ PrecedesIn(lv, x, y)
        \/ y = id /\ x \in DOMAIN os /\ os[x].side = side /\ os[x].price = order.price
  <2> HIDE DEF side
  <2> QED BY <1>1, <1>2, <1>3 DEF PrecedesIn
<1> QED BY <1>4

(* The front order of the best level of a side has price-time priority.    *)
LEMMA FrontHasPriority ==
  ASSUME BookOK(levels, orders), NEW side \in Sides, NEW p \in DOMAIN levels[side],
         IsBest(side, p), levels[side][p] # <<>>
  PROVE  LET front == Head(levels[side][p])
         IN  /\ front \in DOMAIN orders
             /\ orders[front].side = side
             /\ orders[front].price = p
             /\ Book!HasPriority(front)
<1> DEFINE level == levels[side][p]
           front == Head(level)
<1>1. SideOK(levels[side], side, orders)
  BY DEF BookOK
<1>2. /\ DOMAIN level = 1 .. Len(level)
      /\ 1 \in DOMAIN level
      /\ front = level[1]
  <2>1. level \in Seq(OrderIds)
    BY <1>1 DEF SideOK, IsMap
  <2> QED BY <2>1, LenProperties, EmptySeq
<1>3. front \in DOMAIN orders /\ orders[front].side = side /\ orders[front].price = p
  BY <1>1, <1>2 DEF SideOK
<1>4. \A i \in DOMAIN level : level[i] = front => i = 1
  BY <1>1, <1>2 DEF SideOK, OnceIn
<1> HIDE DEF front
<1>5. ASSUME NEW other \in DOMAIN orders, orders[other].side = orders[front].side
      PROVE  /\ ~Book!Better(orders[front].side, orders[other].price, orders[front].price)
             /\ <<other, front>> \notin Ahead
  <2>1. orders[other].price \in DOMAIN levels[side]
    BY <1>1, <1>3, <1>5 DEF SideOK
  <2>2. AtLeastAsGood(side, p, orders[other].price)
    BY <2>1 DEF IsBest
  <2>3. p \in Int /\ orders[other].price \in Int
    BY <1>1, <2>1, PricesAssumption DEF SideOK, IsMap
  <2>4. ~Book!Better(side, orders[other].price, p)
    BY <2>2, <2>3 DEF AtLeastAsGood, Book!Better
  <2>5. ~PrecedesIn(levels, other, front)
    <3> SUFFICES ASSUME PrecedesIn(levels, other, front)
        PROVE  FALSE
      OBVIOUS
    <3>1. PICK s \in Sides : Precedes(levels[s], other, front)
      BY DEF PrecedesIn
    <3>2. SideOK(levels[s], s, orders)
      BY DEF BookOK
    <3>3. s = side
      BY <3>1, <3>2, <1>3, PrecedesLive
    <3>4. PICK q \in DOMAIN levels[side] : \E i, j \in DOMAIN levels[side][q] :
            i < j /\ levels[side][q][i] = other /\ levels[side][q][j] = front
      BY <3>1, <3>3 DEF Precedes
    <3>5. PICK i \in DOMAIN levels[side][q], j \in DOMAIN levels[side][q] :
            i < j /\ levels[side][q][i] = other /\ levels[side][q][j] = front
      BY <3>4
    <3>6. q = p
      BY <3>5, <1>1, <1>3 DEF SideOK
    <3>7. i \in 1 .. Len(level) /\ j = 1
      BY <3>5, <3>6, <1>2, <1>4
    <3>8. Len(level) \in Nat
      BY <1>1, LenProperties DEF SideOK, IsMap
    <3> HIDE DEF level
    <3> QED BY <3>5, <3>7, <3>8
  <2>6. <<other, front>> \notin Ahead
    BY <2>5, AheadPairs DEF AheadIsPrecedence
  <2> QED BY <1>3, <2>4, <2>6
<1>6. Book!HasPriority(front)
  BY <1>5 DEF Book!HasPriority
<1> QED BY <1>3, <1>6 DEF front

-----------------------------------------------------------------------------

(* An accepted fill-and-kill order has an order of the other side to trade *)
(* with: the level it reaches is not empty.                                *)
LEMMA AcceptedIsAdmissible ==
  ASSUME NEW lv, NEW os, BookOK(lv, os), Clean(lv, os),
         DOMAIN os \subseteq DOMAIN orders, \A x \in DOMAIN os : os[x] = orders[x],
         NEW id, NEW order \in Order, Accepts(lv, os, id, order)
  PROVE  Book!Admissible(DOMAIN os, order)
<1> SUFFICES ASSUME order.type = "FillandKill"
    PROVE  \E other \in DOMAIN os :
             /\ orders[other].side # order.side
             /\ ~Book!Better(order.side, orders[other].price, order.price)
  BY DEF Book!Admissible
<1> DEFINE there == Opposite(order.side)
<1>1. PICK p \in DOMAIN lv[there] : AtLeastAsGood(order.side, order.price, p)
  BY DEF Accepts, CanMatch
<1>2. order.side \in Sides /\ there \in Sides /\ there # order.side
  BY DEF Order, Sides, Opposite
<1> HIDE DEF there
<1>3. SideOK(lv[there], there, os) /\ lv[there][p] # <<>>
  BY <1>2 DEF BookOK, Clean
<1>4. 1 \in DOMAIN lv[there][p]
  <2>1. lv[there][p] \in Seq(OrderIds)
    BY <1>3 DEF SideOK, IsMap
  <2> QED BY <2>1, <1>3, LenProperties, EmptySeq
<1> DEFINE other == lv[there][p][1]
<1>5. other \in DOMAIN os /\ os[other].side = there /\ os[other].price = p
  BY <1>3, <1>4 DEF SideOK
<1> HIDE DEF other
<1>6. orders[other].side = there /\ orders[other].price = p
  BY <1>5
<1>7. p \in Int /\ order.price \in Int
  BY <1>3, PricesAssumption DEF SideOK, IsMap, Order
<1>8. ~Book!Better(order.side, p, order.price)
  BY <1>1, <1>7 DEF AtLeastAsGood, Book!Better
<1> QED BY <1>2, <1>5, <1>6, <1>8

(* An accepted order joins the end of its queue.  lv and os are the book   *)
(* it is inserted in: the one at rest, or that book without the order it   *)
(* replaces.                                                               *)
LEMMA InsertImplements ==
  ASSUME NEW lv, NEW os, BookOK(lv, os),
         DOMAIN os \subseteq DOMAIN orders, \A x \in DOMAIN os : os[x] = orders[x],
         \A x, y : PrecedesIn(lv, x, y) <=>
                     PrecedesIn(levels, x, y) /\ x \in DOMAIN os /\ y \in DOMAIN os,
         NEW id \in OrderIds, id \notin DOMAIN os, NEW order \in Order,
         levels'[order.side] = Queued(lv[order.side], order.price, id),
         \A s \in Sides \ {order.side} : levels'[s] = lv[s],
         orders' = With(os, id, order),
         pc' = "matching"
  PROVE  Book!Join(DOMAIN os, id, order)
<1> DEFINE ids    == DOMAIN os
           behind == {<<x, id>> : x \in {y \in ids : /\ orders[y].side = order.side
                                                     /\ orders[y].price = order.price}}
           after  == (Ahead \cap (ids \X ids)) \cup behind
<1>1. orders' = [x \in ids \cup {id} |-> IF x = id THEN order ELSE orders[x]]
  BY DEF With
<1>2. /\ \A x, y : <<x, y>> \in Ahead <=> PrecedesIn(levels, x, y)
      /\ \A pair \in Ahead : pair = <<pair[1], pair[2]>>
  BY AheadPairs DEF AheadIsPrecedence
<1>3. /\ \A x, y : <<x, y>> \in Ahead' <=> PrecedesIn(levels', x, y)
      /\ \A pair \in Ahead' : pair = <<pair[1], pair[2]>>
  <2>1. AheadIsPrecedence'
    BY AheadPairs, PTL
  <2> QED BY <2>1 DEF AheadIsPrecedence, PrecedesIn, Precedes
<1>4. \A x, y : PrecedesIn(levels', x, y) <=>
                  \/ PrecedesIn(lv, x, y)
                  \/ y = id /\ x \in ids /\ orders[x].side = order.side
                                         /\ orders[x].price = order.price
  <2> HIDE DEF behind, after
  <2>1. \A x, y : PrecedesIn(levels', x, y) <=>
                    \/ PrecedesIn(lv, x, y)
                    \/ y = id /\ x \in ids /\ os[x].side = order.side
                                           /\ os[x].price = order.price
    BY PrecedesInserted
  <2> QED BY <2>1
<1>5. \A x, y : <<x, y>> \in behind <=>
                  y = id /\ x \in ids /\ orders[x].side = order.side
                                      /\ orders[x].price = order.price
  OBVIOUS
<1>6. \A pair \in behind : pair = <<pair[1], pair[2]>>
  OBVIOUS
<1> HIDE DEF behind
<1>7. \A x, y : <<x, y>> \in after <=>
                  \/ <<x, y>> \in Ahead /\ x \in ids /\ y \in ids
                  \/ <<x, y>> \in behind
  OBVIOUS
<1>8. \A pair \in after : pair = <<pair[1], pair[2]>>
  BY <1>2, <1>6
<1> HIDE DEF after, ids
<1>9. ASSUME NEW x, NEW y
      PROVE  <<x, y>> \in Ahead' <=> <<x, y>> \in after
  <2>1. <<x, y>> \in Ahead' <=> PrecedesIn(lv, x, y) \/ <<x, y>> \in behind
    BY <1>3, <1>4, <1>5
  <2>2. PrecedesIn(lv, x, y) <=> <<x, y>> \in Ahead /\ x \in ids /\ y \in ids
    BY <1>2 DEF ids
  <2> QED BY <2>1, <2>2, <1>7
<1>10. Ahead' = after
  BY <1>3, <1>8, <1>9, SamePairs
<1> QED BY <1>1, <1>10 DEF Book!Join, after, behind, ids

(* What the new Ahead is, when the orders outside ids are gone and the     *)
(* others have not moved.                                                  *)
LEMMA AheadKept ==
  ASSUME NEW ids,
         \A x, y : PrecedesIn(levels', x, y) <=>
                     PrecedesIn(levels, x, y) /\ x \in ids /\ y \in ids
  PROVE  Ahead' = Ahead \cap (ids \X ids)
<1> DEFINE after == Ahead \cap (ids \X ids)
<1>1. /\ \A x, y : <<x, y>> \in Ahead <=> PrecedesIn(levels, x, y)
      /\ \A pair \in Ahead : pair = <<pair[1], pair[2]>>
  BY AheadPairs DEF AheadIsPrecedence
<1>2. /\ \A x, y : <<x, y>> \in Ahead' <=> PrecedesIn(levels', x, y)
      /\ \A pair \in Ahead' : pair = <<pair[1], pair[2]>>
  <2>1. AheadIsPrecedence'
    BY AheadPairs, PTL
  <2> QED BY <2>1 DEF AheadIsPrecedence, PrecedesIn, Precedes
<1>3. \A x, y : <<x, y>> \in after <=> <<x, y>> \in Ahead /\ x \in ids /\ y \in ids
  OBVIOUS
<1>4. \A pair \in after : pair = <<pair[1], pair[2]>>
  BY <1>1
<1> HIDE DEF after
<1>5. ASSUME NEW x, NEW y
      PROVE  <<x, y>> \in Ahead' <=> <<x, y>> \in after
  BY <1>1, <1>2, <1>3
<1>6. Ahead' = after
  BY <1>2, <1>4, <1>5, SamePairs
<1> QED BY <1>6 DEF after

(* The erasures of CancelOrder withdraw the order.                         *)
LEMMA WithoutImplements ==
  ASSUME BookOK(levels, orders), NEW id \in DOMAIN orders,
         levels' = Without(id), orders' = Erased({id})
  PROVE  Book!Keep(DOMAIN orders \ {id})
<1> DEFINE ids == DOMAIN orders \ {id}
<1>1. orders' = [x \in ids |-> orders[x]]
  BY DEF Erased, Restrict
<1>2. ASSUME NEW x, NEW y
      PROVE  PrecedesIn(levels', x, y) <=>
               PrecedesIn(levels, x, y) /\ x \in ids /\ y \in ids
  <2>1. PrecedesIn(levels', x, y) <=> PrecedesIn(levels, x, y) /\ x # id /\ y # id
    BY PrecedesWithout
  <2>2. PrecedesIn(levels, x, y) => x \in DOMAIN orders /\ y \in DOMAIN orders
    BY PrecedesInLive
  <2> QED BY <2>1, <2>2
<1> HIDE DEF ids
<1>3. Ahead' = Ahead \cap (ids \X ids)
  BY <1>2, AheadKept
<1> QED BY <1>1, <1>3 DEF Book!Keep, ids

(* A step that leaves the maps and the index alone, and is not the start   *)
(* or the end of a call that matches, is not seen.                         *)
LEMMA Unseen ==
  ASSUME levels' = levels, orders' = orders, pc' = "matching" <=> pc = "matching"
  PROVE  UNCHANGED Book!bookVars
<1>1. Ahead' = Ahead
  BY DEF Ahead, QueuePositions
<1>2. (pc = "matching")' = (pc = "matching")
  OBVIOUS
<1> QED BY <1>1, <1>2 DEF Book!bookVars

(* AddOrder places the order, or refuses it and changes nothing.           *)
LEMMA AddImplements ==
  ASSUME IInv, SomeAdd
  PROVE  Book!Next \/ UNCHANGED Book!bookVars
<1>1. PICK id \in OrderIds, type \in OrderTypes, side \in Sides,
           price \in Prices, quantity \in Quantities :
        AddOrder(id, NewOrder(type, side, price, quantity))
  BY DEF SomeAdd
<1> DEFINE order == NewOrder(type, side, price, quantity)
           o     == [type |-> type, side |-> side, price |-> price, quantity |-> quantity]
<1>2. order \in Order
  BY QuantitiesAssumption DEF NewOrder, Order, StoredTypes
<1>3. o \in Book!Orders /\ Book!AsOrder(o) = order
  BY DEF Book!Orders, Book!AsOrder, NewOrder, OrderTypes, StoredTypes, Sides, Book!OrderTypes, Book!Sides
<1>4. pc = "idle" /\ Insert(levels, orders, id, order)
  BY <1>1 DEF AddOrder
<1>5. BookOK(levels, orders) /\ Clean(levels, orders)
  BY <1>4 DEF IInv
<1> HIDE DEF order, o
<1>6. CASE ~Accepts(levels, orders, id, order)
  <2>1. levels' = levels /\ orders' = orders /\ pc' = pc
    BY <1>4, <1>6 DEF Insert
  <2> QED BY <2>1, Unseen
<1>7. CASE Accepts(levels, orders, id, order)
  <2>1. /\ levels' = [levels EXCEPT ![order.side] = Queued(@, order.price, id)]
        /\ orders' = With(orders, id, order)
        /\ pc' = "matching"
        /\ id \notin DOMAIN orders
    BY <1>4, <1>7 DEF Insert, Accepts
  <2>2. /\ levels'[order.side] = Queued(levels[order.side], order.price, id)
        /\ \A s \in Sides \ {order.side} : levels'[s] = levels[s]
    BY <2>1, <1>2, <1>5 DEF BookOK, Order
  <2>3. \A x, y : PrecedesIn(levels, x, y) => x \in DOMAIN orders /\ y \in DOMAIN orders
    BY <1>5, PrecedesInLive
  <2>4. Book!Join(DOMAIN orders, id, order)
    BY <1>2, <1>5, <2>1, <2>2, <2>3, InsertImplements
  <2>5. Book!Admissible(DOMAIN orders, order)
    BY <1>2, <1>5, <1>7, AcceptedIsAdmissible
  <2>6. Book!Place(id, order)
    BY <1>4, <2>1, <2>4, <2>5 DEF Book!Place
  <2> QED BY <1>3, <2>6 DEF Book!Next
<1> QED BY <1>6, <1>7

(* CancelOrder withdraws the order; a call that names none, and one that   *)
(* faults, change nothing.                                                 *)
LEMMA CancelImplements ==
  ASSUME IInv, SomeCancel
  PROVE  Book!Next \/ UNCHANGED Book!bookVars
<1>1. PICK id \in OrderIds : CancelOrder(id)
  BY DEF SomeCancel
<1>2. CASE NoSuchOrder(id)
  BY <1>2, Unseen DEF NoSuchOrder, vars
<1>3. CASE StaleFault(id)
  BY <1>3, Unseen DEF StaleFault
<1>4. CASE CancelLive(id)
  <2>1. /\ pc = "idle" /\ pc' = "idle" /\ id \in DOMAIN orders
        /\ levels' = Without(id) /\ orders' = Erased({id})
    BY <1>4 DEF CancelLive
  <2>2. Book!Keep(DOMAIN orders \ {id})
    BY <2>1, WithoutImplements DEF IInv
  <2>3. Book!Withdraw(id)
    BY <2>1, <2>2 DEF Book!Withdraw
  <2> QED BY <2>3 DEF Book!Next
<1> QED BY <1>1, <1>2, <1>3, <1>4 DEF CancelOrder

(* MatchOrder (modify) replaces the order, withdraws it when its           *)
(* replacement is refused, or changes nothing.                             *)
LEMMA ModifyImplements ==
  ASSUME IInv, SomeModify
  PROVE  Book!Next \/ UNCHANGED Book!bookVars
<1>1. PICK id \in OrderIds, side \in Sides, price \in Prices, quantity \in Quantities :
        MatchOrder(id, side, price, quantity)
  BY DEF SomeModify
<1>2. CASE NoSuchOrder(id)
  BY <1>2, Unseen DEF NoSuchOrder, vars
<1>3. CASE StaleFault(id)
  BY <1>3, Unseen DEF StaleFault
<1>4. CASE ModifyLive(id, side, price, quantity)
  <2>1. PICK type \in StaleTypes(id) :
          Insert(Without(id), Erased({id}), id, NewOrder(type, side, price, quantity))
    BY <1>4 DEF ModifyLive
  <2>2. pc = "idle" /\ id \in DOMAIN orders
    BY <1>4 DEF ModifyLive
  <2>3. BookOK(levels, orders) /\ Clean(levels, orders)
    BY <2>2 DEF IInv
  <2> DEFINE order == NewOrder(type, side, price, quantity)
             o     == [type |-> type, side |-> side, price |-> price, quantity |-> quantity]
             lv    == Without(id)
             os    == Erased({id})
  <2>4. type \in StoredTypes
    <3>1. orders[id].type \in StoredTypes
      BY <2>2, <2>3 DEF BookOK, Order
    <3> QED BY <2>1, <3>1 DEF StaleTypes, StoredTypes
  <2>5. order \in Order
    BY <2>4, QuantitiesAssumption DEF NewOrder, Order
  <2>6. o \in Book!Orders /\ Book!AsOrder(o) = order
    BY <2>4 DEF Book!Orders, Book!AsOrder, NewOrder, OrderTypes, StoredTypes, Sides,
                Book!OrderTypes, Book!Sides
  <2>7. Insert(lv, os, id, order)
    BY <2>1
  <2>8. BookOK(lv, os) /\ Clean(lv, os)
    BY <2>2, <2>3, WithoutBook
  <2>9. /\ DOMAIN os = DOMAIN orders \ {id}
        /\ \A x \in DOMAIN os : os[x] = orders[x]
    BY DEF Erased, Restrict
  <2> HIDE DEF order, o
  <2>10. CASE ~Accepts(lv, os, id, order)
    <3>1. levels' = Without(id) /\ orders' = Erased({id}) /\ pc' = pc
      BY <2>7, <2>10 DEF Insert
    <3>2. Book!Keep(DOMAIN orders \ {id})
      BY <2>2, <2>3, <3>1, WithoutImplements
    <3>3. Book!Withdraw(id)
      BY <2>2, <3>1, <3>2 DEF Book!Withdraw
    <3> QED BY <3>3 DEF Book!Next
  <2>11. CASE Accepts(lv, os, id, order)
    <3>1. /\ levels' = [lv EXCEPT ![order.side] = Queued(@, order.price, id)]
          /\ orders' = With(os, id, order)
          /\ pc' = "matching"
      BY <2>7, <2>11 DEF Insert
    <3>2. ASSUME NEW x, NEW y
          PROVE  PrecedesIn(lv, x, y) <=>
                   PrecedesIn(levels, x, y) /\ x \in DOMAIN os /\ y \in DOMAIN os
      <4>1. PrecedesIn(lv, x, y) <=> PrecedesIn(levels, x, y) /\ x # id /\ y # id
        BY <2>2, <2>3, PrecedesWithout
      <4>2. PrecedesIn(levels, x, y) => x \in DOMAIN orders /\ y \in DOMAIN orders
        BY <2>3, PrecedesInLive
      <4> HIDE DEF lv, os
      <4> QED BY <4>1, <4>2, <2>9
    <3> HIDE DEF lv, os
    <3>3. /\ levels'[order.side] = Queued(lv[order.side], order.price, id)
          /\ \A s \in Sides \ {order.side} : levels'[s] = lv[s]
      BY <3>1, <2>5, <2>8 DEF BookOK, Order
    <3>4. Book!Join(DOMAIN os, id, order)
      BY <2>5, <2>8, <2>9, <3>1, <3>2, <3>3, InsertImplements
    <3>5. Book!Admissible(DOMAIN os, order)
      BY <2>5, <2>8, <2>9, <2>11, AcceptedIsAdmissible
    <3>6. Book!Replace(id, order)
      BY <2>2, <2>9, <3>4, <3>5 DEF Book!Replace
    <3> QED BY <2>6, <3>6 DEF Book!Next
  <2> QED BY <2>10, <2>11
<1> QED BY <1>1, <1>2, <1>3, <1>4 DEF MatchOrder

(* An iteration of the inner loop trades the first bid with the first ask. *)
LEMMA FillImplements ==
  ASSUME IInv, Fill
  PROVE  Book!Next
<1>1. PICK b \in DOMAIN levels["Buy"], a \in DOMAIN levels["Sell"] :
        BestLevels(b, a) /\ FillFront(b, a)
  BY DEF Fill
<1> DEFINE bid      == Head(levels["Buy"][b])
           ask      == Head(levels["Sell"][a])
           quantity == FillQuantity(bid, ask)
           done     == Completed(bid, ask, quantity)
           buys     == [levels["Buy"] EXCEPT ![b] = Popped(@, done)]
           sells    == [levels["Sell"] EXCEPT ![a] = Popped(@, done)]
           open     == DOMAIN orders \ done
<1>2. /\ BookOK(levels, orders) /\ pc = "matching"
      /\ "Buy" \in Sides /\ "Sell" \in Sides
  BY DEF IInv, Fill, Sides
<1>3. SideOK(levels["Buy"], "Buy", orders) /\ SideOK(levels["Sell"], "Sell", orders)
  BY <1>2 DEF BookOK
<1>4. levels["Buy"][b] # <<>> /\ levels["Sell"][a] # <<>>
  BY <1>1 DEF FillFront
<1>5. /\ bid \in DOMAIN orders /\ orders[bid].side = "Buy" /\ orders[bid].price = b
      /\ Book!HasPriority(bid)
  BY <1>1, <1>2, <1>4, FrontHasPriority DEF BestLevels
<1>6. /\ ask \in DOMAIN orders /\ orders[ask].side = "Sell" /\ orders[ask].price = a
      /\ Book!HasPriority(ask)
  BY <1>1, <1>2, <1>4, FrontHasPriority DEF BestLevels
<1>7. Book!Crosses(bid, ask)
  BY <1>1, <1>5, <1>6 DEF BestLevels, Book!Crosses
<1>8. ~Overfills(bid, ask, quantity)
  BY <1>2, <1>5, <1>6, FillNeverOverfills
<1>9. /\ levels' = [levels EXCEPT !["Buy"][b] = Popped(@, done), !["Sell"][a] = Popped(@, done)]
      /\ orders' = Filled(bid, ask, quantity)
      /\ pc' = "matching"
  BY <1>1, <1>2, <1>8 DEF FillFront
<1>10. levels'["Buy"] = buys /\ levels'["Sell"] = sells
  <2> HIDE DEF bid, ask, quantity, done
  <2> QED BY <1>2, <1>9 DEF BookOK, Sides
<1>11. done \subseteq {bid, ask}
  BY DEF Completed
<1>12. ASSUME NEW x, NEW y
       PROVE  PrecedesIn(levels', x, y) <=>
                PrecedesIn(levels, x, y) /\ x \in open /\ y \in open
  <2>1. \A z \in done : z \in DOMAIN orders /\ orders[z].side = "Buy" => z = bid
    BY <1>6, <1>11
  <2>2. \A z \in done : z \in DOMAIN orders /\ orders[z].side = "Sell" => z = ask
    BY <1>5, <1>11
  <2>3. Precedes(buys, x, y) <=> Precedes(levels["Buy"], x, y) /\ x \notin done /\ y \notin done
    <3> HIDE DEF done
    <3> QED BY <1>3, <1>4, <2>1, PrecedesPopped
  <2>4. Precedes(sells, x, y) <=> Precedes(levels["Sell"], x, y) /\ x \notin done /\ y \notin done
    <3> HIDE DEF done
    <3> QED BY <1>3, <1>4, <2>2, PrecedesPopped
  <2> HIDE DEF done, buys, sells
  <2>5. PrecedesIn(levels', x, y) <=>
          PrecedesIn(levels, x, y) /\ x \notin done /\ y \notin done
    BY <1>10, <2>3, <2>4 DEF PrecedesIn, Sides
  <2>6. PrecedesIn(levels, x, y) => x \in DOMAIN orders /\ y \in DOMAIN orders
    BY <1>2, PrecedesInLive
  <2> QED BY <2>5, <2>6
<1> HIDE DEF bid, ask, buys, sells
<1>13. Ahead' = Ahead \cap (open \X open)
  <2> HIDE DEF open
  <2> QED BY <1>12, AheadKept
<1> DEFINE Rest(id) == IF id \in {bid, ask} THEN orders[id].remaining - quantity
                                            ELSE orders[id].remaining
<1>14. quantity = IF orders[bid].remaining <= orders[ask].remaining
                  THEN orders[bid].remaining ELSE orders[ask].remaining
  BY DEF FillQuantity
<1> HIDE DEF quantity
<1>15. open = {id \in DOMAIN orders : id \in {bid, ask} => Rest(id) # 0}
  BY DEF Completed
<1>16. orders' = [id \in open |-> [orders[id] EXCEPT !.remaining = Rest(id)]]
  <2>1. ASSUME NEW id \in DOMAIN orders
        PROVE  (IF id \in {bid, ask} THEN [orders[id] EXCEPT !.remaining = @ - quantity]
                                     ELSE orders[id])
                 = [orders[id] EXCEPT !.remaining = Rest(id)]
    <3>1. CASE id \in {bid, ask}
      BY <3>1
    <3>2. CASE id \notin {bid, ask}
      <4>1. orders[id] \in Order
        BY <1>2 DEF BookOK
      <4> QED BY <3>2, <4>1 DEF Order
    <3> QED BY <3>1, <3>2
  <2> HIDE DEF Rest
  <2>2. orders' = [id \in open |->
                     IF id \in {bid, ask} THEN [orders[id] EXCEPT !.remaining = @ - quantity]
                                          ELSE orders[id]]
    BY <1>9 DEF Filled
  <2> QED BY <2>1, <2>2
<1>17. Book!TradeFirst(bid, ask)
  <2> HIDE DEF open, done
  <2> QED BY <1>13, <1>14, <1>15, <1>16 DEF Book!TradeFirst
<1>18. Book!Match
  BY <1>2, <1>5, <1>6, <1>7, <1>9, <1>17 DEF Book!Match
<1> QED BY <1>18 DEF Book!Next

(* The return of MatchOrders ends the call on an uncrossed book, with no   *)
(* fill-and-kill order left to remove.                                     *)
LEMMA ReturnImplements ==
  ASSUME IInv, Return
  PROVE  Book!Next
<1>1. /\ pc = "matching" /\ ~CrossedIn(levels)
      /\ Clean(levels, orders) /\ BookOK(levels, orders)
  BY DEF IInv, Return, Crossed, CrossedIn
<1>2. Residual = {}
  BY <1>1, NothingResidual
<1>3. levels' = levels
  <2>1. \A s \in Sides : Killed(s) = levels[s]
    BY <1>2 DEF Killed
  <2> QED BY <1>1, <2>1 DEF Return, BookOK
<1> DEFINE ids == {id \in DOMAIN orders : orders[id].type # "FillandKill"}
<1>4. ids = DOMAIN orders
  BY <1>1 DEF Clean
<1>5. orders' = [id \in ids |-> orders[id]]
  <2>1. orders' = [id \in DOMAIN orders |-> orders[id]]
    BY <1>2 DEF Return, Erased, Restrict
  <2> HIDE DEF ids
  <2> QED BY <2>1, <1>4
<1> HIDE DEF ids
<1>6. Ahead' = Ahead \cap (ids \X ids)
  <2>1. \A x, y : PrecedesIn(levels, x, y) => x \in ids /\ y \in ids
    BY <1>1, <1>4, PrecedesInLive
  <2>2. \A x, y : PrecedesIn(levels', x, y) <=>
                    PrecedesIn(levels, x, y) /\ x \in ids /\ y \in ids
    BY <1>3, <2>1
  <2> QED BY <2>2, AheadKept
<1>7. Book!Keep(ids)
  BY <1>5, <1>6 DEF Book!Keep
<1>8. ~\E bid, ask \in DOMAIN orders : Book!Crosses(bid, ask)
  <2> SUFFICES ASSUME NEW bid \in DOMAIN orders, NEW ask \in DOMAIN orders,
                      Book!Crosses(bid, ask)
      PROVE  FALSE
    OBVIOUS
  <2>1. /\ orders[bid].side = "Buy" /\ orders[ask].side = "Sell"
        /\ orders[bid].price >= orders[ask].price
    BY DEF Book!Crosses
  <2>2. SideOK(levels["Buy"], "Buy", orders) /\ SideOK(levels["Sell"], "Sell", orders)
    BY <1>1 DEF BookOK, Sides
  <2>3. orders[bid].price \in DOMAIN levels["Buy"] /\ orders[ask].price \in DOMAIN levels["Sell"]
    BY <2>1, <2>2 DEF SideOK
  <2> QED BY <1>1, <2>1, <2>3 DEF CrossedIn, CanMatch, Opposite, AtLeastAsGood
<1>9. pc' = "idle"
  BY <1>2 DEF Return
<1>10. Book!Done
  BY <1>1, <1>7, <1>8, <1>9 DEF Book!Done, ids
<1> QED BY <1>10 DEF Book!Next

(* Every step of the book is a step of the abstract one or is not seen.    *)
LEMMA StepImplements ==
  ASSUME IInv, [Next]_vars
  PROVE  Book!Next \/ UNCHANGED Book!bookVars
<1>1. CASE SomeAdd
  BY <1>1, AddImplements
<1>2. CASE SomeCancel
  BY <1>2, CancelImplements
<1>3. CASE SomeModify
  BY <1>3, ModifyImplements
<1>4. CASE Fill
  BY <1>4, FillImplements
<1>5. CASE Spin
  BY <1>5, Unseen DEF Spin, vars
<1>6. CASE Return
  BY <1>6, ReturnImplements
<1>7. CASE Dead
  BY <1>7, Unseen DEF Dead, vars
<1>8. CASE UNCHANGED vars
  BY <1>8, Unseen DEF vars
<1> QED BY <1>1, <1>2, <1>3, <1>4, <1>5, <1>6, <1>7, <1>8 DEF Next, MatchOrders

(* The empty book is the empty abstract book.                              *)
LEMMA InitImplements ==
  ASSUME Init
  PROVE  Book!Init
<1>1. orders = [id \in {} |-> id]
  BY DEF Init, EmptyMap
<1>2. Ahead = {}
  <2>1. \A s \in Sides : DOMAIN levels[s] = {}
    BY DEF Init, EmptyMap
  <2> QED BY <2>1 DEF Ahead
<1>3. pc = "idle"
  BY DEF Init
<1> QED BY <1>1, <1>2, <1>3 DEF Book!Init

(* The levels, the lists and the index of class Orderbook implement a book *)
(* with price-time priority: for any ids, prices, quantities and outcomes  *)
(* of the dangling reads, orders trade by price and then by time of        *)
(* arrival, a modified order goes to the back, a cancelled one leaves the  *)
(* others in place, and a call ends on an uncrossed book.                  *)
THEOREM Refinement == Spec => PriceTimePriority
<1>1. Init => Book!Init
  BY InitImplements
<1>2. IInv /\ [Next]_vars => [Book!Next]_Book!bookVars
  BY StepImplements
<1> QED BY <1>1, <1>2, Invariance, PTL DEF Spec, PriceTimePriority, Book!Spec
-----------------------------------------------------------------------------
(***************************************************************************)
(* Good-till-cancel orders, with the history variable of OrderbookHistory. *)
(***************************************************************************)

(* What GoodTillCancelHolds says of one order and one step.                *)
HeldOrDone(id) ==
  orders[id].type = "GoodTillCancel" /\ id \notin DOMAIN orders' =>
    \/ lastRequest' = "cancel"
    \/ trades' # <<>> /\ FilledBy(id, trades'[Len(trades')])

(* The history variables only watch: every step is one of the book's.      *)
LEMMA HistoryWatches == [HNext]_historyVars => [Next]_vars
BY DEF HNext, HMatchOrders, historyVars, Next

(* A modify request puts a good-till-cancel order back, unless it reads    *)
(* another type out of the order it has freed.                             *)
LEMMA ModifyHoldsOrder ==
  ASSUME "reused" \notin StaleReads, SomeModify, NEW id \in DOMAIN orders
  PROVE  HeldOrDone(id)
<1>1. PICK m \in OrderIds, side \in Sides, price \in Prices, quantity \in Quantities :
        MatchOrder(m, side, price, quantity)
  BY DEF SomeModify
<1>2. CASE NoSuchOrder(m) \/ StaleFault(m)
  BY <1>2 DEF NoSuchOrder, StaleFault, HeldOrDone, vars
<1>3. CASE ModifyLive(m, side, price, quantity)
  <2>1. PICK type \in StaleTypes(m) :
          Insert(Without(m), Erased({m}), m, NewOrder(type, side, price, quantity))
    BY <1>3 DEF ModifyLive
  <2>2. type = orders[m].type
    BY <2>1 DEF StaleTypes
  <2> DEFINE order == NewOrder(type, side, price, quantity)
  <2>3. order.type = type
    BY DEF NewOrder
  <2> HIDE DEF order
  <2>4. DOMAIN Erased({m}) = DOMAIN orders \ {m}
    BY DEF Erased, Restrict
  <2>5. CASE Accepts(Without(m), Erased({m}), m, order)
    <3>1. orders' = With(Erased({m}), m, order)
      BY <2>1, <2>5 DEF Insert, order
    <3>2. id \in DOMAIN orders'
      BY <2>4, <3>1, WithMap
    <3> QED
      BY <3>2 DEF HeldOrDone
  <2>6. CASE ~Accepts(Without(m), Erased({m}), m, order)
    <3>1. orders' = Erased({m})
      BY <2>1, <2>6 DEF Insert, order
    <3>2. order.type = "FillandKill"
      BY <2>4, <2>6 DEF Accepts
    <3> QED
      BY <2>2, <2>3, <2>4, <3>1, <3>2 DEF HeldOrDone
  <2> QED
    BY <2>5, <2>6
<1> QED
  BY <1>1, <1>2, <1>3 DEF MatchOrder

(* An order that a fill takes out is filled by the trade it reports last.  *)
LEMMA FillHoldsOrder ==
  ASSUME IInv, Fill, NEW id \in DOMAIN orders
  PROVE  HeldOrDone(id)
<1>1. PICK b \in DOMAIN levels["Buy"], a \in DOMAIN levels["Sell"] :
        BestLevels(b, a) /\ FillFront(b, a)
  BY DEF Fill
<1> DEFINE bid      == Head(levels["Buy"][b])
           ask      == Head(levels["Sell"][a])
           quantity == FillQuantity(bid, ask)
           trade    == TradeOf(bid, ask, quantity)
<1>2. bid \in DOMAIN orders /\ ask \in DOMAIN orders
  BY <1>1, FrontsLive
<1>3. quantity \in Nat /\ trade \in Trade
  BY <1>2, FrontsTrade DEF IInv
<1>4. orders' = Filled(bid, ask, quantity) /\ trades' = Append(trades, trade)
  BY <1>1, FillHolds DEF FillFront, Fill
<1> HIDE DEF bid, ask, quantity
<1>5. trades' # <<>> /\ trades'[Len(trades')] = trade
  <2> HIDE DEF trade
  <2>1. trades \in Seq(Trade)
    BY DEF IInv
  <2>2. /\ Len(Append(trades, trade)) = Len(trades) + 1
        /\ Append(trades, trade)[Len(trades) + 1] = trade
        /\ Append(trades, trade) # <<>>
    BY <1>3, <2>1, AppendProperties
  <2> QED
    BY <1>4, <2>2
<1>6. ASSUME id \notin DOMAIN orders'
      PROVE  FilledBy(id, trade)
  <2>1. id \in {bid, ask} /\ orders[id].remaining - quantity = 0
    BY <1>4, <1>6 DEF Filled, Completed
  <2>2. orders[id].remaining \in Nat
    BY DEF IInv, BookOK, Order
  <2>3. quantity = orders[id].remaining
    BY <1>3, <2>1, <2>2
  <2> QED
    BY <2>1, <2>3 DEF FilledBy, TradeOf
<1> QED
  BY <1>5, <1>6 DEF HeldOrDone

(* A good-till-cancel order leaves the book by a cancel request or by the  *)
(* trade that fills it, whatever is asked of the book in whatever order,   *)
(* as long as no other thread reuses the memory of the order that          *)
(* MatchOrder has freed before it reads the order's type.                  *)
THEOREM GoodTillCancel ==
  ASSUME "reused" \notin StaleReads
  PROVE  HSpec => GoodTillCancelHolds
<1>1. HInit => Init
  BY DEF HInit
<1>2. HInit => IInv
  BY <1>1, InitHolds
<1>3. IInv /\ [HNext]_historyVars => IInv'
  BY HistoryWatches, StepHolds
<1>4. IInv /\ [HNext]_historyVars =>
        [\A id \in DOMAIN orders :
           orders[id].type = "GoodTillCancel" /\ id \notin DOMAIN orders' =>
             \/ lastRequest' = "cancel"
             \/ trades' # <<>> /\ FilledBy(id, trades'[Len(trades')])]_historyVars
  <2> SUFFICES ASSUME IInv, HNext, NEW id \in DOMAIN orders
               PROVE  HeldOrDone(id)
    BY DEF HeldOrDone
  <2>1. CASE SomeAdd
    <3>1. PICK n \in OrderIds, type \in OrderTypes, side \in Sides,
               price \in Prices, quantity \in Quantities :
            AddOrder(n, NewOrder(type, side, price, quantity))
      BY <2>1 DEF SomeAdd
    <3>2. id \in DOMAIN orders'
      BY <3>1, WithMap DEF AddOrder, Insert
    <3> QED
      BY <3>2 DEF HeldOrDone
  <2>2. CASE lastRequest' = "cancel"
    BY <2>2 DEF HeldOrDone
  <2>3. CASE SomeModify
    BY <2>3, ModifyHoldsOrder
  <2>4. CASE Fill
    BY <2>4, FillHoldsOrder
  <2>5. CASE Spin
    BY <2>5 DEF Spin, vars, HeldOrDone
  <2>6. CASE Return
    <3>1. Residual = {}
      BY <2>6, NothingResidual DEF IInv, Return, Crossed, CrossedIn
    <3>2. DOMAIN orders' = DOMAIN orders
      BY <2>6, <3>1 DEF Return, Erased, Restrict
    <3> QED
      BY <3>2 DEF HeldOrDone
  <2> QED
    BY <2>1, <2>2, <2>3, <2>4, <2>5, <2>6 DEF HNext, HMatchOrders, MatchOrders
<1> QED
  BY <1>2, <1>3, <1>4, PTL DEF HSpec, GoodTillCancelHolds
-----------------------------------------------------------------------------

(* What the trades seq say order id traded.                                *)
TradedIn(seq, id) == SumFunction([i \in DOMAIN seq |-> QuantityIn(seq[i], id)])

(* With no trade, nothing was traded.                                      *)
LEMMA UntradedSum ==
  ASSUME NEW id
  PROVE  TradedIn(<<>>, id) = 0
<1>1. DOMAIN [i \in DOMAIN <<>> |-> QuantityIn(<<>>[i], id)] = {}
  OBVIOUS
<1> QED
  BY <1>1, SumEmpty DEF TradedIn, SumFunction

(* One more trade adds what it says the order traded.                      *)
LEMMA TradedAppended ==
  ASSUME NEW seq \in Seq(Trade), NEW trade \in Trade, NEW id
  PROVE  /\ TradedIn(seq, id) \in Int
         /\ TradedIn(Append(seq, trade), id) = TradedIn(seq, id) + QuantityIn(trade, id)
<1> DEFINE more == Append(seq, trade)
           n    == Len(seq) + 1
           old  == [i \in DOMAIN seq |-> QuantityIn(seq[i], id)]
           new  == [i \in DOMAIN more |-> QuantityIn(more[i], id)]
<1>1. /\ Len(seq) \in Nat /\ DOMAIN seq = 1 .. Len(seq)
      /\ \A i \in 1 .. Len(seq) : seq[i] \in Trade
  BY LenProperties, ElementOfSeq
<1>2. /\ DOMAIN more = 1 .. n /\ more[n] = trade
      /\ \A i \in 1 .. Len(seq) : more[i] = seq[i]
  BY AppendProperties, LenProperties
<1>3. \A t \in Trade : QuantityIn(t, id) \in Int
  BY DEF QuantityIn, Trade, TradeInfo
<1>4. IsFiniteSet(DOMAIN seq) /\ n \notin DOMAIN seq /\ DOMAIN more = DOMAIN seq \cup {n}
  <2> HIDE DEF more
  <2>1. IsFiniteSet(1 .. Len(seq))
    BY <1>1, FS_Interval
  <2> QED
    BY <1>1, <1>2, <2>1
<1>5. /\ \A i \in DOMAIN seq : old[i] \in Int /\ new[i] = old[i]
      /\ new[n] = QuantityIn(trade, id) /\ new[n] \in Int
      /\ DOMAIN old = DOMAIN seq /\ DOMAIN new = DOMAIN more
  <2> HIDE DEF more, n
  <2>1. \A i \in DOMAIN more : new[i] = QuantityIn(more[i], id)
    OBVIOUS
  <2>2. \A i \in DOMAIN seq : seq[i] \in Trade /\ more[i] = seq[i] /\ i \in DOMAIN more
    BY <1>1, <1>2, <1>4
  <2>3. n \in DOMAIN more
    BY <1>4
  <2> QED
    BY <1>2, <1>3, <2>1, <2>2, <2>3
<1>6. TradedIn(seq, id) = SumFunctionOnSet(old, DOMAIN seq)
  BY <1>5 DEF TradedIn, SumFunction
<1>7. TradedIn(more, id) = SumFunctionOnSet(new, DOMAIN seq \cup {n})
  BY <1>4, <1>5 DEF TradedIn, SumFunction
<1> HIDE DEF old, new, n, more
<1>8. SumFunctionOnSet(old, DOMAIN seq) \in Int
  BY <1>4, <1>5, SumInteger
<1>9. SumFunctionOnSet(new, DOMAIN seq) = SumFunctionOnSet(old, DOMAIN seq)
  BY <1>4, <1>5, SumSame
<1>10. SumFunctionOnSet(new, DOMAIN seq \cup {n}) = SumFunctionOnSet(new, DOMAIN seq) + new[n]
  BY <1>4, <1>5, SumAdded
<1> QED
  BY <1>5, <1>6, <1>7, <1>8, <1>9, <1>10 DEF more

(* TradesAccountForFills, and that a fill leaves side and price alone.     *)
AccountOK ==
  pc = "matching" =>
    /\ before \in [DOMAIN before -> Order]
    /\ DOMAIN orders \subseteq DOMAIN before
    /\ \A id \in DOMAIN orders :
         orders[id].side = before[id].side /\ orders[id].price = before[id].price
    /\ \A id \in DOMAIN before : before[id].remaining - Left(id) = Traded(id)
    /\ \A i \in DOMAIN trades : IsTradeOf(trades[i], before)

(* A call that begins has traded nothing of the index it finds.            *)
LEMMA CallBegins ==
  ASSUME pc = "idle", NEW lv, NEW os, NEW id, NEW order,
         Insert(lv, os, id, order), Remember, IInv'
  PROVE  AccountOK'
<1>1. CASE pc' # "matching"
  BY <1>1 DEF AccountOK
<1>2. CASE trades' = <<>> /\ pc' = "matching"
  <2>1. before' = orders'
    BY <1>2 DEF Remember
  <2>2. orders' \in [DOMAIN orders' -> Order]
    BY DEF IInv, BookOK
  <2>3. \A x : Traded(x)' = 0
    BY <1>2, UntradedSum DEF Traded, TradedIn
  <2>4. ASSUME NEW x \in DOMAIN before'
        PROVE  before'[x].remaining - Left(x)' = Traded(x)'
    <3>1. Left(x)' = orders'[x].remaining /\ orders'[x].remaining \in Int
      BY <2>1, <2>2, <2>4 DEF Left, Order
    <3> QED
      BY <2>1, <2>3, <3>1
  <2> QED
    BY <1>2, <2>1, <2>2, <2>4 DEF AccountOK
<1> QED
  BY <1>1, <1>2 DEF Insert

(* A fill takes from two orders what its trade says.                       *)
LEMMA FillAccounted ==
  ASSUME IInv, AccountOK, Fill, Remember
  PROVE  AccountOK'
<1>1. PICK b \in DOMAIN levels["Buy"], a \in DOMAIN levels["Sell"] :
        BestLevels(b, a) /\ FillFront(b, a)
  BY DEF Fill
<1> DEFINE bid      == Head(levels["Buy"][b])
           ask      == Head(levels["Sell"][a])
           quantity == FillQuantity(bid, ask)
           trade    == TradeOf(bid, ask, quantity)
<1>2. /\ bid \in DOMAIN orders /\ orders[bid].side = "Buy" /\ orders[bid].price = b
      /\ ask \in DOMAIN orders /\ orders[ask].side = "Sell" /\ orders[ask].price = a
  BY <1>1, FrontsLive
<1>3. quantity \in Nat /\ trade \in Trade
  BY <1>2, FrontsTrade DEF IInv
<1>4. pc = "matching" /\ pc' = "matching" /\ before' = before
  BY FillHolds DEF Fill, Remember
<1>5. orders' = Filled(bid, ask, quantity) /\ trades' = Append(trades, trade)
  BY <1>1, <1>4 DEF FillFront
<1>6. b >= a
  BY <1>1 DEF BestLevels
<1> HIDE DEF quantity, bid, ask
<1>7. /\ before \in [DOMAIN before -> Order]
      /\ DOMAIN orders \subseteq DOMAIN before
      /\ \A id \in DOMAIN orders :
           orders[id].side = before[id].side /\ orders[id].price = before[id].price
      /\ \A id \in DOMAIN before : before[id].remaining - Left(id) = Traded(id)
      /\ \A i \in DOMAIN trades : IsTradeOf(trades[i], before)
  BY <1>4 DEF AccountOK
<1>8. orders \in [DOMAIN orders -> Order]
  BY DEF IInv, BookOK
<1>9. /\ DOMAIN orders' \subseteq DOMAIN orders
      /\ \A id \in DOMAIN orders' :
           orders'[id].side = orders[id].side /\ orders'[id].price = orders[id].price
  BY <1>5, <1>8 DEF Filled, Order
<1>10. ASSUME NEW id \in DOMAIN before
       PROVE  before[id].remaining - Left(id)' = Traded(id)'
  <2>1. Traded(id)' = Traded(id) + QuantityIn(trade, id) /\ Traded(id) \in Int
    <3>1. trades \in Seq(Trade)
      BY DEF IInv
    <3> HIDE DEF trade
    <3>2. TradedIn(trades', id) = TradedIn(trades, id) + QuantityIn(trade, id) /\ TradedIn(trades, id) \in Int
      BY <1>3, <1>5, <3>1, TradedAppended
    <3> QED
      BY <3>2 DEF TradedIn, Traded
  <2>2. before[id].remaining - Left(id) = Traded(id) /\ before[id].remaining \in Int
    BY <1>7 DEF Order
  <2>3. Left(id) \in Int
    BY <1>8 DEF Left, Order
  <2>4. CASE id \in {bid, ask}
    <3>1. Left(id)' = Left(id) - quantity
      <4>1. id \in DOMAIN orders /\ Left(id) = orders[id].remaining
        BY <1>2, <2>4 DEF Left
      <4>2. CASE orders[id].remaining - quantity = 0
        <5>1. id \notin DOMAIN orders'
          BY <1>5, <2>4, <4>2 DEF Filled, Completed
        <5> QED
          BY <4>1, <4>2, <5>1 DEF Left
      <4>3. CASE orders[id].remaining - quantity # 0
        <5>1. id \in DOMAIN orders' /\ orders'[id].remaining = orders[id].remaining - quantity
          BY <1>5, <1>8, <2>4, <4>1, <4>3 DEF Filled, Completed, Order
        <5> QED
          BY <4>1, <5>1 DEF Left
      <4> QED
        BY <4>2, <4>3
    <3>2. bid # ask
      BY <1>2
    <3>3. QuantityIn(trade, id) = quantity
      BY <1>3, <2>4, <3>2 DEF QuantityIn, TradeOf
    <3> QED
      BY <1>3, <2>1, <2>2, <2>3, <3>1, <3>3
  <2>5. CASE id \notin {bid, ask}
    <3>1. Left(id)' = Left(id)
      BY <1>5, <2>5 DEF Filled, Completed, Left
    <3>2. QuantityIn(trade, id) = 0
      BY <2>5 DEF QuantityIn, TradeOf
    <3> QED
      BY <2>1, <2>2, <2>3, <3>1, <3>2
  <2> QED
    BY <2>4, <2>5
<1>11. IsTradeOf(trade, before)
  BY <1>2, <1>6, <1>7 DEF IsTradeOf, TradeOf
<1>12. ASSUME NEW i \in DOMAIN trades'
       PROVE  IsTradeOf(trades'[i], before)
  <2> HIDE DEF trade
  <2>1. trades \in Seq(Trade) /\ Len(trades) \in Nat /\ DOMAIN trades = 1 .. Len(trades)
    BY LenProperties DEF IInv
  <2>2. /\ DOMAIN trades' = 1 .. (Len(trades) + 1)
        /\ trades'[Len(trades) + 1] = trade
        /\ \A j \in 1 .. Len(trades) : trades'[j] = trades[j]
    BY <1>3, <1>5, <2>1, AppendProperties, LenProperties
  <2>3. i = Len(trades) + 1 \/ i \in 1 .. Len(trades)
    BY <1>12, <2>1, <2>2
  <2> QED
    BY <1>7, <1>11, <2>1, <2>2, <2>3
<1> QED
  BY <1>4, <1>7, <1>9, <1>10, <1>12 DEF AccountOK

(* Every step keeps the account.                                           *)
LEMMA AccountKept == IInv /\ AccountOK /\ [HNext]_historyVars => AccountOK'
<1> SUFFICES ASSUME IInv, AccountOK, [HNext]_historyVars PROVE AccountOK'
  OBVIOUS
<1>0. IInv'
  BY HistoryWatches, StepHolds
<1>1. CASE SomeAdd /\ Remember
  <2>1. PICK id \in OrderIds, type \in OrderTypes, side \in Sides,
             price \in Prices, quantity \in Quantities :
          AddOrder(id, NewOrder(type, side, price, quantity))
    BY <1>1 DEF SomeAdd
  <2> QED
    BY <1>0, <1>1, <2>1, CallBegins DEF AddOrder
<1>2. ASSUME NEW id, NoSuchOrder(id) \/ StaleFault(id) \/ CancelLive(id)
      PROVE  AccountOK'
  <2>1. pc' # "matching"
    BY <1>2 DEF NoSuchOrder, StaleFault, CancelLive, vars
  <2> QED
    BY <2>1 DEF AccountOK
<1>3. CASE SomeCancel
  BY <1>2, <1>3 DEF SomeCancel, CancelOrder
<1>4. CASE SomeModify /\ Remember
  <2>1. PICK id \in OrderIds, side \in Sides, price \in Prices, quantity \in Quantities :
          MatchOrder(id, side, price, quantity)
    BY <1>4 DEF SomeModify
  <2>2. CASE ModifyLive(id, side, price, quantity)
    <3>1. PICK type \in StaleTypes(id) :
            Insert(Without(id), Erased({id}), id, NewOrder(type, side, price, quantity))
      BY <2>2 DEF ModifyLive
    <3>2. pc = "idle"
      BY <2>2 DEF ModifyLive
    <3> QED
      BY <1>0, <1>4, <3>1, <3>2, CallBegins
  <2> QED
    BY <1>2, <2>1, <2>2 DEF MatchOrder
<1>5. CASE Fill /\ Remember
  BY <1>5, FillAccounted
<1>6. CASE Return
  BY <1>6 DEF Return, AccountOK
<1>7. CASE (Spin /\ Remember) \/ UNCHANGED historyVars
  <2>1. UNCHANGED vars
    BY <1>7 DEF Spin, historyVars
  <2>2. pc = "matching" => before' = before
    BY <1>7, <2>1 DEF Remember, historyVars, vars
  <2>3. CASE pc = "matching"
    BY <2>1, <2>2, <2>3 DEF AccountOK, Left, Traded, vars
  <2>4. CASE pc # "matching"
    BY <2>1, <2>4 DEF AccountOK, vars
  <2> QED
    BY <2>3, <2>4
<1> QED
  BY <1>1, <1>3, <1>4, <1>5, <1>6, <1>7 DEF HNext, HMatchOrders, MatchOrders

(* At every step of every call, for any number of fills, the trades say    *)
(* exactly what the call has taken from each order it found, whether the   *)
(* order is still in the book or was completed and erased, and nothing     *)
(* else.  The account starts anew with every call: it does not rest on     *)
(* what earlier calls did.                                                 *)
THEOREM TradesAccount == HSpec => []TradesAccountForFills
<1>1. HInit => IInv /\ AccountOK
  BY InitHolds DEF HInit, Init, AccountOK
<1>2. IInv /\ AccountOK /\ [HNext]_historyVars => (IInv /\ AccountOK)'
  BY AccountKept, HistoryWatches, StepHolds
<1>3. AccountOK => TradesAccountForFills
  BY DEF AccountOK, TradesAccountForFills
<1> QED
  BY <1>1, <1>2, <1>3, PTL DEF HSpec
=============================================================================
